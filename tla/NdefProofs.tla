----------------------------- MODULE NdefProofs -----------------------------
(* Theorems about Ndef.tla, for URLs of any length, data areas of any size   *)
(* and all sectors.                                                          *)
EXTENDS Ndef, SequenceTheorems, WellFoundedInduction, TLAPS

(* IsFirstBlock and IsTrailerBlock agree on where sectors end, also where    *)
(* those of four blocks give way to those of sixteen (PN532.c:562-584).      *)
LEMMA TrailersEndSectors ==
    \A b \in 0 .. 254 : IsTrailerBlock(b) <=> IsFirstBlock(b + 1)
BY DEF IsTrailerBlock, IsFirstBlock

(* What has a least number for which it fails holds of all: the form that    *)
(* inductions take here.                                                     *)
LEMMA LeastNumber ==
    ASSUME NEW T, T \subseteq Nat, T # {}
    PROVE  \E x \in T : \A y \in T : x <= y
<1>1. PICK x \in T : \A y \in T : ~(<<y, x>> \in OpToRel(<, Nat))
  BY NatLessThanWellFounded, WFMin, Zenon
<1>2. ASSUME NEW y \in T
      PROVE  x <= y
  <2>1. ~(y < x)
    BY <1>1, <1>2 DEF OpToRel
  <2> QED
    BY <2>1
<1> QED
  BY <1>2

-----------------------------------------------------------------------------
(* Sequences of bytes of a given length.                                     *)
Bytes(n) == {s \in Seq(Byte) : Len(s) = n}

LEMMA BytesAreFunctions ==
    ASSUME NEW n \in Nat, NEW s \in Bytes(n)
    PROVE  s \in [1 .. n -> Byte] /\ DOMAIN s = 1 .. n
BY LenProperties DEF Bytes

LEMMA FunctionsAreBytes ==
    ASSUME NEW n \in Nat, NEW f \in [1 .. n -> Byte]
    PROVE  f \in Bytes(n)
<1>1. f \in Seq(Byte)
  BY SeqDef
<1>2. Len(f) \in Nat /\ DOMAIN f = 1 .. Len(f) /\ DOMAIN f = 1 .. n
  BY <1>1, LenProperties
<1>3. Len(f) = n
  BY <1>2
<1> QED
  BY <1>1, <1>3 DEF Bytes

LEMMA ConcatBytes ==
    ASSUME NEW m \in Nat, NEW n \in Nat, NEW s \in Bytes(m), NEW t \in Bytes(n)
    PROVE  s \o t \in Bytes(m + n)
BY ConcatProperties DEF Bytes

LEMMA ConcatElements ==
    ASSUME NEW m \in Nat, NEW n \in Nat, NEW s \in Bytes(m), NEW t \in Bytes(n)
    PROVE  /\ \A i \in 1 .. m : (s \o t)[i] = s[i]
           /\ \A i \in 1 .. n : (s \o t)[m + i] = t[i]
<1>1. s \in Seq(Byte) /\ t \in Seq(Byte) /\ Len(s) = m /\ Len(t) = n
  BY DEF Bytes
<1>2. \A i \in 1 .. Len(s) + Len(t) :
          (s \o t)[i] = IF i <= Len(s) THEN s[i] ELSE t[i - Len(s)]
  BY <1>1, ConcatProperties, Zenon
<1> DEFINE c == s \o t
<1> HIDE DEF c
<1>3. \A i \in 1 .. m : c[i] = s[i]
  BY <1>1, <1>2 DEF c
<1>4. \A i \in 1 .. n : c[m + i] = t[i]
  <2> SUFFICES ASSUME NEW i \in 1 .. n
               PROVE  c[m + i] = t[i]
    OBVIOUS
  <2>1. m + i \in 1 .. m + n /\ ~(m + i <= m) /\ (m + i) - m = i
    OBVIOUS
  <2>2. c[m + i] = IF m + i <= m THEN s[m + i] ELSE t[(m + i) - m]
    BY <1>1, <1>2, <2>1 DEF c
  <2> QED
    BY <2>1, <2>2
<1> QED
  BY <1>3, <1>4 DEF c

LEMMA ConcatLeft ==
    ASSUME NEW m \in Nat, NEW n \in Nat, NEW s \in Bytes(m), NEW t \in Bytes(n)
    PROVE  \A i \in 1 .. m : (s \o t)[i] = s[i]
BY ConcatElements

LEMMA ConcatRight ==
    ASSUME NEW m \in Nat, NEW n \in Nat, NEW s \in Bytes(m), NEW t \in Bytes(n)
    PROVE  \A i \in 1 .. n : (s \o t)[m + i] = t[i]
BY ConcatElements

LEMMA SubBytes ==
    ASSUME NEW n \in Nat, NEW s \in Bytes(n),
           NEW first \in 1 .. n, NEW last \in first .. n
    PROVE  SubSeq(s, first, last) \in Bytes(last - first + 1)
<1>1. \A i \in first .. last : s[i] \in Byte
  BY BytesAreFunctions
<1> QED
  BY <1>1, SubSeqProperties DEF Bytes

LEMMA ExceptBytes ==
    ASSUME NEW n \in Nat, NEW s \in Bytes(n), NEW i \in 1 .. n, NEW b \in Byte
    PROVE  [s EXCEPT ![i] = b] \in Bytes(n)
BY ExceptSeq DEF Bytes

LEMMA ZeroBytes == \A n \in Nat : Zeros(n) \in Bytes(n)
<1> SUFFICES ASSUME NEW n \in Nat
             PROVE  Zeros(n) \in Bytes(n)
  OBVIOUS
<1>1. Zeros(n) \in [1 .. n -> Byte]
  BY DEF Zeros, Byte
<1> QED
  BY <1>1, FunctionsAreBytes

LEMMA UrlBytes == \A n \in Nat : Url(n) \in Bytes(n)
<1> SUFFICES ASSUME NEW n \in Nat
             PROVE  Url(n) \in Bytes(n)
  OBVIOUS
<1>1. \A i \in 1 .. n : 31 + (i % 64) \in Byte
  BY DEF Byte
<1>2. Url(n) \in [1 .. n -> Byte]
  BY <1>1 DEF Url
<1> QED
  BY <1>2, FunctionsAreBytes

LEMMA SameBytes ==
    ASSUME NEW n \in Nat, NEW s \in Bytes(n), NEW t \in Bytes(n),
           \A i \in 1 .. n : s[i] = t[i]
    PROVE  s = t
<1> DEFINE S == 1 .. n
<1>1. s \in [S -> Byte] /\ t \in [S -> Byte] /\ \A i \in S : s[i] = t[i]
  BY BytesAreFunctions
<1> HIDE DEF S
<1> QED
  BY <1>1

LEMMA DataAreBytes ==
    /\ Bytes(4) \subseteq Data
    /\ Bytes(16) \subseteq Data
BY BytesAreFunctions DEF Data

-----------------------------------------------------------------------------
(* What the calls write.                                                     *)
IsUriCall(o) == o.len \in 1 .. 38 /\ o.stray \in Strays(o.len)

UriKeys(o) == {NdefKeys} \cup IF o.len = 38 THEN {StrayKeys} ELSE {}

LEMMA SectorBytesLength ==
    ASSUME NEW o, IsUriCall(o)
    PROVE  SectorBytes(o) \in Bytes(48)
<1>1. Header(o) \in Bytes(9) /\ <<FE>> \in Bytes(1)
  BY DEF IsUriCall, Header, FE, uriIdentifier, Bytes, Byte
<1>2. ASSUME NEW n \in 0 .. 48, NEW s \in Bytes(n)
      PROVE  Padded(s) \in Bytes(48)
  <2>1. Len(s) = n /\ 48 - n \in Nat /\ n + (48 - n) = 48
    BY <1>2 DEF Bytes
  <2>2. Padded(s) = s \o Zeros(48 - n)
    BY <2>1 DEF Padded
  <2>3. Zeros(48 - n) \in Bytes(48 - n)
    BY <2>1, ZeroBytes
  <2>4. s \o Zeros(48 - n) \in Bytes(n + (48 - n))
    BY <2>1, <2>3, ConcatBytes
  <2> QED
    BY <2>1, <2>2, <2>4
<1>3. CASE o.len <= 23
  <2>1. o.len \in Nat /\ Url(o.len) \in Bytes(o.len)
    BY UrlBytes DEF IsUriCall
  <2>2. Header(o) \o Url(o.len) \in Bytes(9 + o.len)
    BY <1>1, <2>1, ConcatBytes
  <2>3. (Header(o) \o Url(o.len)) \o <<FE>> \in Bytes((9 + o.len) + 1)
    BY <1>1, <2>1, <2>2, ConcatBytes
  <2> DEFINE whole == (Header(o) \o Url(o.len)) \o <<FE>>
  <2>4. (9 + o.len) + 1 \in 0 .. 48
    BY <1>3, <2>1
  <2>5. Padded(whole) \in Bytes(48)
    BY <1>2, <2>3, <2>4
  <2>6. SectorBytes(o) = Padded(whole)
    BY <1>3 DEF SectorBytes
  <2> QED
    BY <2>5, <2>6
<1>4. CASE o.len > 23
  <2>1. o.len \in 24 .. 38 /\ o.len - 1 \in Nat /\ Url(o.len - 1) \in Bytes(o.len - 1)
    BY <1>4, UrlBytes DEF IsUriCall
  <2>2. Header(o) \o Url(o.len - 1) \in Bytes(9 + (o.len - 1))
    BY <1>1, <2>1, ConcatBytes
  <2> DEFINE cut == Padded(Header(o) \o Url(o.len - 1))
  <2>3. 9 + (o.len - 1) \in 0 .. 48
    BY <2>1
  <2>4. cut \in Bytes(48)
    BY <1>2, <2>2, <2>3
  <2>5. SectorBytes(o) = IF o.len = 38 THEN cut ELSE [cut EXCEPT ![o.len + 11] = FE]
    BY <1>4, <2>1 DEF SectorBytes
  <2>6. ASSUME o.len # 38
        PROVE  [cut EXCEPT ![o.len + 11] = FE] \in Bytes(48)
    <3>1. o.len + 11 \in 1 .. 48 /\ FE \in Byte
      BY <2>1, <2>6 DEF FE, Byte
    <3> QED
      BY <2>4, <3>1, ExceptBytes
  <2> QED
    BY <2>4, <2>5, <2>6
<1> QED
  BY <1>3, <1>4 DEF IsUriCall

(* The first three writes of a sector are data, and the fourth is keys.      *)
LEMMA SectorDataKinds ==
    ASSUME NEW o, IsUriCall(o), NEW n \in 1 .. 4
    PROVE  /\ n # 4 => SectorData(o, n) \in Bytes(16)
           /\ n = 4 => SectorData(o, n) \in UriKeys(o)
<1>1. CASE n = 4
  BY <1>1 DEF SectorData, UriKeys, IsUriCall, Strays
<1>2. CASE n # 4
  <2> DEFINE buffer == SubSeq(SectorBytes(o), 16 * n - 15, 16 * n)
  <2>1. /\ 16 * n - 15 \in 1 .. 48 /\ 16 * n \in 16 * n - 15 .. 48
        /\ 16 * n - (16 * n - 15) + 1 = 16
    BY <1>2
  <2>2. SectorBytes(o) \in Bytes(48)
    BY SectorBytesLength
  <2>3. buffer \in Bytes(16 * n - (16 * n - 15) + 1)
    BY <2>1, <2>2, SubBytes
  <2>4. buffer \in Bytes(16)
    BY <2>1, <2>3
  <2>5. SectorData(o, n) = IF o.stray = n THEN [buffer EXCEPT ![1] = FE] ELSE buffer
    BY <1>2 DEF SectorData
  <2>6. [buffer EXCEPT ![1] = FE] \in Bytes(16)
    <3>1. 1 \in 1 .. 16 /\ FE \in Byte
      BY DEF FE, Byte
    <3> QED
      BY <2>4, <3>1, ExceptBytes
  <2> QED
    BY <1>2, <2>4, <2>5, <2>6
<1> QED
  BY <1>1, <1>2

LEMMA PageDataKinds ==
    ASSUME NEW o, o.len \in 1 .. 242, NEW n \in 1 .. 3 + UrlPages(o.len)
    PROVE  PageWrite(o, n).data \in Bytes(4)
<1> DEFINE bytes == (PageHeader(o) \o Url(o.len)) \o <<FE, 0, 0, 0>>
<1>1. PageHeader(o) \in Bytes(12) /\ <<FE, 0, 0, 0>> \in Bytes(4)
  BY DEF PageHeader, FE, uriIdentifier, Bytes, Byte
<1>2. o.len \in Nat /\ Url(o.len) \in Bytes(o.len)
  BY UrlBytes
<1>3. PageHeader(o) \o Url(o.len) \in Bytes(12 + o.len)
  BY <1>1, <1>2, ConcatBytes
<1>4. bytes \in Bytes((12 + o.len) + 4)
  <2>1. 12 + o.len \in Nat
    BY <1>2
  <2> QED
    BY <1>1, <1>3, <2>1, ConcatBytes
<1>5. /\ 4 * n - 3 \in 1 .. (12 + o.len) + 4
      /\ 4 * n \in 4 * n - 3 .. (12 + o.len) + 4
      /\ 4 * n - (4 * n - 3) + 1 = 4
  BY <1>2 DEF UrlPages
<1>6. SubSeq(bytes, 4 * n - 3, 4 * n) \in Bytes(4 * n - (4 * n - 3) + 1)
  <2>1. (12 + o.len) + 4 \in Nat
    BY <1>2
  <2> QED
    BY <1>4, <1>5, <2>1, SubBytes
<1> QED
  BY <1>5, <1>6 DEF PageWrite

LEMMA DirectoryKinds ==
    ASSUME NEW n \in 1 .. 3
    PROVE  /\ n # 3 => FormatWrite(n).data \in Bytes(16)
           /\ n = 3 => FormatWrite(n).data = MadKeys
<1>1. CASE n = 3
  BY <1>1 DEF FormatWrite
<1>2. CASE n = 1
  <2> DEFINE row == <<20, 1, 3, 225, 3, 225, 3, 225, 3, 225, 3, 225, 3, 225, 3, 225>>
  <2>1. row \in Seq(Byte)
    BY DEF Byte
  <2>2. Len(row) = 16
    OBVIOUS
  <2>3. FormatWrite(n).data = row
    BY <1>2 DEF FormatWrite, Directory
  <2> HIDE DEF row
  <2> QED
    BY <1>2, <2>1, <2>2, <2>3 DEF Bytes
<1>3. CASE n = 2
  <2> DEFINE row == <<3, 225, 3, 225, 3, 225, 3, 225, 3, 225, 3, 225, 3, 225, 3, 225>>
  <2>1. row \in Seq(Byte)
    BY DEF Byte
  <2>2. Len(row) = 16
    OBVIOUS
  <2>3. FormatWrite(n).data = row
    BY <1>3 DEF FormatWrite, Directory
  <2> HIDE DEF row
  <2> QED
    BY <1>3, <2>1, <2>2, <2>3 DEF Bytes
<1> QED
  BY <1>1, <1>2, <1>3

(* Of a call that is accepted, every write goes to the area that was named,  *)
(* and is a key for a trailer and data for the rest.                         *)
GoodKeys(o) ==
    {MadKeys, NdefKeys} \cup IF MaySpoilKey(o) THEN {StrayKeys} ELSE {}

GoodWrite(o, w) ==
    /\ w.at \in AreaOf(o)
    /\ kind = "classic" /\ IsTrailerBlock(w.at) => w.data \in GoodKeys(o)
    /\ kind = "classic" /\ ~IsTrailerBlock(w.at) => w.data \in Bytes(16)
    /\ kind = "ntag" => w.data \in Bytes(4)

LEMMA FormatWritesWell ==
    ASSUME kind = "classic", NEW o, o.type = "format", NEW n \in 1 .. Writes(o)
    PROVE  GoodWrite(o, Write(o, n))
<1>1. n \in 1 .. 3 /\ Write(o, n) = FormatWrite(n) /\ AreaOf(o) = 1 .. 3
  BY DEF Writes, Write, AreaOf
<1>2. FormatWrite(n).at = n
  BY DEF FormatWrite
<1>3. IsTrailerBlock(n) <=> n = 3
  BY <1>1 DEF IsTrailerBlock
<1>4. /\ n # 3 => FormatWrite(n).data \in Bytes(16)
      /\ n = 3 => FormatWrite(n).data \in GoodKeys(o)
  BY <1>1, DirectoryKinds DEF GoodKeys
<1> QED
  BY <1>1, <1>2, <1>3, <1>4 DEF GoodWrite

LEMMA SectorArithmetic ==
    ASSUME NEW sector \in 1 .. 15, NEW n \in 1 .. 4
    PROVE  /\ IsTrailerBlock(sector * 4 + n - 1) <=> n = 4
           /\ sector * 4 + n - 1 \in sector * 4 .. sector * 4 + 3
<1>1. sector * 4 + n - 1 < 128 /\ (sector * 4 + n - 1) + 1 = 4 * sector + n
  OBVIOUS
<1>2. (4 * sector + n) % 4 = 0 <=> n = 4
  OBVIOUS
<1> QED
  BY <1>1, <1>2 DEF IsTrailerBlock

LEMMA PageArithmetic ==
    ASSUME NEW len \in 1 .. 242, NEW dataLen \in 0 .. 255, len + 13 <= dataLen,
           NEW n \in 1 .. 3 + (len \div 4 + 1)
    PROVE  3 + n \in 4 .. 3 + (dataLen + 3) \div 4
OBVIOUS

LEMMA SectorWritesWell ==
    ASSUME kind = "classic", NEW o, o.type = "sector_uri", o.sector \in 1 .. 15, IsUriCall(o),
           NEW n \in 1 .. Writes(o)
    PROVE  GoodWrite(o, Write(o, n))
<1>1. /\ n \in 1 .. 4
      /\ Write(o, n) = SectorWrite(o, n)
      /\ AreaOf(o) = o.sector * 4 .. o.sector * 4 + 3
  BY DEF Writes, Write, AreaOf
<1>2. SectorWrite(o, n).at = o.sector * 4 + n - 1 /\ SectorWrite(o, n).data = SectorData(o, n)
  BY DEF SectorWrite
<1>3. /\ IsTrailerBlock(o.sector * 4 + n - 1) <=> n = 4
      /\ o.sector * 4 + n - 1 \in o.sector * 4 .. o.sector * 4 + 3
  BY <1>1, SectorArithmetic
<1>4. /\ n # 4 => SectorData(o, n) \in Bytes(16)
      /\ n = 4 => SectorData(o, n) \in GoodKeys(o)
  BY <1>1, SectorDataKinds DEF UriKeys, GoodKeys, MaySpoilKey
<1> QED
  BY <1>1, <1>2, <1>3, <1>4 DEF GoodWrite

LEMMA PagesWriteWell ==
    ASSUME kind = "ntag", NEW o, o.type = "ntag_uri", o.len \in 0 .. 255,
           o.dataLen \in 0 .. 255, Fits(o.len, o.dataLen), NEW n \in 1 .. Writes(o)
    PROVE  GoodWrite(o, Write(o, n))
<1>1. /\ n \in 1 .. 3 + UrlPages(o.len)
      /\ Write(o, n) = PageWrite(o, n)
      /\ AreaOf(o) = 4 .. 3 + (o.dataLen + 3) \div 4
  BY DEF Writes, Write, AreaOf
<1>2. o.len \in 1 .. 242 /\ o.len + 13 <= o.dataLen
  BY DEF Fits
<1>3. PageWrite(o, n).data \in Bytes(4)
  BY <1>1, <1>2, PageDataKinds
<1>4. PageWrite(o, n).at = 3 + n
  BY DEF PageWrite
<1>5. 3 + n \in 4 .. 3 + (o.dataLen + 3) \div 4
  BY <1>1, <1>2, PageArithmetic DEF UrlPages
<1> QED
  BY <1>1, <1>3, <1>4, <1>5 DEF GoodWrite

LEMMA ClassicCalls ==
    ASSUME kind = "classic", NEW o \in Calls
    PROVE  \/ o.type = "format"
           \/ /\ o.type = "sector_uri"
              /\ o.sector \in Sectors /\ o.len \in 0 .. 255 /\ o.stray \in Strays(o.len)
<1>1. CASE o \in [type: {"format"}]
  BY <1>1
<1>2. CASE o \notin [type: {"format"}]
  <2>1. PICK l \in Lengths : o \in [type: {"sector_uri"}, sector: Sectors, strlen: {l},
                                    len: {l % 256}, stray: Strays(l % 256)]
    BY <1>2 DEF Calls
  <2>2. l % 256 \in 0 .. 255
    BY NdefAssumption
  <2> QED
    BY <2>1, <2>2
<1> QED
  BY <1>1, <1>2

LEMMA NtagCalls ==
    ASSUME kind = "ntag", NEW o \in Calls
    PROVE  /\ o.type = "ntag_uri" /\ o.len \in 0 .. 255
           /\ o.dataLen \in DataLens /\ o.dataLen \in 0 .. 255
<1>1. PICK l \in Lengths : o \in [type: {"ntag_uri"}, dataLen: DataLens, strlen: {l},
                                  len: {l % 256}]
  BY DEF Calls
<1>2. l % 256 \in 0 .. 255
  BY NdefAssumption
<1>3. o.type = "ntag_uri" /\ o.len = l % 256 /\ o.dataLen \in DataLens
  BY <1>1
<1>4. o.len \in 0 .. 255
  BY <1>2, <1>3, Zenon
<1>5. o.dataLen \in 0 .. 255
  BY <1>3, NdefAssumption, Zenon
<1> QED
  BY <1>3, <1>4, <1>5, Zenon

LEMMA WritesWell ==
    ASSUME kind \in {"classic", "ntag"}, NEW o \in Calls, Accepts(o), NEW n \in 1 .. Writes(o)
    PROVE  GoodWrite(o, Write(o, n))
<1>1. CASE kind = "classic"
  <2>1. o.type = "format" \/ (/\ o.type = "sector_uri" /\ o.len \in 1 .. 38
                              /\ o.sector \in 1 .. 15 /\ o.stray \in Strays(o.len))
    BY <1>1, ClassicCalls DEF Accepts
  <2> QED
    BY <1>1, <2>1, FormatWritesWell, SectorWritesWell DEF IsUriCall
<1>2. CASE kind = "ntag"
  <2>1. /\ o.type = "ntag_uri" /\ o.len \in 0 .. 255 /\ o.dataLen \in 0 .. 255
        /\ Fits(o.len, o.dataLen)
    BY <1>2, NtagCalls DEF Accepts
  <2> QED
    BY <1>2, <2>1, PagesWriteWell
<1> QED
  BY <1>1, <1>2

-----------------------------------------------------------------------------
(* The inductive invariant.                                                  *)
Fits67 == op \in Calls /\ Accepts(op) => Writes(op) \in 3 .. 67

CallOK ==
    /\ kind \in {"classic", "ntag"}
    /\ op \in Calls \cup {None}
    /\ result \in {None, 0, 1}
    /\ refused \in BOOLEAN
    /\ step \in 0 .. 67
    /\ Running => op \in Calls /\ Accepts(op) /\ step < Writes(op)

MemOK ==
    /\ DOMAIN mem = Addresses
    /\ \A a \in Addresses :
        /\ kind = "classic" /\ IsTrailerBlock(a) => mem[a] \in Trailers
        /\ kind = "classic" /\ ~IsTrailerBlock(a) => mem[a] \in Bytes(16)
        /\ kind = "ntag" => mem[a] \in Bytes(4)

LEMMA CallLengths == CallOK => Fits67
<1> SUFFICES ASSUME CallOK, op \in Calls, Accepts(op)
             PROVE  Writes(op) \in 3 .. 67
  BY DEF Fits67
<1>1. CASE kind = "classic"
  BY <1>1, ClassicCalls DEF Writes
<1>2. CASE kind = "ntag"
  <2>1. op.type = "ntag_uri" /\ op.len \in 0 .. 255 /\ op.dataLen \in 0 .. 255
    BY <1>2, NtagCalls
  <2>2. op.len \in 1 .. 242
    BY <2>1 DEF Accepts, Fits
  <2> QED
    BY <2>1, <2>2 DEF Writes, UrlPages
<1> QED
  BY <1>1, <1>2 DEF CallOK

LEMMA CallStep == CallOK /\ [NdefNext]_ndef_vars => CallOK'
<1> SUFFICES ASSUME CallOK, [NdefNext]_ndef_vars
             PROVE  CallOK'
  OBVIOUS
<1>1. CASE Call
  <2>1. Calls' = Calls /\ kind' = kind
    BY <1>1 DEF Call, Calls
  <2>2. op' \in Calls' /\ (result' = None => Accepts(op'))
    BY <1>1, <2>1, NdefAssumption DEF Call
  <2>3. result' \in {None, 0} /\ refused' = FALSE /\ step' = 0
    BY <1>1 DEF Call
  <2>4. Writes(op') > 0
    <3>1. CASE kind = "classic"
      BY <2>1, <2>2, <3>1, ClassicCalls DEF Writes
    <3>2. CASE kind = "ntag"
      <4>1. op'.type = "ntag_uri" /\ op'.len \in 0 .. 255
        BY <2>1, <2>2, <3>2, NtagCalls
      <4> QED
        BY <4>1 DEF Writes, UrlPages
    <3> QED
      BY <3>1, <3>2 DEF CallOK
  <2>5. (Running => op \in Calls /\ Accepts(op) /\ step < Writes(op))'
    <3>1. Running' => Accepts(op')
      BY <2>2 DEF Running
    <3>2. step' < Writes(op')
      BY <2>3, <2>4
    <3> QED
      BY <2>2, <3>1, <3>2 DEF Accepts, Writes
  <2>6. /\ kind' \in {"classic", "ntag"} /\ (op \in Calls \cup {None})'
        /\ refused' \in BOOLEAN
    BY <2>1, <2>2, <2>3, Zenon DEF CallOK
  <2>7. result' \in {None, 0, 1} /\ step' \in 0 .. 67
    BY <2>3
  <2> QED
    BY <2>5, <2>6, <2>7, Zenon DEF CallOK
<1>2. CASE WriteReturns1 \/ WriteReturns0
  <2>1. Running /\ kind' = kind /\ op' = op /\ Calls' = Calls
    BY <1>2 DEF WriteReturns1, WriteReturns0, Calls
  <2>2. op \in Calls /\ Accepts(op) /\ step < Writes(op) /\ Writes(op) \in 3 .. 67
    BY <2>1, CallLengths DEF CallOK, Fits67
  <2>3. refused' \in BOOLEAN
    BY <1>2 DEF WriteReturns1, WriteReturns0, CallOK
  <2>4. /\ step' \in 0 .. 67 /\ result' \in {None, 0, 1}
        /\ result' = None => step' < Writes(op)
    BY <1>2, <2>2, NdefAssumption DEF WriteReturns1, WriteReturns0, CallOK
  <2>5. (Accepts(op)' <=> Accepts(op)) /\ Writes(op)' = Writes(op)
    BY <2>1 DEF Accepts, Writes
  <2> QED
    BY <2>1, <2>2, <2>3, <2>4, <2>5 DEF CallOK, Running
<1>3. CASE UNCHANGED ndef_vars
  BY <1>3 DEF ndef_vars, CallOK, Running, Calls, Accepts, Writes
<1> QED
  BY <1>1, <1>2, <1>3 DEF NdefNext

(* A step leaves the memory alone, or makes the next write of its call.      *)
LEMMA WritesOnce ==
    ASSUME CallOK, [NdefNext]_ndef_vars
    PROVE  \/ UNCHANGED mem
           \/ /\ Running /\ op' = op
              /\ \E n \in 1 .. Writes(op) : Executes(Write(op, n))
<1>1. CASE Call \/ UNCHANGED ndef_vars
  BY <1>1 DEF Call, ndef_vars
<1>2. CASE WriteReturns1 \/ WriteReturns0
  <2>1. Running /\ op' = op /\ step < Writes(op) /\ step \in Nat /\ Writes(op) \in 3 .. 67
    BY <1>2, CallLengths DEF WriteReturns1, WriteReturns0, CallOK, Fits67
  <2>2. step + 1 \in 1 .. Writes(op)
    BY <2>1
  <2>3. Executes(Write(op, step + 1)) \/ UNCHANGED mem
    BY <1>2 DEF WriteReturns1, WriteReturns0
  <2> QED
    BY <2>1, <2>2, <2>3
<1> QED
  BY <1>1, <1>2 DEF NdefNext

LEMMA MemStep == CallOK /\ MemOK /\ [NdefNext]_ndef_vars => MemOK'
<1> SUFFICES ASSUME CallOK, MemOK, [NdefNext]_ndef_vars
             PROVE  MemOK'
  OBVIOUS
<1>1. kind' = kind
  BY DEF NdefNext, ndef_vars, Call, WriteReturns1, WriteReturns0
<1>2. Addresses' = Addresses
  BY <1>1 DEF Addresses
<1>3. CASE UNCHANGED mem
  BY <1>1, <1>2, <1>3 DEF MemOK
<1>4. ASSUME Running, NEW n \in 1 .. Writes(op), Executes(Write(op, n))
      PROVE  MemOK'
  <2> DEFINE w == Write(op, n)
  <2>1. GoodWrite(op, w)
    BY <1>4, WritesWell DEF CallOK
  <2>2. mem' = [mem EXCEPT ![w.at] = w.data]
    BY <1>4 DEF Executes
  <2> HIDE DEF w
  <2>3. DOMAIN mem' = Addresses
    BY <2>2 DEF MemOK
  <2>4. \A a \in Addresses : mem'[a] = IF a = w.at THEN w.data ELSE mem[a]
    BY <2>2 DEF MemOK
  <2>5. GoodKeys(op) \subseteq Trailers
    BY DEF GoodKeys, Trailers
  <2> QED
    BY <1>1, <1>2, <2>1, <2>3, <2>4, <2>5 DEF MemOK, GoodWrite
<1> QED
  BY <1>3, <1>4, WritesOnce

LEMMA NdefInitOK == NdefInit => CallOK /\ MemOK
<1> SUFFICES ASSUME NdefInit
             PROVE  CallOK /\ MemOK
  OBVIOUS
<1>1. CallOK
  <2>1. ~Running /\ refused \in BOOLEAN /\ kind \in {"classic", "ntag"}
    BY DEF NdefInit, Running
  <2>2. op \in Calls \cup {None} /\ result \in {None, 0, 1} /\ step \in 0 .. 67
    BY DEF NdefInit
  <2> QED
    BY <2>1, <2>2 DEF CallOK
<1>2. Zeros(4) \in Bytes(4) /\ Zeros(16) \in Bytes(16) /\ FactoryKeys \in Trailers
  BY ZeroBytes DEF Trailers
<1>3. MemOK
  BY <1>2 DEF NdefInit, MemOK
<1> QED
  BY <1>1, <1>3

LEMMA NdefInvariant == NdefSpec => [](CallOK /\ MemOK)
<1> QED
  BY NdefInitOK, CallStep, MemStep, PTL DEF NdefSpec

(* Calls stay within their lengths, and every block and page has its size.   *)
THEOREM NdefWellTyped == NdefSpec => []NdefTypeOK
<1>1. CallOK /\ MemOK => NdefTypeOK
  BY DataAreBytes DEF CallOK, MemOK, NdefTypeOK
<1> QED
  BY <1>1, NdefInvariant, PTL

(* However calls are cut short, and whatever they are given, a trailer only  *)
(* ever gets one of the two keys the comments name, but for the first byte   *)
(* of a URL of 38 characters, and no data; the other blocks only get data    *)
(* (PN532.c:576, 776, 857 and 870).                                          *)
THEOREM OnlyKeysInTrailers == NdefSpec => KeysGoToTrailers
<1>1. CallOK /\ MemOK /\ [NdefNext]_ndef_vars
        => [\A a \in Addresses : mem'[a] # mem[a] =>
              IF kind = "classic" /\ IsTrailerBlock(a)
              THEN mem'[a] \in {MadKeys, NdefKeys} \/ MaySpoilKey(op)
              ELSE mem'[a] \in Data]_ndef_vars
  <2> SUFFICES ASSUME CallOK, MemOK, [NdefNext]_ndef_vars,
                      NEW a \in Addresses, mem'[a] # mem[a]
               PROVE  IF kind = "classic" /\ IsTrailerBlock(a)
                      THEN mem'[a] \in {MadKeys, NdefKeys} \/ MaySpoilKey(op)
                      ELSE mem'[a] \in Data
    OBVIOUS
  <2>1. PICK n \in 1 .. Writes(op) : Running /\ Executes(Write(op, n))
    BY WritesOnce
  <2> DEFINE w == Write(op, n)
  <2>2. GoodWrite(op, w)
    BY <2>1, WritesWell DEF CallOK
  <2>3. mem' = [mem EXCEPT ![w.at] = w.data]
    BY <2>1 DEF Executes
  <2> HIDE DEF w
  <2>4. a = w.at /\ mem'[a] = w.data
    BY <2>3 DEF MemOK
  <2>5. kind \in {"classic", "ntag"}
    BY DEF CallOK
  <2> QED
    BY <2>2, <2>4, <2>5, DataAreBytes DEF GoodWrite, GoodKeys
<1> QED
  BY <1>1, NdefInvariant, PTL DEF NdefSpec, KeysGoToTrailers

(* No call writes outside the sector or data area it was given, whatever the *)
(* length of the URL and the size of the area (PN532.c:809-815, 1158).       *)
THEOREM CallsStayInside == NdefSpec => OnlyItsAreaWritten
<1>1. CallOK /\ MemOK /\ [NdefNext]_ndef_vars
        => [\A a \in Addresses : mem'[a] # mem[a] => a \in AreaOf(op)]_ndef_vars
  <2> SUFFICES ASSUME CallOK, MemOK, [NdefNext]_ndef_vars,
                      NEW a \in Addresses, mem'[a] # mem[a]
               PROVE  a \in AreaOf(op)
    OBVIOUS
  <2>1. PICK n \in 1 .. Writes(op) : Running /\ Executes(Write(op, n))
    BY WritesOnce
  <2>2. Write(op, n).at \in AreaOf(op)
    BY <2>1, WritesWell DEF CallOK, GoodWrite
  <2>3. a = Write(op, n).at
    BY <2>1 DEF Executes, MemOK
  <2> QED
    BY <2>2, <2>3
<1> QED
  BY <1>1, NdefInvariant, PTL DEF NdefSpec, OnlyItsAreaWritten

-----------------------------------------------------------------------------
(* What a call has written stays as it wrote it.                             *)
Accepted(o) == o \in Calls /\ Accepts(o)

LEMMA WriteAddresses ==
    ASSUME kind \in {"classic", "ntag"}, NEW o, Accepted(o), NEW n \in 1 .. Writes(o)
    PROVE  /\ Write(o, n).at \in Addresses
           /\ \A m \in 1 .. Writes(o) : m # n => Write(o, m).at # Write(o, n).at
<1>1. CASE kind = "classic" /\ o.type = "format"
  <2>1. \A m \in 1 .. Writes(o) : m \in 1 .. 3 /\ Write(o, m).at = m
    BY <1>1 DEF Writes, Write, FormatWrite
  <2>2. \A m \in 1 .. 3 : m \in 1 .. 63 /\ m \div 4 = 0
    OBVIOUS
  <2> QED
    BY <1>1, <2>1, <2>2 DEF Addresses
<1>2. CASE kind = "classic" /\ o.type # "format"
  <2>1. /\ o.type = "sector_uri" /\ o.sector \in Sectors /\ o.sector \in 1 .. 15
    BY <1>2, ClassicCalls DEF Accepted, Accepts
  <2>2. \A m \in 1 .. Writes(o) : m \in 1 .. 4 /\ Write(o, m).at = o.sector * 4 + m - 1
    BY <2>1 DEF Writes, Write, SectorWrite
  <2> DEFINE s == o.sector
  <2>3. s * 4 + n - 1 \in 1 .. 63 /\ (s * 4 + n - 1) \div 4 = s
    <3>1. n \in 1 .. 4 /\ s \in 1 .. 15
      BY <2>1, <2>2
    <3> HIDE DEF s
    <3> QED
      BY <3>1
  <2>4. \A m \in 1 .. 4 : m # n => s * 4 + m - 1 # s * 4 + n - 1
    <3>1. n \in 1 .. 4 /\ s \in 1 .. 15
      BY <2>1, <2>2
    <3> HIDE DEF s
    <3> QED
      BY <3>1
  <2>5. Write(o, n).at \in Addresses
    BY <1>2, <2>1, <2>2, <2>3 DEF Addresses
  <2> QED
    BY <2>2, <2>4, <2>5
<1>3. CASE kind = "ntag"
  <2>1. /\ o.type = "ntag_uri" /\ o.len \in 0 .. 255 /\ o.dataLen \in DataLens
        /\ o.dataLen \in 0 .. 255 /\ Fits(o.len, o.dataLen)
    BY <1>3, NtagCalls DEF Accepted, Accepts
  <2>2. \A m \in 1 .. Writes(o) : m \in Nat /\ Write(o, m).at = 3 + m
    <3>1. Writes(o) = 3 + UrlPages(o.len)
      BY <2>1 DEF Writes
    <3> QED
      BY <2>1, <3>1 DEF Write, PageWrite, UrlPages
  <2>3. Write(o, n).at \in 4 .. 3 + (o.dataLen + 3) \div 4
    <3>1. GoodWrite(o, Write(o, n))
      BY <1>3, <2>1, PagesWriteWell
    <3> QED
      BY <2>1, <3>1 DEF GoodWrite, AreaOf
  <2>4. 3 + (o.dataLen + 3) \div 4 <= LastPage /\ LastPage \in 4 .. 225
    BY <2>1, NdefAssumption
  <2>5. Write(o, n).at \in 4 .. LastPage
    BY <2>1, <2>3, <2>4
  <2> QED
    BY <1>3, <2>2, <2>5 DEF Addresses
<1> QED
  BY <1>1, <1>2, <1>3

WritesStand ==
    /\ result = 1 => Accepted(op) /\ step = Writes(op)
    /\ (Running \/ result = 1) /\ ~refused =>
          \A n \in 1 .. step : mem[Write(op, n).at] = Write(op, n).data

LEMMA StandInit == NdefInit => WritesStand
BY NdefAssumption DEF NdefInit, WritesStand, Running

LEMMA StandStep == CallOK /\ MemOK /\ WritesStand /\ [NdefNext]_ndef_vars => WritesStand'
<1> SUFFICES ASSUME CallOK, MemOK, WritesStand, [NdefNext]_ndef_vars
             PROVE  WritesStand'
  OBVIOUS
<1>1. CASE Call
  <2>1. result' # 1 /\ step' = 0
    BY <1>1, NdefAssumption DEF Call
  <2> QED
    BY <2>1 DEF WritesStand
<1>2. CASE WriteReturns1
  <2> DEFINE w(n) == Write(op, n)
             k == step + 1
  <2>1. /\ Running /\ op' = op /\ kind' = kind /\ step' = k
        /\ result' = IF k = Writes(op) THEN 1 ELSE None
        /\ refused' = FALSE => Executes(w(k)) /\ refused = FALSE
    BY <1>2 DEF WriteReturns1, CallOK
  <2>2. /\ Accepted(op) /\ step \in Nat /\ Writes(op) \in 3 .. 67 /\ step < Writes(op)
        /\ refused' \in BOOLEAN
    <3>1. op \in Calls /\ Accepts(op) /\ step < Writes(op) /\ step \in Nat
      BY <2>1 DEF CallOK
    <3>2. Writes(op) \in 3 .. 67
      BY <3>1, CallLengths DEF Fits67
    <3>3. refused' \in BOOLEAN
      BY <1>2 DEF WriteReturns1, CallOK
    <3> QED
      BY <3>1, <3>2, <3>3 DEF Accepted
  <2>3. result' = 1 => Accepted(op)' /\ step' = Writes(op)'
    <3>1. Accepted(op)' <=> Accepted(op)
      BY <2>1 DEF Accepted, Calls, Accepts
    <3>2. Writes(op)' = Writes(op)
      BY <2>1 DEF Writes
    <3> QED
      BY <2>1, <2>2, <3>1, <3>2, NdefAssumption
  <2>4. ASSUME ~refused', NEW n \in 1 .. k
        PROVE  mem'[w(n).at] = w(n).data
    <3>1. k \in 1 .. Writes(op) /\ n \in 1 .. Writes(op)
      BY <2>2
    <3>2. /\ w(k).at \in Addresses /\ w(n).at \in Addresses
          /\ n # k => w(n).at # w(k).at
      BY <2>2, <3>1, WriteAddresses DEF CallOK
    <3>3. mem' = [mem EXCEPT ![w(k).at] = w(k).data] /\ DOMAIN mem = Addresses
      BY <2>1, <2>2, <2>4 DEF Executes, MemOK
    <3>4. n # k => mem[w(n).at] = w(n).data
      <4>1. n # k => n \in 1 .. step
        BY <2>2
      <4> QED
        BY <2>1, <2>2, <2>4, <4>1 DEF WritesStand
    <3> HIDE DEF w, k
    <3> QED
      BY <3>2, <3>3, <3>4
  <2>5. \A n \in 1 .. k : Write(op, n)' = w(n)
    BY <2>1
  <2> QED
    BY <2>1, <2>3, <2>4, <2>5 DEF WritesStand
<1>3. CASE WriteReturns0
  <2>1. result' = 0 /\ None # 0
    BY <1>3, NdefAssumption DEF WriteReturns0
  <2> QED
    BY <2>1 DEF WritesStand, Running
<1>4. CASE UNCHANGED ndef_vars
  <2>1. (Accepted(op)' <=> Accepted(op)) /\ Writes(op)' = Writes(op)
    BY <1>4 DEF ndef_vars, Accepted, Calls, Accepts, Writes
  <2> QED
    BY <1>4, <2>1 DEF ndef_vars, WritesStand, Running
<1> QED
  BY <1>1, <1>2, <1>3, <1>4 DEF NdefNext

-----------------------------------------------------------------------------
(* The recursive function that finds the message exists, for it looks at     *)
(* later bytes only: it is extended from the end of the area, place by place.*)
TlvAt(bytes, f, p) ==
    IF p >= Len(bytes) THEN 0
    ELSE CASE bytes[p] = 0 -> f[p + 1]
           [] bytes[p] = 3 -> p
           [] bytes[p] = FE -> 0
           [] OTHER -> f[p + 2 + bytes[p + 1]]

LEMMA TlvLooksAhead ==
    ASSUME NEW b \in Seq(Byte), NEW p \in Nat, NEW f \in [Nat -> Nat], NEW g \in [Nat -> Nat],
           \A q \in Nat : q > p => f[q] = g[q]
    PROVE  TlvAt(b, f, p) = TlvAt(b, g, p) /\ TlvAt(b, f, p) \in Nat
<1>1. CASE p >= Len(b)
  BY <1>1 DEF TlvAt
<1>2. CASE ~(p >= Len(b))
  <2> DEFINE x == b[p + 1]
             y == b[p]
  <2>1. x \in Nat
    <3>1. p + 1 \in 1 .. Len(b)
      BY <1>2
    <3>2. x \in Byte
      BY <3>1, ElementOfSeq
    <3> HIDE DEF x
    <3> QED
      BY <3>2 DEF Byte
  <2> HIDE DEF x, y
  <2>2. /\ p + 1 \in Nat /\ p + 1 > p
        /\ p + 2 + x \in Nat /\ p + 2 + x > p
    BY <2>1
  <2>3. /\ f[p + 1] = g[p + 1] /\ f[p + 1] \in Nat
        /\ f[p + 2 + x] = g[p + 2 + x] /\ f[p + 2 + x] \in Nat
    BY <2>2
  <2>4. CASE y = 0
    <3>1. TlvAt(b, f, p) = f[p + 1] /\ TlvAt(b, g, p) = g[p + 1]
      BY <1>2, <2>4 DEF TlvAt, FE, y
    <3> QED
      BY <2>3, <3>1
  <2>5. CASE y = 3
    <3>1. TlvAt(b, f, p) = p /\ TlvAt(b, g, p) = p
      BY <1>2, <2>5 DEF TlvAt, FE, y
    <3> QED
      BY <3>1
  <2>6. CASE y = FE
    <3>1. TlvAt(b, f, p) = 0 /\ TlvAt(b, g, p) = 0
      BY <1>2, <2>6 DEF TlvAt, FE, y
    <3> QED
      BY <3>1
  <2>7. CASE y # 0 /\ y # 3 /\ y # FE
    <3>1. TlvAt(b, f, p) = f[p + 2 + x] /\ TlvAt(b, g, p) = g[p + 2 + x]
      BY <1>2, <2>7 DEF TlvAt, x, y
    <3> QED
      BY <2>3, <3>1
  <2> QED
    BY <2>4, <2>5, <2>6, <2>7
<1> QED
  BY <1>1, <1>2

LEMMA TlvExists ==
    ASSUME NEW b \in Seq(Byte)
    PROVE  \E f \in [Nat -> Nat] : \A p \in Nat : f[p] = TlvAt(b, f, p)
<1> DEFINE L == Len(b)
           From(f, k) == \A p \in Nat : p >= L - k => f[p] = TlvAt(b, f, p)
           Bad == {k \in 0 .. L : ~(\E f \in [Nat -> Nat] : From(f, k))}
<1>1. L \in Nat
  OBVIOUS
<1>2. Bad = {}
  <2> SUFFICES ASSUME Bad # {}
               PROVE  FALSE
    OBVIOUS
  <2>1. PICK k \in Bad : \A j \in Bad : k <= j
    <3>1. Bad \subseteq Nat
      BY <1>1
    <3> HIDE DEF Bad
    <3> QED
      BY <3>1, LeastNumber
  <2>2. k \in 0 .. L /\ ~(\E f \in [Nat -> Nat] : From(f, k))
    BY <2>1
  <2>3. CASE k = 0
    <3> DEFINE z == [p \in Nat |-> 0]
    <3>1. z \in [Nat -> Nat]
      OBVIOUS
    <3>2. From(z, 0)
      BY <1>1 DEF TlvAt
    <3> HIDE DEF z, From
    <3> QED
      BY <2>2, <2>3, <3>1, <3>2
  <2>4. CASE k # 0
    <3>1. k - 1 \in 0 .. L /\ k - 1 \notin Bad
      <4> HIDE DEF L, From
      <4>1. k - 1 \in 0 .. L /\ ~(k <= k - 1)
        BY <1>1, <2>2, <2>4
      <4> HIDE DEF Bad
      <4> QED
        BY <2>1, <4>1
    <3>2. PICK f \in [Nat -> Nat] : From(f, k - 1)
      <4> HIDE DEF From
      <4> QED
        BY <3>1
    <3> DEFINE q == L - k
               h == [f EXCEPT ![q] = TlvAt(b, f, q)]
    <3>3. q \in Nat /\ q + 1 = L - (k - 1)
      <4> HIDE DEF L
      <4> QED
        BY <1>1, <2>2
    <3>4. TlvAt(b, f, q) \in Nat
      <4> HIDE DEF q
      <4> QED
        BY <3>3, TlvLooksAhead
    <3>5. h \in [Nat -> Nat] /\ h[q] = TlvAt(b, f, q) /\ \A p \in Nat : p # q => h[p] = f[p]
      <4> HIDE DEF q
      <4> QED
        BY <3>3, <3>4
    <3>6. \A p \in Nat : p >= q + 1 => f[p] = TlvAt(b, f, p)
      BY <3>2, <3>3
    <3> HIDE DEF h, q
    <3>7. ASSUME NEW p \in Nat, p >= q
          PROVE  h[p] = TlvAt(b, h, p)
      <4>1. \A r \in Nat : r > p => h[r] = f[r]
        BY <3>3, <3>5, <3>7
      <4>2. TlvAt(b, h, p) = TlvAt(b, f, p)
        BY <3>5, <4>1, TlvLooksAhead
      <4>3. CASE p = q
        BY <3>5, <4>2, <4>3
      <4>4. CASE p # q
        BY <3>3, <3>5, <3>6, <3>7, <4>2, <4>4
      <4> QED
        BY <4>3, <4>4
    <3>8. From(h, k)
      BY <3>7 DEF q
    <3> HIDE DEF From
    <3> QED
      BY <2>2, <3>5, <3>8
  <2> QED
    BY <2>3, <2>4
<1>3. PICK f \in [Nat -> Nat] : From(f, L)
  <2>1. L \in 0 .. L
    BY <1>1
  <2> HIDE DEF From, L
  <2> QED
    BY <1>2, <2>1
<1>4. \A p \in Nat : f[p] = TlvAt(b, f, p)
  <2>1. \A p \in Nat : p >= L - L
    BY <1>1
  <2> HIDE DEF L
  <2> QED
    BY <1>3, <2>1
<1> QED
  BY <1>4

LEMMA MessageUnfolds ==
    ASSUME NEW b \in Seq(Byte)
    PROVE  \E f : MessageAt(b) = f[1] /\ \A p \in Nat : f[p] = TlvAt(b, f, p)
<1> DEFINE IsTlv(f) ==
             f = [p \in Nat |->
                    IF p >= Len(b) THEN 0
                    ELSE CASE b[p] = 0 -> f[p + 1]
                           [] b[p] = 3 -> p
                           [] b[p] = FE -> 0
                           [] OTHER -> f[p + 2 + b[p + 1]]]
           g == CHOOSE f : IsTlv(f)
<1>1. PICK f \in [Nat -> Nat] : \A p \in Nat : f[p] = TlvAt(b, f, p)
  BY TlvExists
<1>2. IsTlv(f)
  <2>1. f = [p \in Nat |-> TlvAt(b, f, p)]
    BY <1>1, Zenon
  <2> QED
    BY <2>1, Zenon DEF TlvAt
<1>3. IsTlv(g)
  <2> HIDE DEF IsTlv
  <2> QED
    BY <1>2
<1>4. MessageAt(b) = g[1]
  BY DEF MessageAt
<1> HIDE DEF g
<1>5. \A p \in Nat : g[p] = TlvAt(b, g, p)
  BY <1>3, Zenon DEF TlvAt
<1> QED
  BY <1>4, <1>5

(* At p, the bytes have the message of the URL of len characters.            *)
MessageOf(b, p, len) ==
    /\ b[p] = 3 /\ b[p + 1] = len + 5
    /\ b[p + 2] = 209 /\ b[p + 3] = 1 /\ b[p + 4] = len + 1 /\ b[p + 5] = 85
    /\ b[p + 6] = uriIdentifier
    /\ \A j \in 1 .. len : b[p + 6 + j] = Url(len)[j]
    /\ b[p + 7 + len] = FE

LEMMA SectorMessageFound ==
    ASSUME NEW b \in Seq(Byte), Len(b) > 3, b[1] = 0, b[2] = 0, b[3] = 3
    PROVE  MessageAt(b) = 3
<1>1. PICK f : MessageAt(b) = f[1] /\ \A p \in Nat : f[p] = TlvAt(b, f, p)
  BY MessageUnfolds
<1>2. f[1] = TlvAt(b, f, 1) /\ f[2] = TlvAt(b, f, 2) /\ f[3] = TlvAt(b, f, 3)
  BY <1>1
<1>3. Len(b) \in Nat
  OBVIOUS
<1>4. TlvAt(b, f, 1) = f[2]
  BY <1>3 DEF TlvAt, FE
<1>5. TlvAt(b, f, 2) = f[3]
  BY <1>3 DEF TlvAt, FE
<1>6. TlvAt(b, f, 3) = 3
  BY <1>3 DEF TlvAt, FE
<1> QED
  BY <1>1, <1>2, <1>4, <1>5, <1>6

LEMMA PageMessageFound ==
    ASSUME NEW b \in Seq(Byte), Len(b) > 6, b[1] = 1, b[2] = 3, b[6] = 3
    PROVE  MessageAt(b) = 6
<1>1. PICK f : MessageAt(b) = f[1] /\ \A p \in Nat : f[p] = TlvAt(b, f, p)
  BY MessageUnfolds
<1>2. f[1] = TlvAt(b, f, 1) /\ f[6] = TlvAt(b, f, 6)
  BY <1>1
<1>3. Len(b) \in Nat
  OBVIOUS
<1>4. TlvAt(b, f, 1) = f[6]
  BY <1>3 DEF TlvAt, FE
<1>5. TlvAt(b, f, 6) = 6
  BY <1>3 DEF TlvAt, FE
<1> QED
  BY <1>1, <1>2, <1>4, <1>5

LEMMA SubBytesAt ==
    ASSUME NEW n \in Nat, NEW s \in Bytes(n), NEW first \in 1 .. n, NEW last \in first .. n,
           NEW i \in 1 .. last - first + 1
    PROVE  SubSeq(s, first, last)[i] = s[first + i - 1]
<1>1. \A j \in first .. last : s[j] \in Byte
  BY BytesAreFunctions
<1> QED
  BY <1>1, SubSeqProperties

LEMMA MessageReads ==
    ASSUME NEW n \in Nat, NEW b \in Bytes(n), NEW p \in 1 .. 6, NEW len \in 1 .. 242,
           p + 7 + len <= n, MessageAt(b) = p, MessageOf(b, p, len)
    PROVE  UriIn(b) = <<uriIdentifier>> \o Url(len)
<1> DEFINE m == len + 5
           record == SubSeq(b, p + 2, p + 6 + len)
<1>1. /\ p + 2 \in 1 .. n /\ p + 6 + len \in p + 2 .. n /\ (p + 6 + len) - (p + 2) + 1 = m
      /\ m \in Nat /\ m > 5
  OBVIOUS
<1>2. record \in Bytes(m)
  <2>1. record \in Bytes((p + 6 + len) - (p + 2) + 1)
    BY <1>1, SubBytes
  <2> QED
    BY <1>1, <2>1
<1>3. ASSUME NEW i \in 1 .. m
      PROVE  record[i] = b[p + 1 + i]
  <2>1. i \in 1 .. (p + 6 + len) - (p + 2) + 1 /\ (p + 2) + i - 1 = p + 1 + i
    OBVIOUS
  <2>2. record[i] = b[(p + 2) + i - 1]
    BY <1>1, <2>1, SubBytesAt
  <2> QED
    BY <2>1, <2>2
<1> HIDE DEF record
<1>4. Len(record) = m
  BY <1>2 DEF Bytes
<1>5. /\ record[1] = 209 /\ record[2] = 1 /\ record[3] = len + 1 /\ record[4] = 85
      /\ record[5] = uriIdentifier
      /\ \A j \in 1 .. len : record[5 + j] = Url(len)[j]
  <2>1. 1 \in 1 .. m /\ 2 \in 1 .. m /\ 3 \in 1 .. m /\ 4 \in 1 .. m /\ 5 \in 1 .. m
    OBVIOUS
  <2>2. /\ record[1] = b[p + 1 + 1] /\ record[2] = b[p + 1 + 2] /\ record[3] = b[p + 1 + 3]
        /\ record[4] = b[p + 1 + 4] /\ record[5] = b[p + 1 + 5]
    BY <1>3, <2>1
  <2>3. ASSUME NEW j \in 1 .. len
        PROVE  record[5 + j] = Url(len)[j]
    <3>1. 5 + j \in 1 .. m /\ p + 1 + (5 + j) = p + 6 + j
      OBVIOUS
    <3>2. record[5 + j] = b[p + 1 + (5 + j)]
      BY <1>3, <3>1
    <3> QED
      BY <3>1, <3>2 DEF MessageOf
  <2> QED
    BY <2>2, <2>3 DEF MessageOf
<1>6. SubSeq(record, 1, 4) = <<209, 1, len + 1, 85>>
  <2> DEFINE s == SubSeq(record, 1, 4)
             t == <<209, 1, len + 1, 85>>
  <2>1. 1 \in 1 .. m /\ 4 \in 1 .. m /\ 4 - 1 + 1 = 4 /\ 4 \in Nat
    OBVIOUS
  <2>2. s \in Bytes(4)
    <3>1. s \in Bytes(4 - 1 + 1)
      BY <1>1, <1>2, <2>1, SubBytes
    <3> QED
      BY <2>1, <3>1
  <2>3. \A i \in 1 .. 4 : s[i] = record[1 + i - 1]
    BY <1>1, <1>2, <2>1, SubBytesAt
  <2>4. t \in Bytes(4) /\ t[1] = 209 /\ t[2] = 1 /\ t[3] = len + 1 /\ t[4] = 85
    <3>1. len + 1 \in Byte /\ 209 \in Byte /\ 1 \in Byte /\ 85 \in Byte
      BY DEF Byte
    <3> QED
      BY <3>1 DEF Bytes
  <2> HIDE DEF s, t
  <2>5. s[1] = t[1] /\ s[2] = t[2] /\ s[3] = t[3] /\ s[4] = t[4]
    <3>1. /\ 1 \in 1 .. 4 /\ 2 \in 1 .. 4 /\ 3 \in 1 .. 4 /\ 4 \in 1 .. 4
          /\ 1 + 1 - 1 = 1 /\ 1 + 2 - 1 = 2 /\ 1 + 3 - 1 = 3 /\ 1 + 4 - 1 = 4
      OBVIOUS
    <3>2. s[1] = record[1] /\ s[2] = record[2] /\ s[3] = record[3] /\ s[4] = record[4]
      BY <2>3, <3>1
    <3> QED
      BY <1>5, <2>4, <3>2
  <2>6. \A i \in 1 .. 4 : s[i] = t[i]
    <3> SUFFICES ASSUME NEW i \in 1 .. 4
                 PROVE  s[i] = t[i]
      OBVIOUS
    <3>1. i = 1 \/ i = 2 \/ i = 3 \/ i = 4
      OBVIOUS
    <3> QED
      BY <2>5, <3>1
  <2>7. s = t
    BY <2>1, <2>2, <2>4, <2>6, SameBytes
  <2> QED
    BY <2>7 DEF s, t
<1>7. SubSeq(record, 5, m) = <<uriIdentifier>> \o Url(len)
  <2> DEFINE s == SubSeq(record, 5, m)
             c == <<uriIdentifier>>
             u == Url(len)
             t == c \o u
  <2>1. 5 \in 1 .. m /\ m \in 5 .. m /\ m - 5 + 1 = 1 + len /\ 1 + len \in Nat /\ len \in Nat
    OBVIOUS
  <2>2. s \in Bytes(1 + len)
    <3>1. s \in Bytes(m - 5 + 1)
      BY <1>1, <1>2, <2>1, SubBytes
    <3> QED
      BY <2>1, <3>1
  <2>3. \A i \in 1 .. 1 + len : s[i] = record[5 + i - 1]
    BY <1>1, <1>2, <2>1, SubBytesAt
  <2>4. c \in Bytes(1) /\ c[1] = uriIdentifier /\ u \in Bytes(len)
    BY <2>1, UrlBytes DEF Bytes, Byte, uriIdentifier
  <2> HIDE DEF s, c, u
  <2>5. t \in Bytes(1 + len)
    BY <2>1, <2>4, ConcatBytes
  <2>6. t[1] = c[1]
    <3>1. 1 \in 1 .. 1 /\ 1 \in Nat
      OBVIOUS
    <3> QED
      BY <2>1, <2>4, <3>1, ConcatLeft
  <2>7. \A j \in 1 .. len : t[1 + j] = u[j]
    <3>1. 1 \in Nat
      OBVIOUS
    <3> QED
      BY <2>1, <2>4, <3>1, ConcatRight, Zenon
  <2> HIDE DEF t
  <2>8. ASSUME NEW i \in 1 .. 1 + len
        PROVE  s[i] = t[i]
    <3>1. s[i] = record[5 + i - 1]
      BY <2>3
    <3>2. CASE i = 1
      BY <1>5, <2>4, <2>6, <3>1, <3>2
    <3>3. CASE i # 1
      <4>1. i - 1 \in 1 .. len /\ 1 + (i - 1) = i /\ 5 + (i - 1) = 5 + i - 1
        BY <3>3
      <4>2. record[5 + (i - 1)] = u[i - 1] /\ t[1 + (i - 1)] = u[i - 1]
        BY <1>5, <2>7, <4>1 DEF u
      <4> QED
        BY <3>1, <4>1, <4>2
    <3> QED
      BY <3>2, <3>3
  <2>9. s = t
    BY <2>1, <2>2, <2>5, <2>8, SameBytes
  <2> QED
    BY <2>9 DEF s, t, c, u
<1>8. UriIn(b) = SubSeq(record, 5, Len(record))
  <2> DEFINE end == p + 7 + len
  <2>1. /\ p + 2 + b[p + 1] = end /\ end - 1 = p + 6 + len /\ b[end] = FE /\ end <= Len(b)
        /\ p # 0
    <3>1. b[p + 1] = len + 5 /\ b[end] = FE /\ Len(b) = n
      BY DEF MessageOf, Bytes
    <3> QED
      BY <3>1
  <2>2. Len(record) > 5 /\ SubSeq(record, 1, 4) = <<209, 1, Len(record) - 4, 85>>
    <3>1. Len(record) - 4 = len + 1
      BY <1>4
    <3> QED
      BY <1>1, <1>4, <1>6, <3>1
  <2>3. record = SubSeq(b, p + 2, (p + 2 + b[p + 1]) - 1)
    BY <2>1 DEF record
  <2> HIDE DEF end
  <2> QED
    BY <2>1, <2>2, <2>3 DEF UriIn
<1> QED
  BY <1>4, <1>7, <1>8

(* What a tag holds after a call is, byte by byte, what the call has written.*)
Holds == ~refused /\ Accepted(op) /\ \A n \in 1 .. Writes(op) :
                                         mem[Write(op, n).at] = Write(op, n).data

InParts(whole, l, s, m, t, n, u) ==
    /\ whole \in Bytes((l + m) + n)
    /\ \A i \in 1 .. l : whole[i] = s[i]
    /\ \A i \in 1 .. m : whole[l + i] = t[i]
    /\ \A i \in 1 .. n : whole[(l + m) + i] = u[i]

LEMMA ThreeParts ==
    ASSUME NEW l \in Nat, NEW m \in Nat, NEW n \in Nat,
           NEW s \in Bytes(l), NEW t \in Bytes(m), NEW u \in Bytes(n)
    PROVE  InParts((s \o t) \o u, l, s, m, t, n, u)
<1> DEFINE st == s \o t
           whole == st \o u
           lm == l + m
<1>1. lm \in Nat
  OBVIOUS
<1>2. st \in Bytes(lm)
  BY ConcatBytes
<1>3. (\A i \in 1 .. l : st[i] = s[i]) /\ (\A i \in 1 .. m : st[l + i] = t[i])
  BY ConcatElements
<1> HIDE DEF st
<1>4. (\A i \in 1 .. lm : whole[i] = st[i]) /\ (\A i \in 1 .. n : whole[lm + i] = u[i])
  <2> HIDE DEF lm
  <2> QED
    BY <1>1, <1>2, ConcatElements
<1>5. whole \in Bytes(lm + n)
  <2> HIDE DEF lm
  <2> QED
    BY <1>1, <1>2, ConcatBytes
<1> HIDE DEF whole
<1>6. \A i \in 1 .. l : whole[i] = s[i]
  <2> SUFFICES ASSUME NEW i \in 1 .. l
               PROVE  whole[i] = s[i]
    OBVIOUS
  <2>1. i \in 1 .. lm
    OBVIOUS
  <2> QED
    BY <1>3, <1>4, <2>1
<1>7. \A i \in 1 .. m : whole[l + i] = t[i]
  <2> SUFFICES ASSUME NEW i \in 1 .. m
               PROVE  whole[l + i] = t[i]
    OBVIOUS
  <2>1. l + i \in 1 .. lm
    OBVIOUS
  <2> QED
    BY <1>3, <1>4, <2>1
<1> QED
  BY <1>4, <1>5, <1>6, <1>7 DEF InParts, whole, st

LEMMA SectorMessage ==
    ASSUME NEW o, o.len \in 1 .. 23
    PROVE  /\ SectorBytes(o) \in Bytes(48)
           /\ SectorBytes(o)[1] = 0 /\ SectorBytes(o)[2] = 0
           /\ MessageOf(SectorBytes(o), 3, o.len)
<1> DEFINE len == o.len
           h == Header(o)
           u == Url(len)
           e == <<FE>>
           whole == (h \o u) \o e
           z == Zeros(48 - (9 + len + 1))
<1>1. len \in Nat /\ len \in 1 .. 23 /\ 9 \in Nat /\ 1 \in Nat
  OBVIOUS
<1>2. h \in Bytes(9) /\ e \in Bytes(1) /\ u \in Bytes(len) /\ e[1] = FE
  <2>1. h \in Bytes(9) /\ e \in Bytes(1) /\ e[1] = FE
    BY DEF Header, FE, uriIdentifier, Bytes, Byte
  <2>2. u \in Bytes(len)
    BY <1>1, UrlBytes
  <2> QED
    BY <2>1, <2>2
<1>3. /\ h[1] = 0 /\ h[2] = 0 /\ h[3] = 3 /\ h[4] = len + 5 /\ h[5] = 209
      /\ h[6] = 1 /\ h[7] = len + 1 /\ h[8] = 85 /\ h[9] = uriIdentifier
  BY DEF Header
<1> HIDE DEF len, h, u, e
<1>4. /\ whole \in Bytes((9 + len) + 1)
      /\ \A i \in 1 .. 9 : whole[i] = h[i]
      /\ \A i \in 1 .. len : whole[9 + i] = u[i]
      /\ \A i \in 1 .. 1 : whole[(9 + len) + i] = e[i]
  <2>1. InParts(whole, 9, h, len, u, 1, e)
    BY <1>1, <1>2, ThreeParts
  <2> HIDE DEF whole
  <2> QED
    BY <2>1 DEF InParts
<1>5. SectorBytes(o) = whole \o z
  <2>1. Len(whole) = (9 + len) + 1
    BY <1>4 DEF Bytes
  <2>2. SectorBytes(o) = Padded(whole)
    BY <1>1 DEF SectorBytes, len, h, u, e
  <2> HIDE DEF whole
  <2> QED
    BY <2>1, <2>2 DEF Padded
<1> HIDE DEF whole
<1>6. z \in Bytes(48 - (9 + len + 1))
  BY <1>1, ZeroBytes
<1> HIDE DEF z
<1> DEFINE k == (9 + len) + 1
           r == 48 - (9 + len + 1)
           b == whole \o z
<1>7. k \in Nat /\ r \in Nat /\ k + r = 48
  BY <1>1
<1>8. b \in Bytes(48) /\ \A i \in 1 .. k : b[i] = whole[i]
  <2>1. whole \in Bytes(k) /\ z \in Bytes(r)
    BY <1>4, <1>6
  <2> HIDE DEF k, r
  <2>2. b \in Bytes(k + r)
    BY <1>7, <2>1, ConcatBytes
  <2>3. \A i \in 1 .. k : b[i] = whole[i]
    <3>1. k \in Nat /\ r \in Nat
      BY <1>7
    <3> QED
      BY <2>1, <3>1, ConcatLeft, Zenon
  <2> QED
    BY <1>7, <2>2, <2>3
<1> HIDE DEF b
<1>9. \A i \in 1 .. 9 : b[i] = h[i]
  BY <1>1, <1>4, <1>8
<1>10. \A i \in 1 .. len : b[9 + i] = u[i]
  BY <1>1, <1>4, <1>8
<1>11. b[10 + len] = FE
  <2>1. 10 + len \in 1 .. k /\ 10 + len = (9 + len) + 1 /\ 1 \in 1 .. 1
    BY <1>1
  <2> HIDE DEF k
  <2> QED
    BY <1>2, <1>4, <1>8, <2>1
<1>12. /\ b[1] = 0 /\ b[2] = 0 /\ b[3] = 3 /\ b[4] = len + 5 /\ b[5] = 209
       /\ b[6] = 1 /\ b[7] = len + 1 /\ b[8] = 85 /\ b[9] = uriIdentifier
  BY <1>3, <1>9
<1>13. MessageOf(b, 3, len)
  <2>1. \A j \in 1 .. len : b[3 + 6 + j] = Url(len)[j]
    BY <1>10 DEF u
  <2>2. b[3 + 7 + len] = FE
    BY <1>1, <1>11
  <2> QED
    BY <1>12, <2>1, <2>2 DEF MessageOf
<1> QED
  BY <1>5, <1>8, <1>12, <1>13 DEF b, len

LEMMA SectorStands ==
    ASSUME kind = "classic", Holds, op.type = "sector_uri", op.len <= 23
    PROVE  Area(op) = SectorBytes(op)
<1> DEFINE s == SectorBytes(op)
           sec == op.sector
<1>1. op.len \in 1 .. 23 /\ sec \in 1 .. 15 /\ op.stray = 0
  <2>1. op.len \in 1 .. 38 /\ sec \in 1 .. 15 /\ op.stray \in Strays(op.len)
    BY ClassicCalls DEF Holds, Accepted, Accepts
  <2> QED
    BY <2>1 DEF Strays
<1>2. s \in Bytes(48)
  BY <1>1, SectorMessage
<1>3. ASSUME NEW n \in 1 .. 3
      PROVE  mem[sec * 4 + n - 1] = SubSeq(s, 16 * n - 15, 16 * n)
  <2>1. n \in 1 .. Writes(op)
    BY DEF Writes
  <2>2. Write(op, n) = SectorWrite(op, n)
    BY DEF Write
  <2>3. Write(op, n).at = sec * 4 + n - 1 /\ Write(op, n).data = SectorData(op, n)
    BY <2>2 DEF SectorWrite
  <2>4. SectorData(op, n) = SubSeq(s, 16 * n - 15, 16 * n)
    <3>1. n # 4 /\ n # 0
      OBVIOUS
    <3> QED
      BY <1>1, <3>1 DEF SectorData
  <2> QED
    BY <2>1, <2>3, <2>4 DEF Holds
<1> HIDE DEF s, sec
<1> DEFINE A == [i \in 1 .. 3 * 16 |-> mem[sec * 4 + (i - 1) \div 16][((i - 1) % 16) + 1]]
<1>4. Area(op) = A
  BY DEF Area, sec
<1>5. ASSUME NEW i \in 1 .. 48
      PROVE  A[i] = s[i]
  <2> DEFINE n == (i - 1) \div 16 + 1
             j == ((i - 1) % 16) + 1
  <2>1. /\ n \in 1 .. 3 /\ j \in 1 .. 16
        /\ sec * 4 + (i - 1) \div 16 = sec * 4 + n - 1
        /\ (16 * n - 15) + j - 1 = i
        /\ 16 * n - 15 \in 1 .. 48 /\ 16 * n \in 16 * n - 15 .. 48
        /\ 16 * n - (16 * n - 15) + 1 = 16
    BY <1>1
  <2>2. A[i] = mem[sec * 4 + (i - 1) \div 16][j]
    <3>1. i \in 1 .. 3 * 16
      OBVIOUS
    <3> QED
      BY <3>1
  <2> HIDE DEF n, j, A
  <2>3. A[i] = SubSeq(s, 16 * n - 15, 16 * n)[j]
    BY <1>3, <2>1, <2>2
  <2>4. SubSeq(s, 16 * n - 15, 16 * n)[j] = s[(16 * n - 15) + j - 1]
    <3> DEFINE a == 16 * n - 15
               z == 16 * n
    <3>1. a \in 1 .. 48 /\ z \in a .. 48 /\ j \in 1 .. z - a + 1
      BY <2>1
    <3> HIDE DEF a, z
    <3>2. 48 \in Nat
      OBVIOUS
    <3>3. SubSeq(s, a, z)[j] = s[a + j - 1]
      BY <1>2, <3>1, <3>2, SubBytesAt
    <3> QED
      BY <3>3 DEF a, z
  <2> QED
    BY <2>1, <2>3, <2>4
<1>6. A \in Bytes(48)
  <2>1. \A i \in 1 .. 48 : s[i] \in Byte
    BY <1>2, BytesAreFunctions
  <2>2. 3 * 16 = 48 /\ 48 \in Nat
    OBVIOUS
  <2>3. A \in [1 .. 48 -> Byte]
    BY <1>5, <2>1, <2>2
  <2> HIDE DEF A
  <2> QED
    BY <2>2, <2>3, FunctionsAreBytes
<1> HIDE DEF A
<1> QED
  BY <1>2, <1>4, <1>5, <1>6, SameBytes DEF s

PageBytes(o) == (PageHeader(o) \o Url(o.len)) \o <<FE, 0, 0, 0>>

LEMMA PageMessage ==
    ASSUME NEW o, o.len \in 1 .. 242
    PROVE  /\ PageBytes(o) \in Bytes((12 + o.len) + 4)
           /\ PageBytes(o)[1] = 1 /\ PageBytes(o)[2] = 3
           /\ MessageOf(PageBytes(o), 6, o.len)
<1> DEFINE len == o.len
           h == PageHeader(o)
           u == Url(len)
           e == <<FE, 0, 0, 0>>
           b == (h \o u) \o e
<1>1. len \in Nat /\ len \in 1 .. 242 /\ 12 \in Nat /\ 4 \in Nat
  OBVIOUS
<1>2. h \in Bytes(12) /\ e \in Bytes(4) /\ u \in Bytes(len) /\ e[1] = FE
  <2>1. h \in Bytes(12) /\ e \in Bytes(4) /\ e[1] = FE
    BY DEF PageHeader, FE, uriIdentifier, Bytes, Byte
  <2>2. u \in Bytes(len)
    BY <1>1, UrlBytes
  <2> QED
    BY <2>1, <2>2
<1>3. /\ h[1] = 1 /\ h[2] = 3 /\ h[6] = 3 /\ h[7] = len + 5 /\ h[8] = 209
      /\ h[9] = 1 /\ h[10] = len + 1 /\ h[11] = 85 /\ h[12] = uriIdentifier
  BY DEF PageHeader
<1> HIDE DEF len, h, u, e
<1>4. /\ b \in Bytes((12 + len) + 4)
      /\ \A i \in 1 .. 12 : b[i] = h[i]
      /\ \A i \in 1 .. len : b[12 + i] = u[i]
      /\ \A i \in 1 .. 4 : b[(12 + len) + i] = e[i]
  <2>1. InParts(b, 12, h, len, u, 4, e)
    BY <1>1, <1>2, ThreeParts
  <2> HIDE DEF b
  <2> QED
    BY <2>1 DEF InParts
<1>5. PageBytes(o) = b
  BY DEF PageBytes, len, h, u, e
<1> HIDE DEF b
<1>6. /\ b[1] = 1 /\ b[2] = 3 /\ b[6] = 3 /\ b[7] = len + 5 /\ b[8] = 209
      /\ b[9] = 1 /\ b[10] = len + 1 /\ b[11] = 85 /\ b[12] = uriIdentifier
  BY <1>3, <1>4
<1>7. b[6 + 7 + len] = FE
  <2>1. 1 \in 1 .. 4 /\ 6 + 7 + len = (12 + len) + 1
    BY <1>1
  <2> QED
    BY <1>2, <1>4, <2>1
<1>8. MessageOf(b, 6, len)
  <2>1. \A j \in 1 .. len : b[6 + 6 + j] = Url(len)[j]
    BY <1>4 DEF u
  <2> QED
    BY <1>6, <1>7, <2>1 DEF MessageOf
<1> QED
  BY <1>4, <1>5, <1>6, <1>8 DEF len

(* The data area of the NTAG as bytes, from MemOK.                           *)
LEMMA PagesAreBytes ==
    ASSUME kind = "ntag", MemOK, op \in Calls
    PROVE  /\ op.dataLen \in 0 .. 255
           /\ Area(op) \in Bytes(4 * ((op.dataLen + 3) \div 4))
           /\ \A i \in 1 .. 4 * ((op.dataLen + 3) \div 4) :
                  Area(op)[i] = mem[4 + (i - 1) \div 4][((i - 1) % 4) + 1]
<1> DEFINE count == (op.dataLen + 3) \div 4
           size == 4 * count
           A == [i \in 1 .. size |-> mem[4 + (i - 1) \div 4][((i - 1) % 4) + 1]]
<1>1. op.type = "ntag_uri" /\ op.dataLen \in DataLens /\ op.dataLen \in 0 .. 255
  BY NtagCalls
<1>2. count \in Nat /\ size \in Nat /\ count * 4 = size
  BY <1>1
<1>3. 3 + count <= LastPage /\ LastPage \in 4 .. 225
  BY <1>1, NdefAssumption
<1>4. Area(op) = A
  <2>1. op.type # "sector_uri"
    BY <1>1
  <2>2. Area(op) = [i \in 1 .. count * 4 |-> mem[4 + (i - 1) \div 4][((i - 1) % 4) + 1]]
    BY <2>1 DEF Area
  <2> HIDE DEF count
  <2> QED
    BY <1>2, <2>2
<1>5. ASSUME NEW i \in 1 .. size
      PROVE  mem[4 + (i - 1) \div 4][((i - 1) % 4) + 1] \in Byte
  <2> DEFINE a == 4 + (i - 1) \div 4
             j == ((i - 1) % 4) + 1
  <2> HIDE DEF count
  <2>1. a \in 4 .. LastPage /\ j \in 1 .. 4
    BY <1>2, <1>3
  <2> HIDE DEF a, j
  <2>2. mem[a] \in Bytes(4)
    BY <2>1 DEF MemOK, Addresses
  <2>3. mem[a] \in [1 .. 4 -> Byte]
    BY <2>2, BytesAreFunctions
  <2>4. mem[a][j] \in Byte
    BY <2>1, <2>3
  <2> QED
    BY <2>4 DEF a, j
<1>6. A \in [1 .. size -> Byte]
  <2> HIDE DEF size
  <2> QED
    BY <1>5
<1>7. A \in Bytes(size)
  <2> HIDE DEF A, size
  <2> QED
    BY <1>2, <1>6, FunctionsAreBytes
<1>8. \A i \in 1 .. size : A[i] = mem[4 + (i - 1) \div 4][((i - 1) % 4) + 1]
  <2> HIDE DEF size
  <2> QED
    OBVIOUS
<1> HIDE DEF A
<1> QED
  BY <1>1, <1>4, <1>7, <1>8

LEMMA MessageFits ==
    ASSUME NEW len \in 1 .. 242, NEW dataLen \in 0 .. 255, len + 13 <= dataLen
    PROVE  /\ 4 * ((dataLen + 3) \div 4) \in Nat
           /\ 13 + len <= 4 * ((dataLen + 3) \div 4)
OBVIOUS

LEMMA PagesStand ==
    ASSUME kind = "ntag", Holds, MemOK, op.len \in 1 .. 242, op.len + 13 <= op.dataLen
    PROVE  \A i \in 1 .. 13 + op.len : Area(op)[i] = PageBytes(op)[i]
<1> DEFINE s == PageBytes(op)
           len == op.len
           max == (12 + len) + 4
           top == 4 * ((op.dataLen + 3) \div 4)
<1>1. op \in Calls /\ op.type = "ntag_uri"
  BY NtagCalls DEF Holds, Accepted
<1>2. s \in Bytes(max)
  BY PageMessage
<1>3. max \in Nat /\ len \in 1 .. 242
  OBVIOUS
<1>4. ASSUME NEW n \in 1 .. 3 + UrlPages(len)
      PROVE  mem[3 + n] = SubSeq(s, 4 * n - 3, 4 * n)
  <2>1. n \in 1 .. Writes(op)
    BY <1>1 DEF Writes
  <2>2. Write(op, n) = PageWrite(op, n)
    BY <1>1 DEF Write
  <2>3. PageWrite(op, n).at = 3 + n /\ PageWrite(op, n).data = SubSeq(s, 4 * n - 3, 4 * n)
    BY DEF PageWrite, PageBytes
  <2> HIDE DEF s, len
  <2> QED
    BY <2>1, <2>2, <2>3 DEF Holds
<1>5. /\ op.dataLen \in 0 .. 255
      /\ \A i \in 1 .. top : Area(op)[i] = mem[4 + (i - 1) \div 4][((i - 1) % 4) + 1]
  BY <1>1, PagesAreBytes
<1>6. top \in Nat /\ 13 + len <= top
  BY <1>3, <1>5, MessageFits
<1> HIDE DEF s, top
<1>7. ASSUME NEW i \in 1 .. 13 + len
      PROVE  Area(op)[i] = s[i]
  <2> DEFINE n == (i - 1) \div 4 + 1
             j == ((i - 1) % 4) + 1
  <2>1. i \in 1 .. top
    BY <1>3, <1>6
  <2>2. Area(op)[i] = mem[4 + (i - 1) \div 4][j]
    BY <1>5, <2>1
  <2> HIDE DEF len
  <2>3. /\ n \in 1 .. 3 + (len \div 4 + 1) /\ j \in 1 .. 4
        /\ 4 + (i - 1) \div 4 = 3 + n
        /\ (4 * n - 3) + j - 1 = i
        /\ 4 * n - 3 \in 1 .. max /\ 4 * n \in 4 * n - 3 .. max
        /\ 4 * n - (4 * n - 3) + 1 = 4
    BY <1>3
  <2> HIDE DEF n, j, max
  <2>4. Area(op)[i] = SubSeq(s, 4 * n - 3, 4 * n)[j]
    BY <1>4, <2>2, <2>3 DEF UrlPages
  <2>5. SubSeq(s, 4 * n - 3, 4 * n)[j] = s[(4 * n - 3) + j - 1]
    <3> DEFINE a == 4 * n - 3
               z == 4 * n
    <3>1. a \in 1 .. max /\ z \in a .. max /\ j \in 1 .. z - a + 1
      BY <2>3
    <3> HIDE DEF a, z
    <3>2. SubSeq(s, a, z)[j] = s[a + j - 1]
      BY <1>2, <1>3, <3>1, SubBytesAt
    <3> QED
      BY <3>2 DEF a, z
  <2> QED
    BY <2>3, <2>4, <2>5
<1> QED
  BY <1>7 DEF s, len

(* One invariant for the calls, the memory and what they have left in it.    *)
LEMMA StandInvariant == NdefSpec => [](CallOK /\ MemOK /\ WritesStand)
<1>1. NdefInit => CallOK /\ MemOK /\ WritesStand
  BY NdefInitOK, StandInit
<1>2. (CallOK /\ MemOK /\ WritesStand) /\ [NdefNext]_ndef_vars
        => (CallOK /\ MemOK /\ WritesStand)'
  BY CallStep, MemStep, StandStep
<1> QED
  BY <1>1, <1>2, PTL DEF NdefSpec

(* A URL that was written without a refusal reads back, whatever was on the  *)
(* tag: up to 23 characters on a sector, and on an NTAG as many as the check *)
(* of dataLen allows, 242 at most (PN532.c:804, 1149).                       *)
THEOREM UriIsReadBack == NdefSpec => []UriReadBack
<1>1. CallOK /\ MemOK /\ WritesStand => UriReadBack
  <2> SUFFICES ASSUME CallOK, MemOK, WritesStand, Written, Exact(op)
               PROVE  HoldsUri(op)
    BY DEF UriReadBack
  <2> DEFINE len == op.len
  <2>1. /\ Accepted(op) /\ op.type # "format" /\ op.strlen = len
        /\ op.type = "sector_uri" => len <= 23
    BY DEF Written, Exact, WritesStand
  <2>2. Holds
    BY <2>1 DEF Holds, Written, WritesStand
  <2>3. CASE kind = "classic"
    <3>1. op.type = "sector_uri" /\ len \in 1 .. 23
      <4>1. op.type = "sector_uri"
        BY <2>1, <2>3, ClassicCalls DEF Accepted
      <4> QED
        BY <2>1, <4>1 DEF Accepted, Accepts
    <3> DEFINE b == SectorBytes(op)
    <3>2. /\ b \in Bytes(48) /\ b[1] = 0 /\ b[2] = 0
          /\ MessageOf(b, 3, len)
      BY <3>1, SectorMessage
    <3>3. Area(op) = b
      BY <2>2, <2>3, <3>1, SectorStands
    <3> HIDE DEF b
    <3>4. b \in Seq(Byte) /\ Len(b) > 3 /\ b[3] = 3
      <4>1. b \in Seq(Byte) /\ Len(b) = 48
        BY <3>2 DEF Bytes
      <4>2. b[3] = 3
        BY <3>2 DEF MessageOf
      <4> QED
        BY <4>1, <4>2
    <3>5. MessageAt(b) = 3
      BY <3>2, <3>4, SectorMessageFound
    <3> DEFINE n == 48
               p == 3
    <3>6. n \in Nat /\ p \in 1 .. 6 /\ len \in 1 .. 242 /\ p + 7 + len <= n
      BY <3>1
    <3>7. b \in Bytes(n) /\ MessageAt(b) = p /\ MessageOf(b, p, len)
      BY <3>2, <3>5
    <3> HIDE DEF len, n, p
    <3>8. UriIn(b) = <<uriIdentifier>> \o Url(len)
      BY <3>6, <3>7, MessageReads
    <3> QED
      BY <2>1, <3>3, <3>8 DEF HoldsUri
  <2>4. CASE kind = "ntag"
    <3> DEFINE size == 4 * ((op.dataLen + 3) \div 4)
               b == Area(op)
               s == PageBytes(op)
    <3>1. /\ op.type = "ntag_uri" /\ op.dataLen \in 0 .. 255 /\ len \in 0 .. 255
          /\ Fits(op.len, op.dataLen) /\ op \in Calls
      BY <2>1, <2>4, NtagCalls DEF Accepted, Accepts
    <3>2. len \in 1 .. 242 /\ len + 13 <= op.dataLen
      BY <3>1 DEF Fits
    <3>3. size \in Nat /\ 13 + len <= size
      BY <3>1, <3>2, MessageFits
    <3>4. b \in Bytes(size)
      BY <2>4, <3>1, PagesAreBytes
    <3>5. \A i \in 1 .. 13 + len : b[i] = s[i]
      BY <2>2, <2>4, <3>2, PagesStand
    <3>6. s[1] = 1 /\ s[2] = 3 /\ MessageOf(s, 6, len)
      BY <3>2, PageMessage
    <3> HIDE DEF b, s, size, len
    <3>7. b[1] = 1 /\ b[2] = 3 /\ MessageOf(b, 6, len)
      <4>1. /\ 1 \in 1 .. 13 + len /\ 2 \in 1 .. 13 + len /\ 6 \in 1 .. 13 + len
            /\ 6 + 1 \in 1 .. 13 + len /\ 6 + 2 \in 1 .. 13 + len /\ 6 + 3 \in 1 .. 13 + len
            /\ 6 + 4 \in 1 .. 13 + len /\ 6 + 5 \in 1 .. 13 + len /\ 6 + 6 \in 1 .. 13 + len
            /\ 6 + 7 + len \in 1 .. 13 + len
            /\ \A j \in 1 .. len : 6 + 6 + j \in 1 .. 13 + len
        BY <3>2
      <4>2. /\ b[1] = s[1] /\ b[2] = s[2] /\ b[6] = s[6] /\ b[6 + 1] = s[6 + 1]
            /\ b[6 + 2] = s[6 + 2] /\ b[6 + 3] = s[6 + 3] /\ b[6 + 4] = s[6 + 4]
            /\ b[6 + 5] = s[6 + 5] /\ b[6 + 6] = s[6 + 6] /\ b[6 + 7 + len] = s[6 + 7 + len]
            /\ \A j \in 1 .. len : b[6 + 6 + j] = s[6 + 6 + j]
        BY <3>5, <4>1
      <4> QED
        BY <3>6, <4>2 DEF MessageOf
    <3>8. b \in Seq(Byte) /\ Len(b) > 6 /\ b[6] = 3
      BY <3>2, <3>3, <3>4, <3>7 DEF Bytes, MessageOf
    <3>9. MessageAt(b) = 6
      BY <3>7, <3>8, PageMessageFound
    <3>10. 6 \in 1 .. 6 /\ 6 + 7 + len <= size
      BY <3>2, <3>3
    <3>11. UriIn(b) = <<uriIdentifier>> \o Url(len)
      BY <3>2, <3>3, <3>4, <3>7, <3>9, <3>10, MessageReads
    <3> QED
      BY <2>1, <3>11 DEF HoldsUri, b
  <2> QED
    BY <2>3, <2>4 DEF CallOK
<1> QED
  BY <1>1, StandInvariant, PTL

=============================================================================
