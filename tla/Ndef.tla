-------------------------------- MODULE Ndef --------------------------------
(* The tag functions of the driver (components/PN532/src/PN532.c) that write *)
(* an NFC Forum NDEF message: FormatNDEF and WriteNDEFURI for MIFARE Classic *)
(* sectors, WriteNDEFURI for NTAG2xx pages.  The reader program calls none   *)
(* of them; they are the driver's interface to an application.  A call is a  *)
(* number of block or page writes, and any of them may be its last: the card *)
(* may be gone, or refuse the write, of which the driver does not take note. *)
EXTENDS Naturals, Sequences

CONSTANTS
    Lengths,   \* strlen(url) of the URLs an application writes
    DataLens,  \* dataLen, the sizes of data area it passes: areas the tag has
    Sectors,   \* the sectors it names
    LastPage,  \* the last page of the NTAG for user data, at most 225
    None

ASSUME NdefAssumption ==
    /\ Lengths \subseteq Nat
    /\ DataLens \subseteq 0 .. 255
    /\ Sectors \subseteq 0 .. 255
    /\ LastPage \in 4 .. 225
    /\ \A dataLen \in DataLens : 3 + (dataLen + 3) \div 4 <= LastPage
    /\ None \notin 0 .. 1

VARIABLES
    kind,    \* the tag on the reader: "classic" or "ntag"
    mem,     \* mem[a]: block or page a of it, a sequence of bytes
    op,      \* the call that is running or was the last, or None
    step,    \* the writes it has made
    result,  \* what it has returned, None while it runs
    refused  \* auxiliary: the tag has not executed a write of this call

ndef_vars == <<kind, mem, op, step, result, refused>>

Byte == 0 .. 255

Zeros(n) == [i \in 1 .. n |-> 0]

(* Every URL begins like the longest: its characters repeat after 64.  The   *)
(* terminator, and one prefix ("http://www.").                               *)
Url(n) == [i \in 1 .. n |-> 31 + (i % 64)]

FE == 254

uriIdentifier == 1

-----------------------------------------------------------------------------
(* MIFARE Classic.                                                           *)

IsFirstBlock(b) == IF b < 128 THEN b % 4 = 0 ELSE b % 16 = 0

IsTrailerBlock(b) == IF b < 128 THEN (b + 1) % 4 = 0 ELSE (b + 1) % 16 = 0

(* FormatNDEF: the application directory and its keys, sector 0.             *)
Directory ==
    << <<20, 1, 3, 225, 3, 225, 3, 225, 3, 225, 3, 225, 3, 225, 3, 225>>,
       <<3, 225, 3, 225, 3, 225, 3, 225, 3, 225, 3, 225, 3, 225, 3, 225>> >>

(* A trailer by its key A: as delivered, as the calls mean to write it, and  *)
(* with a terminator over its first byte.                                    *)
FactoryKeys == <<255, 255, 255, 255, 255, 255>>
MadKeys     == <<160, 161, 162, 163, 164, 165>>
NdefKeys    == <<211, 247, 211, 247, 211, 247>>
StrayKeys   == <<254, 247, 211, 247, 211, 247>>

FormatWrite(n) ==
    [at |-> n, data |-> IF n = 3 THEN MadKeys ELSE Directory[n]]

(* A message in three buffers of 16 bytes.  The fourth case of the code      *)
(* leaves out the last character and, for 38 characters, stores the          *)
(* terminator behind sectorbuffer3: in another buffer, o.stray, or in none.  *)
Padded(bytes) == bytes \o Zeros(48 - Len(bytes))

Header(o) == <<0, 0, 3, o.len + 5, 209, 1, o.len + 1, 85, uriIdentifier>>

(* Mutant: the terminator is not wrapped around to the final block.          *)
SectorBytesUnwrapped(o) ==
    IF o.len = 23 THEN Padded(Header(o) \o Url(o.len))
                  ELSE Padded(Header(o) \o Url(o.len) \o <<FE>>)

SectorBytes(o) ==
    IF o.len <= 23 THEN Padded(Header(o) \o Url(o.len) \o <<FE>>)
    ELSE LET cut == Padded(Header(o) \o Url(o.len - 1)) IN
         IF o.len = 38 THEN cut ELSE [cut EXCEPT ![o.len + 11] = FE]

SectorData(o, n) ==
    LET buffer == SubSeq(SectorBytes(o), 16 * n - 15, 16 * n) IN
    CASE n = 4 -> IF o.stray = 4 THEN StrayKeys ELSE NdefKeys
      [] n # 4 -> IF o.stray = n THEN [buffer EXCEPT ![1] = FE] ELSE buffer

Strays(len) == IF len = 38 THEN {0, 1, 2, 4} ELSE {0}

(* Mutant: the sector ends one block later.                                  *)
SectorWriteShifted(o, n) == [at |-> o.sector * 4 + n, data |-> SectorData(o, n)]

SectorWrite(o, n) == [at |-> o.sector * 4 + n - 1, data |-> SectorData(o, n)]

-----------------------------------------------------------------------------
(* NTAG2xx: three pages of header, then the URL, four bytes a page, with the *)
(* terminator behind its last byte.                                          *)
PageHeader(o) == <<1, 3, 160, 16, 68, 3, o.len + 5, 209, 1, o.len + 1, 85, uriIdentifier>>

UrlPages(len) == len \div 4 + 1

(* Mutant: the last page is cut off behind the terminator.                   *)
PageWriteUnpadded(o, n) ==
    [at   |-> 3 + n,
     data |-> LET bytes == PageHeader(o) \o Url(o.len) \o <<FE>> IN
              SubSeq(bytes, 4 * n - 3, IF 4 * n > Len(bytes) THEN Len(bytes) ELSE 4 * n)]

PageWrite(o, n) ==
    [at   |-> 3 + n,
     data |-> SubSeq(PageHeader(o) \o Url(o.len) \o <<FE, 0, 0, 0>>, 4 * n - 3, 4 * n)]

(* Mutant: the terminator is left out of the count.                          *)
FitsWithoutTrailer(len, dataLen) == len >= 1 /\ len + 12 <= dataLen

Fits(len, dataLen) == len >= 1 /\ len + 1 + 12 <= dataLen

-----------------------------------------------------------------------------
(* The calls: uint8_t len = strlen(url).                                     *)
Calls ==
    IF kind = "classic"
    THEN [type: {"format"}]
         \cup UNION {[type: {"sector_uri"}, sector: Sectors, strlen: {l},
                      len: {l % 256}, stray: Strays(l % 256)] : l \in Lengths}
    ELSE UNION {[type: {"ntag_uri"}, dataLen: DataLens, strlen: {l},
                 len: {l % 256}] : l \in Lengths}

Accepts(o) ==
    CASE o.type = "format"     -> TRUE
      [] o.type = "sector_uri" -> o.sector \in 1 .. 15 /\ o.len \in 1 .. 38
      [] o.type = "ntag_uri"   -> Fits(o.len, o.dataLen)

Writes(o) ==
    CASE o.type = "format"     -> 3
      [] o.type = "sector_uri" -> 4
      [] o.type = "ntag_uri"   -> 3 + UrlPages(o.len)

Write(o, n) ==
    CASE o.type = "format"     -> FormatWrite(n)
      [] o.type = "sector_uri" -> SectorWrite(o, n)
      [] o.type = "ntag_uri"   -> PageWrite(o, n)

(* The blocks of the first sector and of those named, without block 0.       *)
Addresses ==
    IF kind = "classic" THEN {a \in 1 .. 63 : a \div 4 \in Sectors \cup {0}}
                        ELSE 4 .. LastPage

NdefInit ==
    /\ kind \in {"classic", "ntag"}
    /\ mem = [a \in Addresses |-> IF kind = "ntag" THEN Zeros(4)
                                  ELSE IF IsTrailerBlock(a) THEN FactoryKeys ELSE Zeros(16)]
    /\ op = None
    /\ step = 0
    /\ result = None
    /\ refused = FALSE

Running == op # None /\ result = None

Call ==
    /\ ~Running
    /\ op' \in Calls
    /\ step' = 0
    /\ result' = IF Accepts(op') THEN None ELSE 0
    /\ refused' = FALSE
    /\ UNCHANGED <<kind, mem>>

(* WriteDataBlock and WritePage: a write that is acknowledged to the driver  *)
(* is taken for done.                                                        *)
Executes(w) == mem' = [mem EXCEPT ![w.at] = w.data]

WriteReturns1 ==
    /\ Running
    /\ step' = step + 1
    /\ \/ Executes(Write(op, step')) /\ UNCHANGED refused
       \/ refused' = TRUE /\ UNCHANGED mem
    /\ result' = IF step' = Writes(op) THEN 1 ELSE None
    /\ UNCHANGED <<kind, op>>

(* No acknowledgement, or too late an answer.                                *)
WriteReturns0 ==
    /\ Running
    /\ Executes(Write(op, step + 1)) \/ UNCHANGED mem
    /\ result' = 0
    /\ UNCHANGED <<kind, op, step, refused>>

NdefNext == Call \/ WriteReturns1 \/ WriteReturns0

NdefSpec == NdefInit /\ [][NdefNext]_ndef_vars

-----------------------------------------------------------------------------
(* What a phone reads from the tag: the TLVs from the start of the data area *)
(* up to the message; it must be followed by the terminator.                 *)
Area(o) ==
    LET sector == o.type = "sector_uri"
        size   == IF sector THEN 16 ELSE 4
        first  == IF sector THEN o.sector * 4 ELSE 4
        count  == IF sector THEN 3 ELSE (o.dataLen + 3) \div 4
    IN  [i \in 1 .. count * size |-> mem[first + (i - 1) \div size][((i - 1) % size) + 1]]

MessageAt(bytes) ==
    LET tlv[p \in Nat] ==
            IF p >= Len(bytes) THEN 0
            ELSE CASE bytes[p] = 0 -> tlv[p + 1]
                   [] bytes[p] = 3 -> p
                   [] bytes[p] = FE -> 0
                   [] OTHER -> tlv[p + 2 + bytes[p + 1]]
    IN  tlv[1]

UriIn(bytes) ==
    LET p == MessageAt(bytes)
        end == p + 2 + bytes[p + 1]
        record == SubSeq(bytes, p + 2, end - 1)
    IN  IF /\ p # 0
           /\ end <= Len(bytes) /\ bytes[end] = FE
           /\ Len(record) > 5
           /\ SubSeq(record, 1, 4) = <<209, 1, Len(record) - 4, 85>>
        THEN SubSeq(record, 5, Len(record)) ELSE None

-----------------------------------------------------------------------------
Data == [1 .. 4 -> Byte] \cup [1 .. 16 -> Byte]

Trailers == {FactoryKeys, MadKeys, NdefKeys, StrayKeys}

NdefTypeOK ==
    /\ kind \in {"classic", "ntag"}
    /\ DOMAIN mem = Addresses
    /\ \A a \in Addresses : mem[a] \in Data \cup Trailers
    /\ op \in Calls \cup {None}
    /\ step \in 0 .. 67
    /\ result \in {None, 0, 1}
    /\ refused \in BOOLEAN

(* What the code promises to write: a URL whose length a byte can hold and,  *)
(* on a sector, one of the first four cases (PN532.c:824-849); in the fifth  *)
(* its last character is lost.                                               *)
Exact(o) == o.strlen = o.len /\ (o.type = "sector_uri" => o.len <= 23)

(* A call that returns 1, no write of which the tag has refused, leaves a    *)
(* message on the tag that reads as the URI that was passed, whatever was on *)
(* the tag before: another URI, or what calls that were cut short have left  *)
(* of several (PN532.c:804, 1149).                                           *)
Written == result = 1 /\ ~refused /\ op.type # "format"

HoldsUri(o) == UriIn(Area(o)) = <<uriIdentifier>> \o Url(o.strlen)

UriReadBack == Written /\ Exact(op) => HoldsUri(op)

(* The same of every URL the comment on the function allows, "max 38         *)
(* characters" (PN532.c:799).  It does not hold from 24 characters on.       *)
UriUpTo38 ==
    Written /\ op.type = "sector_uri" /\ op.strlen \in 1 .. 38 => HoldsUri(op)

(* No call writes outside the sector, or the data area, that it was given:   *)
(* the check of dataLen counts the terminator that needs a page of its own   *)
(* (PN532.c:1158).                                                           *)
AreaOf(o) ==
    CASE o.type = "format"     -> 1 .. 3
      [] o.type = "sector_uri" -> o.sector * 4 .. o.sector * 4 + 3
      [] o.type = "ntag_uri"   -> 4 .. 3 + (o.dataLen + 3) \div 4

OnlyItsAreaWritten ==
    [][\A a \in Addresses : mem'[a] # mem[a] => a \in AreaOf(op)]_ndef_vars

MaySpoilKey(o) == o.type = "sector_uri" /\ o.len = 38

(* However the calls are cut short, a trailer is only ever given one of the  *)
(* keys that the comments name, and the other blocks only data: no data is   *)
(* taken for a trailer, which would lock the sector with keys nobody knows   *)
(* (PN532.c:576, 776, 870).  But a URL of 38 characters may spoil key A, of  *)
(* which PN532.c:817 says that it "must be used".                            *)
KeysGoToTrailers ==
    [][\A a \in Addresses : mem'[a] # mem[a] =>
          IF kind = "classic" /\ IsTrailerBlock(a)
          THEN mem'[a] \in {MadKeys, NdefKeys} \/ MaySpoilKey(op)
          ELSE mem'[a] \in Data]_ndef_vars
=============================================================================
