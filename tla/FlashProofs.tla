---------------------------- MODULE FlashProofs ----------------------------
(* Theorems about Flash.tla, for any cipher, block size, partition and data. *)
EXTENDS Flash, SequenceTheorems, WellFoundedInduction, TLAPS

-----------------------------------------------------------------------------
(* Bytes and blocks.                                                         *)

LEMMA Division ==
    ASSUME NEW n \in Nat
    PROVE  /\ n \div BlockSize \in Nat
           /\ n % BlockSize \in 0 .. BlockSize - 1
           /\ n = ((n \div BlockSize) * BlockSize) + (n % BlockSize)
BY FlashAssumption

LEMMA Quotient ==
    ASSUME NEW q \in Nat, NEW r \in 0 .. BlockSize - 1
    PROVE  /\ ((q * BlockSize) + r) \div BlockSize = q
           /\ ((q * BlockSize) + r) % BlockSize = r
BY FlashAssumption

LEMMA Multiples ==
    ASSUME NEW q \in Nat, NEW w \in Nat
    PROVE  /\ q * BlockSize \in Nat
           /\ q < w => (q * BlockSize) + BlockSize <= w * BlockSize
<1>1. q * BlockSize \in Nat
  BY FlashAssumption
<1>2. ASSUME q < w
      PROVE  (q * BlockSize) + BlockSize <= w * BlockSize
  <2>1. PICK d \in Nat : w = q + 1 + d
    <3>1. w - q - 1 \in Nat /\ w = q + 1 + (w - q - 1)
      BY <1>2
    <3> QED
      BY <3>1
  <2>2. w * BlockSize = (q * BlockSize) + BlockSize + (d * BlockSize)
    BY <2>1, FlashAssumption
  <2>3. d * BlockSize \in Nat
    BY FlashAssumption
  <2> QED
    BY <1>1, <2>2, <2>3, FlashAssumption
<1> QED
  BY <1>1, <1>2

(* Byte i is in the block that starts behind byte Start(i); so are the other *)
(* bytes of that block.                                                      *)
Start(i) == ((i - 1) \div BlockSize) * BlockSize

LEMMA BlockOf ==
    ASSUME NEW n \in Nat, NEW i \in 1 .. n, (i - 1) \div BlockSize < n \div BlockSize
    PROVE  /\ Start(i) \in Nat
           /\ Start(i) + BlockSize <= n
           /\ Start(i) + ((i - 1) % BlockSize) + 1 = i
           /\ ((i - 1) % BlockSize) + 1 \in 1 .. BlockSize
           /\ \A k \in 1 .. BlockSize :
                /\ (Start(i) + k - 1) \div BlockSize = (i - 1) \div BlockSize
                /\ (Start(i) + k - 1) % BlockSize = k - 1
                /\ Start(Start(i) + k) = Start(i)
<1> DEFINE q == (i - 1) \div BlockSize
           w == n \div BlockSize
<1>1. /\ q \in Nat /\ w \in Nat /\ q < w
      /\ (i - 1) % BlockSize \in 0 .. BlockSize - 1
      /\ i - 1 = (q * BlockSize) + ((i - 1) % BlockSize)
      /\ n = (w * BlockSize) + (n % BlockSize) /\ n % BlockSize \in Nat
  BY Division, FlashAssumption
<1>2. /\ q * BlockSize \in Nat /\ w * BlockSize \in Nat
      /\ (q * BlockSize) + BlockSize <= w * BlockSize
  BY <1>1, Multiples
<1>3. Start(i) = q * BlockSize
  BY DEF Start
<1> DEFINE s == q * BlockSize
           l == w * BlockSize
<1>4. /\ s \in Nat /\ l \in Nat /\ s + BlockSize <= l /\ Start(i) = s
      /\ i - 1 = s + ((i - 1) % BlockSize) /\ n = l + (n % BlockSize)
  BY <1>1, <1>2, <1>3
<1>5. ASSUME NEW k \in 1 .. BlockSize
      PROVE  /\ (s + k - 1) \div BlockSize = q
             /\ (s + k - 1) % BlockSize = k - 1
             /\ Start(s + k) = s
  <2>1. k - 1 \in 0 .. BlockSize - 1 /\ s + k - 1 = s + (k - 1)
    BY <1>4, FlashAssumption
  <2>2. /\ (s + (k - 1)) \div BlockSize = q
        /\ (s + (k - 1)) % BlockSize = k - 1
    BY <1>1, <2>1, Quotient
  <2>3. Start(s + k) = q * BlockSize
    <3>1. (s + k - 1) \div BlockSize = q
      BY <2>1, <2>2
    <3>2. s \in Nat /\ s + k \in Nat
      BY <1>4
    <3>3. \A j \in Nat : (j - 1) \div BlockSize = q => Start(j) = q * BlockSize
      <4> HIDE DEF q
      <4> QED
        BY Zenon DEF Start
    <3> HIDE DEF s, q
    <3> QED
      BY <3>1, <3>2, <3>3
  <2> QED
    BY <2>1, <2>2, <2>3
<1> HIDE DEF s, l, w
<1> DEFINE r == (i - 1) % BlockSize
<1>6. /\ s \in Nat /\ s + BlockSize <= n
      /\ s + r + 1 = i /\ r + 1 \in 1 .. BlockSize
  <2>1. r \in 0 .. BlockSize - 1 /\ i - 1 = s + r /\ n % BlockSize \in Nat
    BY <1>1, <1>4
  <2> HIDE DEF r
  <2> QED
    BY <1>4, <2>1, FlashAssumption
<1> QED
  BY <1>4, <1>5, <1>6, Zenon

LEMMA WholeBlocks ==
    ASSUME NEW n \in Nat, n % BlockSize = 0, NEW i \in 1 .. n
    PROVE  (i - 1) \div BlockSize < n \div BlockSize
<1> DEFINE q == (i - 1) \div BlockSize
           w == n \div BlockSize
<1>1. /\ q \in Nat /\ w \in Nat
      /\ i - 1 >= q * BlockSize
      /\ n = w * BlockSize
  <2>1. /\ i - 1 \in Nat /\ q \in Nat /\ w \in Nat
        /\ (i - 1) % BlockSize \in 0 .. BlockSize - 1
        /\ i - 1 = (q * BlockSize) + ((i - 1) % BlockSize)
        /\ n = (w * BlockSize) + (n % BlockSize)
    BY Division
  <2>2. q * BlockSize \in Nat /\ w * BlockSize \in Nat
    BY <2>1, Multiples
  <2> QED
    BY <2>1, <2>2
<1> HIDE DEF q, w
<1>2. q * BlockSize \in Nat /\ w * BlockSize \in Nat
  BY <1>1, Multiples
<1>3. ~(q >= w)
  <2> SUFFICES ASSUME q >= w
               PROVE  FALSE
    OBVIOUS
  <2>1. q * BlockSize >= w * BlockSize
    <3>1. CASE q = w
      BY <1>2, <3>1
    <3>2. CASE q # w
      <4>1. w < q
        BY <1>1, <3>2
      <4>2. (w * BlockSize) + BlockSize <= q * BlockSize
        BY <1>1, <4>1, Multiples
      <4> QED
        BY <1>2, <4>2, FlashAssumption
    <3> QED
      BY <3>1, <3>2
  <2>2. i - 1 >= n
    BY <1>1, <1>2, <2>1
  <2> QED
    BY <2>2
<1> QED
  BY <1>1, <1>3 DEF q, w

Strings(n) == [1 .. n -> Symbols]

LEMMA StringLength ==
    ASSUME NEW n \in Nat, NEW s \in Strings(n)
    PROVE  s \in Seq(Symbols) /\ Len(s) = n /\ DOMAIN s = 1 .. n
<1>1. s \in Seq(Symbols) /\ DOMAIN s = 1 .. n
  BY SeqDef DEF Strings
<1>2. Len(s) \in Nat /\ DOMAIN s = 1 .. Len(s)
  BY <1>1, LenProperties
<1>3. Len(s) = n
  BY <1>1, <1>2
<1> QED
  BY <1>1, <1>3

LEMMA BlockTyped ==
    ASSUME NEW n \in Nat, NEW s \in Strings(n), NEW i \in 1 .. n,
           (i - 1) \div BlockSize < n \div BlockSize
    PROVE  /\ BlockAt(s, i) \in Blocks
           /\ \A k \in 1 .. BlockSize : BlockAt(s, i)[k] = s[Start(i) + k]
<1>1. Start(i) \in Nat /\ Start(i) + BlockSize <= n
  BY BlockOf
<1>2. BlockAt(s, i) = [k \in 1 .. BlockSize |-> s[Start(i) + k]]
  BY DEF BlockAt, Start
<1>3. \A k \in 1 .. BlockSize : Start(i) + k \in 1 .. n
  BY <1>1, FlashAssumption
<1> QED
  BY <1>2, <1>3 DEF Blocks, Strings

LEMMA Enciphered ==
    ASSUME NEW n \in Nat, NEW s \in Strings(n)
    PROVE  InBlocks(FALSE, s) \in Strings(n)
<1>1. Len(s) = n /\ DOMAIN s = 1 .. n
  BY StringLength
<1>2. ASSUME NEW i \in 1 .. n, (i - 1) \div BlockSize < n \div BlockSize
      PROVE  Cipher[BlockAt(s, i)][((i - 1) % BlockSize) + 1] \in Symbols
  <2>1. Cipher[BlockAt(s, i)] \in Blocks
    BY <1>2, BlockTyped, FlashAssumption
  <2>2. ((i - 1) % BlockSize) + 1 \in 1 .. BlockSize
    BY <1>2, BlockOf
  <2> QED
    BY <2>1, <2>2 DEF Blocks
<1>3. \A i \in 1 .. n : s[i] \in Symbols
  BY DEF Strings
<1> QED
  BY <1>1, <1>2, <1>3 DEF InBlocks, AES_encrypter, Strings

LEMMA Deciphered ==
    ASSUME NEW n \in Nat, NEW s \in Strings(n)
    PROVE  InBlocks(TRUE, s) \in Strings(n)
<1>1. Len(s) = n /\ DOMAIN s = 1 .. n
  BY StringLength
<1>2. ASSUME NEW i \in 1 .. n, (i - 1) \div BlockSize < n \div BlockSize
      PROVE  Decipher[BlockAt(s, i)][((i - 1) % BlockSize) + 1] \in Symbols
  <2>1. Decipher[BlockAt(s, i)] \in Blocks
    BY <1>2, BlockTyped, FlashAssumption
  <2>2. ((i - 1) % BlockSize) + 1 \in 1 .. BlockSize
    BY <1>2, BlockOf
  <2> QED
    BY <2>1, <2>2 DEF Blocks
<1>3. \A i \in 1 .. n : s[i] \in Symbols
  BY DEF Strings
<1> QED
  BY <1>1, <1>2, <1>3 DEF InBlocks, AES_decrypter, Strings

LEMMA SameFunctions ==
    ASSUME NEW S, NEW T, NEW x \in [S -> T], NEW y \in [S -> T],
           \A k \in S : x[k] = y[k]
    PROVE  x = y
OBVIOUS

LEMMA SameBlocks ==
    ASSUME NEW x \in Blocks, NEW y \in Blocks, \A k \in 1 .. BlockSize : x[k] = y[k]
    PROVE  x = y
<1>1. x \in [1 .. BlockSize -> Symbols] /\ y \in [1 .. BlockSize -> Symbols]
  BY DEF Blocks
<1> DEFINE S == 1 .. BlockSize
<1>2. x \in [S -> Symbols] /\ y \in [S -> Symbols] /\ \A k \in S : x[k] = y[k]
  BY <1>1
<1> HIDE DEF S
<1> QED
  BY <1>2, SameFunctions

(* Decryption undoes encryption of whole blocks.                             *)
LEMMA RoundTrip ==
    ASSUME NEW n \in Nat, n % BlockSize = 0, NEW s \in Strings(n)
    PROVE  InBlocks(TRUE, InBlocks(FALSE, s)) = s
<1> DEFINE e == InBlocks(FALSE, s)
<1>1. Len(s) = n /\ DOMAIN s = 1 .. n
  BY StringLength
<1>2. e \in Strings(n)
  BY Enciphered
<1>3. Len(e) = n /\ DOMAIN e = 1 .. n
  BY <1>2, StringLength
<1>4. \A i \in 1 .. n : (i - 1) \div BlockSize < n \div BlockSize
  BY WholeBlocks
<1>5. \A i \in 1 .. n : e[i] = Cipher[BlockAt(s, i)][((i - 1) % BlockSize) + 1]
  BY <1>1, <1>4 DEF InBlocks, AES_encrypter
<1> HIDE DEF e
<1>6. ASSUME NEW i \in 1 .. n
      PROVE  Decipher[BlockAt(e, i)][((i - 1) % BlockSize) + 1] = s[i]
  <2>1. /\ Start(i) \in Nat /\ Start(i) + BlockSize <= n
        /\ Start(i) + ((i - 1) % BlockSize) + 1 = i
        /\ ((i - 1) % BlockSize) + 1 \in 1 .. BlockSize
    BY <1>4, BlockOf
  <2>2. ASSUME NEW k \in 1 .. BlockSize
        PROVE  e[Start(i) + k] = Cipher[BlockAt(s, i)][k]
    <3> DEFINE j == Start(i) + k
    <3>1. j \in 1 .. n
      BY <2>1, FlashAssumption
    <3>2. Start(j) = Start(i) /\ (j - 1) % BlockSize = k - 1
      BY <1>4, BlockOf
    <3>3. BlockAt(s, j) = BlockAt(s, i)
      BY <3>2 DEF BlockAt, Start
    <3>4. (k - 1) + 1 = k
      OBVIOUS
    <3> HIDE DEF j
    <3>5. e[j] = Cipher[BlockAt(s, i)][k]
      BY <1>5, <3>1, <3>2, <3>3, <3>4
    <3> QED
      BY <3>5 DEF j
  <2>3. BlockAt(e, i) = Cipher[BlockAt(s, i)]
    <3>1. BlockAt(s, i) \in Blocks /\ BlockAt(e, i) \in Blocks
      BY <1>2, <1>4, BlockTyped
    <3>2. Cipher[BlockAt(s, i)] \in Blocks
      BY <3>1, FlashAssumption
    <3>3. \A k \in 1 .. BlockSize : BlockAt(e, i)[k] = e[Start(i) + k]
      BY <1>2, <1>4, BlockTyped
    <3>4. \A k \in 1 .. BlockSize : BlockAt(e, i)[k] = Cipher[BlockAt(s, i)][k]
      BY <2>2, <3>3
    <3> QED
      BY <3>1, <3>2, <3>4, SameBlocks, Zenon
  <2>4. Decipher[BlockAt(e, i)] = BlockAt(s, i)
    BY <1>4, <2>3, BlockTyped, FlashAssumption
  <2>5. BlockAt(s, i)[((i - 1) % BlockSize) + 1] = s[Start(i) + (((i - 1) % BlockSize) + 1)]
    BY <1>4, <2>1, BlockTyped
  <2>6. Start(i) + (((i - 1) % BlockSize) + 1) = i
    <3> DEFINE r == (i - 1) % BlockSize
    <3>1. Start(i) \in Nat /\ r + 1 \in 1 .. BlockSize /\ Start(i) + r + 1 = i /\ r \in Int
      BY <2>1, Division, FlashAssumption
    <3> HIDE DEF r
    <3>2. Start(i) + (r + 1) = i
      BY <3>1, FlashAssumption
    <3> QED
      BY <3>2 DEF r
  <2> QED
    BY <2>4, <2>5, <2>6
<1>7. InBlocks(TRUE, e) \in Strings(n)
  BY <1>2, Deciphered
<1>8. \A i \in 1 .. n : InBlocks(TRUE, e)[i] = s[i]
  BY <1>3, <1>4, <1>6 DEF InBlocks, AES_decrypter
<1>9. InBlocks(TRUE, e) = s
  <2> DEFINE d == InBlocks(TRUE, e)
  <2>1. d \in Strings(n) /\ \A i \in 1 .. n : d[i] = s[i]
    BY <1>7, <1>8
  <2> HIDE DEF d
  <2>2. d = s
    BY <2>1 DEF Strings
  <2> QED
    BY <2>2 DEF d
<1> QED
  BY <1>9 DEF e

-----------------------------------------------------------------------------
(* Padding.                                                                  *)

PaddedLength(l) == IF l % BlockSize = 0 THEN l ELSE l + PaddingSize(l)

LEMMA LengthPadded ==
    ASSUME NEW l \in Nat \ {0}
    PROVE  /\ PaddedLength(l) \in l .. l + BlockSize - 1
           /\ PaddedLength(l) % BlockSize = 0
           /\ l % BlockSize # 0 => /\ PaddedLength(l) = l + PaddingSize(l)
                                   /\ PaddingSize(l) \in 1 .. BlockSize - 1
           /\ l % BlockSize = 0 => /\ PaddedLength(l) = l
                                   /\ PaddingSize(l) = BlockSize
<1> DEFINE q == l \div BlockSize
           r == l % BlockSize
<1>1. q \in Nat /\ r \in 0 .. BlockSize - 1 /\ l = (q * BlockSize) + r
  BY Division
<1>2. PaddingSize(l) = BlockSize - r
  BY DEF PaddingSize
<1>3. CASE r = 0
  <2>1. PaddedLength(l) = l
    BY <1>3 DEF PaddedLength
  <2> HIDE DEF q
  <2> QED
    BY <1>1, <1>2, <1>3, <2>1, FlashAssumption
<1>4. CASE r # 0
  <2>1. PaddedLength(l) = l + PaddingSize(l)
    BY <1>4 DEF PaddedLength
  <2>2. ((q + 1) * BlockSize) + 0 = (q * BlockSize) + BlockSize
    BY <1>1, FlashAssumption
  <2>3. q + 1 \in Nat /\ 0 \in 0 .. BlockSize - 1
    BY <1>1, FlashAssumption
  <2>4. (((q + 1) * BlockSize) + 0) % BlockSize = 0
    BY <2>3, Quotient
  <2>5. q * BlockSize \in Nat
    BY <1>1, Multiples
  <2> DEFINE s == q * BlockSize
  <2>6. s + BlockSize = PaddedLength(l)
    <3>1. s \in Nat /\ l = s + r /\ PaddedLength(l) = l + (BlockSize - r)
      BY <1>1, <1>2, <2>1, <2>5
    <3> HIDE DEF s
    <3> QED
      BY <1>1, <3>1, FlashAssumption
  <2>7. PaddedLength(l) % BlockSize = 0
    BY <2>2, <2>4, <2>6
  <2>8. r \in 1 .. BlockSize - 1 /\ r # 0 /\ l \in Nat
    BY <1>1, <1>4
  <2> HIDE DEF q, s
  <2> QED
    BY <1>2, <2>1, <2>7, <2>8, FlashAssumption
<1> QED
  BY <1>3, <1>4

LEMMA Characters ==
    /\ Symbols \subseteq Nat
    /\ Bytes \subseteq Symbols
    /\ 1 .. BlockSize - 1 \subseteq Symbols
    /\ 255 \in Symbols
BY FlashAssumption DEF Symbols

LEMMA Values ==
    ASSUME NEW n \in Nat, NEW s \in Strings(n), NEW i \in 1 .. n
    PROVE  s[i] \in Symbols /\ s[i] \in Nat
<1>1. s[i] \in Symbols
  BY DEF Strings
<1> QED
  BY <1>1, Characters

LEMMA Padded ==
    ASSUME NEW l \in Nat \ {0}, NEW d \in Strings(l)
    PROVE  /\ pad_string_pkcs7(d) \in Strings(PaddedLength(l))
           /\ \A i \in 1 .. l : pad_string_pkcs7(d)[i] = d[i]
           /\ \A i \in l + 1 .. PaddedLength(l) : pad_string_pkcs7(d)[i] = PaddingSize(l)
<1> DEFINE size == PaddingSize(l)
           tail == [i \in 1 .. size |-> size]
<1>1. d \in Seq(Symbols) /\ Len(d) = l
  BY StringLength
<1>2. CASE l % BlockSize = 0
  <2>1. PaddedLength(l) = l /\ pad_string_pkcs7(d) = d
    BY <1>1, <1>2, LengthPadded DEF pad_string_pkcs7
  <2> QED
    BY <2>1
<1>3. CASE l % BlockSize # 0
  <2>1. PaddedLength(l) = l + size /\ size \in 1 .. BlockSize - 1
    BY <1>3, LengthPadded
  <2>2. size \in Nat /\ size # BlockSize
    BY <2>1, FlashAssumption
  <2>3. pad_string_pkcs7(d) = d \o tail
    BY <1>1, <2>2 DEF pad_string_pkcs7
  <2>4. tail \in Strings(size)
    BY <2>1, Characters DEF Strings
  <2>5. tail \in Seq(Symbols) /\ Len(tail) = size
    BY <2>2, <2>4, StringLength
  <2>6. \A i \in 1 .. size : tail[i] = size
    OBVIOUS
  <2> HIDE DEF size, tail
  <2>7. /\ d \o tail \in Seq(Symbols)
        /\ Len(d \o tail) = l + size
        /\ \A i \in 1 .. l + size :
             (d \o tail)[i] = IF i <= l THEN d[i] ELSE tail[i - l]
    BY <1>1, <2>5, ConcatProperties
  <2>8. d \o tail \in Strings(l + size)
    <3>1. d \o tail \in [1 .. Len(d \o tail) -> Symbols]
      BY <2>7, LenProperties
    <3> QED
      BY <2>7, <3>1 DEF Strings
  <2> DEFINE c == d \o tail
  <2>9. \A i \in 1 .. l + size : c[i] = IF i <= l THEN d[i] ELSE tail[i - l]
    BY <2>7
  <2> HIDE DEF c
  <2>10. \A i \in 1 .. l : c[i] = d[i]
    BY <2>2, <2>9
  <2>11. ASSUME NEW i \in l + 1 .. l + size
         PROVE  c[i] = size
    <3>1. i \in 1 .. l + size /\ ~(i <= l) /\ i - l \in 1 .. size
      BY <2>2
    <3> QED
      BY <2>6, <2>9, <3>1
  <2> QED
    BY <2>1, <2>3, <2>8, <2>10, <2>11 DEF size, c
<1> QED
  BY <1>2, <1>3

(* What is taken off leaves part of the string, or wraps its length.         *)
LEMMA Depadded ==
    ASSUME NEW n \in Nat \ {0}, NEW s \in Strings(n)
    PROVE  \/ /\ depad_string_pkcs7(s) \in Seq(Symbols)
              /\ Len(depad_string_pkcs7(s)) <= n
           \/ /\ depad_string_pkcs7(s) = Overrun
              /\ n % BlockSize = 0
              /\ s[n] \in n + 1 .. BlockSize + 1
<1>1. s \in Seq(Symbols) /\ Len(s) = n /\ Last(s) = s[n] /\ s[n] \in Nat
  <2>1. s \in Seq(Symbols) /\ Len(s) = n
    BY StringLength
  <2>2. n \in Nat /\ n \in 1 .. n
    OBVIOUS
  <2>3. s[n] \in Nat
    BY <2>2, Values
  <2> QED
    BY <2>1, <2>3 DEF Last
<1>2. /\ SubSeq(s, 1, n - s[n]) \in Seq(Symbols)
      /\ Len(SubSeq(s, 1, n - s[n])) <= n
  <2>1. n - s[n] \in Int /\ n - s[n] <= n
    BY <1>1
  <2>2. \A i \in 1 .. n - s[n] : s[i] \in Symbols
    BY <2>1 DEF Strings
  <2>3. /\ SubSeq(s, 1, n - s[n]) \in Seq(Symbols)
        /\ Len(SubSeq(s, 1, n - s[n])) =
             IF 1 <= n - s[n] THEN n - s[n] - 1 + 1 ELSE 0
    BY <2>1, <2>2, SubSeqProperties
  <2> QED
    BY <1>1, <2>1, <2>3
<1>3. CASE NotPadded(s)
  <2>1. depad_string_pkcs7(s) = s
    BY <1>3 DEF depad_string_pkcs7
  <2> QED
    BY <1>1, <2>1
<1>4. CASE ~NotPadded(s)
  <2>1. n % BlockSize = 0 /\ s[n] <= BlockSize + 1
    BY <1>1, <1>4, FlashAssumption DEF NotPadded
  <2>2. depad_string_pkcs7(s) = IF s[n] > n THEN Overrun ELSE SubSeq(s, 1, n - s[n])
    BY <1>1, <1>4 DEF depad_string_pkcs7, Shortened
  <2>3. s[n] > n => s[n] \in n + 1 .. BlockSize + 1
    BY <1>1, <2>1, FlashAssumption
  <2> QED
    BY <1>2, <2>1, <2>2, <2>3
<1> QED
  BY <1>3, <1>4

(* Depadding undoes padding of data whose end is not taken for a padding.    *)
LEMMA PadDepad ==
    ASSUME NEW l \in Nat \ {0}, NEW d \in Strings(l),
           l % BlockSize = 0 => d[l] \notin 1 .. BlockSize + 1
    PROVE  depad_string_pkcs7(pad_string_pkcs7(d)) = d
<1> DEFINE p == pad_string_pkcs7(d)
           m == PaddedLength(l)
<1>1. /\ p \in Strings(m)
      /\ \A i \in 1 .. l : p[i] = d[i]
      /\ \A i \in l + 1 .. m : p[i] = PaddingSize(l)
      /\ m \in l .. l + BlockSize - 1 /\ m % BlockSize = 0
  BY Padded, LengthPadded
<1>2. m \in Nat \ {0}
  BY <1>1, FlashAssumption
<1> HIDE DEF p, m
<1>3. p \in Seq(Symbols) /\ Len(p) = m /\ Last(p) = p[m]
  BY <1>1, <1>2, StringLength DEF Last
<1>4. d \in Seq(Symbols) /\ Len(d) = l
  BY StringLength
<1>5. CASE l % BlockSize = 0
  <2>1. m = l
    BY <1>5, LengthPadded DEF m
  <2>2. p = d
    BY <1>1, <1>3, <1>4, <2>1, SeqEqual
  <2>3. d[l] \in Nat
    <3>1. l \in Nat /\ l \in 1 .. l
      OBVIOUS
    <3> QED
      BY <3>1, Values
  <2>4. d[l] > BlockSize + 1 \/ d[l] = 0
    BY <1>5, <2>3, FlashAssumption
  <2>5. CASE d[l] > BlockSize + 1
    <3>1. Last(p) > BlockSize + 1
      BY <1>3, <2>1, <2>2, <2>5
    <3>2. depad_string_pkcs7(p) = p
      BY <3>1 DEF depad_string_pkcs7, NotPadded
    <3> QED
      BY <2>2, <3>2 DEF p
  <2>6. CASE d[l] = 0
    <3>1. Last(p) = 0 /\ Len(p) % BlockSize = 0 /\ ~(0 > BlockSize + 1)
      BY <1>1, <1>3, <2>1, <2>2, <2>6, FlashAssumption
    <3>2. depad_string_pkcs7(p) = SubSeq(p, 1, Len(p) - 0)
      <4>1. ~(0 > Len(p))
        BY <1>2, <1>3
      <4> QED
        BY <3>1, <4>1 DEF depad_string_pkcs7, NotPadded, Shortened
    <3>3. Len(p) - 0 = Len(p)
      BY <1>2, <1>3
    <3>4. SubSeq(p, 1, Len(p)) = p
      BY <1>3, SubSeqFull
    <3> QED
      BY <2>2, <3>2, <3>3, <3>4 DEF p
  <2> QED
    BY <2>4, <2>5, <2>6
<1>6. CASE l % BlockSize # 0
  <2> DEFINE size == PaddingSize(l)
  <2>1. m = l + size /\ size \in 1 .. BlockSize - 1
    BY <1>6, LengthPadded DEF m
  <2>2. p[m] = size
    BY <1>1, <2>1
  <2> HIDE DEF size
  <2>3. /\ Last(p) = size /\ ~(size > BlockSize + 1)
        /\ Len(p) % BlockSize = 0 /\ Len(p) - size = l /\ ~(size > Len(p))
    BY <1>1, <1>3, <2>1, <2>2, FlashAssumption
  <2>4. depad_string_pkcs7(p) = SubSeq(p, 1, l)
    BY <2>3 DEF depad_string_pkcs7, NotPadded, Shortened
  <2>5. \A i \in 1 .. l : p[i] \in Symbols
    BY <1>1 DEF Strings
  <2>6. /\ SubSeq(p, 1, l) \in Seq(Symbols)
        /\ Len(SubSeq(p, 1, l)) = l
        /\ \A i \in 1 .. l : SubSeq(p, 1, l)[i] = p[i]
    <3>1. 1 \in Int /\ l \in Int /\ 1 <= l /\ l - 1 + 1 = l
      OBVIOUS
    <3>2. \A i \in 1 .. l : 1 + i - 1 = i
      OBVIOUS
    <3> QED
      BY <2>5, <3>1, <3>2, SubSeqProperties
  <2>7. SubSeq(p, 1, l) = d
    BY <1>1, <1>4, <2>6, SeqEqual
  <2> QED
    BY <2>4, <2>7 DEF p
<1> QED
  BY <1>5, <1>6

-----------------------------------------------------------------------------
(* What is stored, and where its end is found.                               *)

LEMMA Stored ==
    ASSUME NEW l \in 1 .. MaxData, NEW d \in [1 .. l -> Bytes]
    PROVE  /\ PaddedLength(l) \in 1 .. MaxData + BlockSize - 1
           /\ Encrypt(d) \in Strings(PaddedLength(l))
           /\ Len(Encrypt(d)) = PaddedLength(l)
           /\ d \in Strings(l) /\ Len(d) = l
<1>1. l \in Nat \ {0}
  OBVIOUS
<1>2. d \in Strings(l)
  BY Characters DEF Strings
<1>3. PaddedLength(l) \in 1 .. MaxData + BlockSize - 1 /\ PaddedLength(l) \in Nat
  <2> DEFINE m == PaddedLength(l)
  <2>1. m \in l .. l + BlockSize - 1
    BY <1>1, LengthPadded
  <2> HIDE DEF m
  <2>2. m \in 1 .. MaxData + BlockSize - 1 /\ m \in Nat
    BY <2>1, FlashAssumption
  <2> QED
    BY <2>2 DEF m
<1>4. pad_string_pkcs7(d) \in Strings(PaddedLength(l))
  BY <1>1, <1>2, Padded
<1>5. Encrypt(d) \in Strings(PaddedLength(l))
  BY <1>3, <1>4, Enciphered DEF Encrypt
<1>6. Len(Encrypt(d)) = PaddedLength(l)
  BY <1>3, <1>5, StringLength
<1>7. Len(d) = l
  BY <1>1, <1>2, StringLength
<1> QED
  BY <1>2, <1>3, <1>5, <1>6, <1>7

(* Decryption and depadding undo Encrypt.                                    *)
LEMMA Restored ==
    ASSUME NEW l \in 1 .. MaxData, NEW d \in [1 .. l -> Bytes],
           l % BlockSize = 0 => d[l] \notin 1 .. BlockSize + 1
    PROVE  Decrypt(Encrypt(d)) = d
<1>1. l \in Nat \ {0} /\ d \in Strings(l)
  BY Stored
<1>2. /\ PaddedLength(l) \in Nat /\ PaddedLength(l) % BlockSize = 0
      /\ pad_string_pkcs7(d) \in Strings(PaddedLength(l))
  BY <1>1, LengthPadded, Padded, FlashAssumption
<1>3. InBlocks(TRUE, Encrypt(d)) = pad_string_pkcs7(d)
  BY <1>2, RoundTrip DEF Encrypt
<1>4. depad_string_pkcs7(pad_string_pkcs7(d)) = d
  BY <1>1, PadDepad
<1> QED
  BY <1>3, <1>4 DEF Decrypt

LEMMA LeastElement ==
    ASSUME NEW T, T \subseteq Nat, T # {}
    PROVE  \E x \in T : \A y \in T : x <= y
<1>1. PICK x \in T : \A y \in T : ~(<<y, x>> \in OpToRel(<, Nat))
  BY NatLessThanWellFounded, WFMin, Zenon
<1>2. ASSUME NEW y \in T
      PROVE  x <= y
  <2>1. ~(y < x)
    BY <1>1, <1>2 DEF OpToRel
  <2> QED
    BY <2>1
<1> QED
  BY <1>2

(* Where the search may stop.                                                *)
Ends == {i \in 1 .. PartitionSize - 4 : EndsAt(i)}

ErasedBehind(m) == \A i \in 1 .. PartitionSize : i > m => flash[i] = 255

LEMMA EndFound ==
    ASSUME NEW m \in 1 .. MaxData + BlockSize - 1, ErasedBehind(m)
    PROVE  m \in Ends /\ StoredLength \in Ends /\ StoredLength <= m
<1>1. m \in 1 .. PartitionSize - 4 /\ \A k \in 1 .. 4 : m + k \in 1 .. PartitionSize /\ m + k > m
  BY FlashAssumption
<1>2. m \in Ends
  BY <1>1 DEF Ends, EndsAt, ErasedBehind
<1>3. Ends \subseteq Nat
  BY FlashAssumption DEF Ends
<1>4. \E i \in Ends : \A j \in Ends : i <= j
  BY <1>2, <1>3, LeastElement
<1>5. StoredLength = CHOOSE i \in Ends : \A j \in Ends : i <= j
  BY <1>2 DEF StoredLength, Ends
<1>6. StoredLength \in Ends /\ \A j \in Ends : StoredLength <= j
  BY <1>4, <1>5, Zenon
<1> QED
  BY <1>2, <1>6

LEMMA EndExact ==
    ASSUME NEW m \in 1 .. MaxData + BlockSize - 1, ErasedBehind(m),
           flash[m] # 255,
           \A i \in 2 .. m - 3 : \E k \in 0 .. 3 : flash[i + k] # 255
    PROVE  StoredLength = m
<1>1. StoredLength \in Ends /\ StoredLength <= m
  BY EndFound
<1> DEFINE n == StoredLength
<1>2. n \in 1 .. m /\ \A k \in 1 .. 4 : flash[n + k] = 255
  BY <1>1 DEF Ends, EndsAt
<1> HIDE DEF n
<1>3. CASE n < m - 3
  <2>1. n + 1 \in 2 .. m - 3
    BY <1>2, <1>3, FlashAssumption
  <2>2. PICK k \in 0 .. 3 : flash[n + 1 + k] # 255
    BY <2>1
  <2>3. n + 1 + k = n + (k + 1) /\ k + 1 \in 1 .. 4
    BY <1>2, <2>2, FlashAssumption
  <2> QED
    BY <1>2, <2>2, <2>3
<1>4. CASE n >= m - 3 /\ n < m
  <2>1. m - n \in 1 .. 4 /\ n + (m - n) = m
    BY <1>2, <1>4, FlashAssumption
  <2> QED
    BY <1>2, <2>1
<1> QED
  BY <1>2, <1>3, <1>4, FlashAssumption DEF n

-----------------------------------------------------------------------------
(* The inductive invariant: behind the image of the data the partition is    *)
(* erased at any time, and after a complete write it holds the image.        *)

StoredSize == Len(Encrypt(data))

(* A part of the image, whole or cut short, is in the partition.             *)
SomeWritten ==
    \E n \in 0 .. StoredSize :
        ErasedBehind(n) /\ \A i \in 1 .. n : flash[i] = Encrypt(data)[i]

(* What a session can be given.                                              *)
Bounded(string) ==
    string = Overrun \/ /\ string \in Seq(Symbols)
                        /\ Len(string) <= MaxData + BlockSize - 1

LEMMA NothingIsBounded == Bounded(<< >>)
BY EmptySeq, FlashAssumption DEF Bounded

FlashInv ==
    /\ data \in Datas
    /\ flash \in [1 .. PartitionSize -> Symbols]
    /\ pc \in {"new", "erased", "written"}
    /\ ErasedBehind(StoredSize)
    /\ SomeWritten
    /\ pc = "erased" => flash = Erased /\ read = << >>
    /\ pc = "written" => \A i \in 1 .. StoredSize : flash[i] = Encrypt(data)[i]
    /\ Bounded(read)
    /\ SafeDataReadBack

LEMMA InvImplies == FlashInv => FlashTypeOK /\ SafeDataReadBack
BY DEF FlashInv, FlashTypeOK, Bounded

LEMMA ErasedTyped ==
    /\ Erased \in [1 .. PartitionSize -> Symbols]
    /\ \A i \in 1 .. PartitionSize : Erased[i] = 255
BY Characters DEF Erased

LEMMA Image ==
    ASSUME data \in Datas
    PROVE  /\ StoredSize \in 1 .. MaxData + BlockSize - 1
           /\ StoredSize \in 1 .. PartitionSize
           /\ Encrypt(data) \in Strings(StoredSize)
<1>1. PICK l \in 1 .. MaxData : data \in [1 .. l -> Bytes]
  BY DEF Datas
<1> DEFINE m == PaddedLength(l)
<1>2. m \in 1 .. MaxData + BlockSize - 1 /\ Encrypt(data) \in Strings(m) /\ StoredSize = m
  BY <1>1, Stored DEF StoredSize
<1> HIDE DEF m
<1>3. m \in 1 .. PartitionSize
  BY <1>2, FlashAssumption
<1> QED
  BY <1>2, <1>3

LEMMA Writing ==
    ASSUME data \in Datas, flash = Erased, NEW n \in 0 .. StoredSize
    PROVE  /\ Written(n) \in [1 .. PartitionSize -> Symbols]
           /\ \A i \in 1 .. PartitionSize : i > n => Written(n)[i] = 255
           /\ \A i \in 1 .. n : Written(n)[i] = Encrypt(data)[i]
<1>1. /\ StoredSize \in 1 .. PartitionSize
      /\ Encrypt(data) \in Strings(StoredSize)
  BY Image
<1> DEFINE e == Encrypt(data)
           w == [i \in 1 .. PartitionSize |-> IF i <= n THEN e[i] ELSE flash[i]]
<1>2. Written(n) = w
  BY DEF Written
<1>3. e \in Strings(StoredSize) /\ PartitionSize \in Nat
  BY <1>1, FlashAssumption
<1> HIDE DEF e
<1>4. \A i \in 1 .. PartitionSize : i <= n => e[i] \in Symbols
  <2>1. \A i \in 1 .. PartitionSize : i <= n => i \in 1 .. StoredSize
    BY <1>1, <1>3
  <2> QED
    BY <1>3, <2>1 DEF Strings
<1>5. \A i \in 1 .. PartitionSize : flash[i] = 255 /\ flash[i] \in Symbols
  BY ErasedTyped, Characters
<1>6. w \in [1 .. PartitionSize -> Symbols]
  BY <1>4, <1>5
<1>7. \A i \in 1 .. PartitionSize : i > n => w[i] = 255
  BY <1>1, <1>3, <1>5
<1>8. \A i \in 1 .. n : w[i] = e[i]
  BY <1>1, <1>3
<1> HIDE DEF w
<1> QED
  BY <1>2, <1>6, <1>7, <1>8 DEF e

LEMMA Reading ==
    ASSUME FlashInv
    PROVE  /\ StoredLength # 0
           /\ SubSeq(flash, 1, StoredLength) \in Strings(StoredLength)
           /\ Bounded(Decrypt(SubSeq(flash, 1, StoredLength)))
<1> DEFINE n == StoredLength
           s == SubSeq(flash, 1, n)
<1>1. /\ StoredSize \in 1 .. MaxData + BlockSize - 1
      /\ ErasedBehind(StoredSize)
      /\ flash \in [1 .. PartitionSize -> Symbols]
  BY Image DEF FlashInv
<1>2. n \in 1 .. PartitionSize - 4 /\ n <= StoredSize
  BY <1>1, EndFound DEF Ends
<1> HIDE DEF n
<1>3. n \in Nat \ {0} /\ n <= MaxData + BlockSize - 1 /\ 1 .. n \subseteq 1 .. PartitionSize
  BY <1>1, <1>2, FlashAssumption
<1>4. s \in Strings(n)
  <2>1. \A i \in 1 .. n : flash[i] \in Symbols
    BY <1>1, <1>3
  <2>2. 1 \in Int /\ n \in Int /\ 1 <= n /\ n - 1 + 1 = n
    BY <1>3
  <2>3. s \in Seq(Symbols) /\ Len(s) = n
    BY <2>1, <2>2, SubSeqProperties
  <2>4. s \in [1 .. Len(s) -> Symbols]
    BY <2>3, LenProperties
  <2> QED
    BY <2>3, <2>4 DEF Strings
<1> HIDE DEF s
<1>5. InBlocks(TRUE, s) \in Strings(n)
  BY <1>3, <1>4, Deciphered
<1>6. \/ Decrypt(s) = Overrun
      \/ Decrypt(s) \in Seq(Symbols) /\ Len(Decrypt(s)) <= n
  <2> DEFINE plain == InBlocks(TRUE, s)
  <2>1. n \in Nat \ {0} /\ plain \in Strings(n)
    BY <1>3, <1>5
  <2>2. Decrypt(s) = depad_string_pkcs7(plain)
    BY DEF Decrypt
  <2> HIDE DEF plain
  <2> QED
    BY <2>1, <2>2, Depadded
<1>7. Bounded(Decrypt(s))
  <2>1. Decrypt(s) \in Seq(Symbols) => Len(Decrypt(s)) \in Nat
    BY LenProperties
  <2> QED
    BY <1>3, <1>6, <2>1, FlashAssumption DEF Bounded
<1> QED
  BY <1>3, <1>4, <1>7 DEF n, s

LEMMA EndSeen ==
    ASSUME FlashInv, pc = "written", EndIsVisible
    PROVE  StoredLength = StoredSize
<1> DEFINE m == StoredSize
           e == Encrypt(data)
<1>1. /\ m \in 1 .. MaxData + BlockSize - 1 /\ m \in 1 .. PartitionSize
      /\ e \in Strings(m) /\ ErasedBehind(m)
      /\ \A i \in 1 .. m : flash[i] = e[i]
  BY Image DEF FlashInv
<1>2. Len(e) = m /\ Last(e) = e[m]
  BY DEF StoredSize, Last
<1>3. e[m] # 255 /\ \A i \in 2 .. m - 3 : \E k \in 0 .. 3 : e[i + k] # 255
  BY <1>2 DEF EndIsVisible
<1> HIDE DEF m, e
<1>4. m \in Nat \ {0} /\ 1 .. m \subseteq 1 .. PartitionSize
  BY <1>1, FlashAssumption
<1>5. flash[m] # 255 /\ \A i \in 2 .. m - 3 : \E k \in 0 .. 3 : flash[i + k] # 255
  <2>1. flash[m] # 255
    BY <1>1, <1>3, <1>4
  <2>2. ASSUME NEW i \in 2 .. m - 3
        PROVE  \E k \in 0 .. 3 : flash[i + k] # 255
    <3>1. PICK k \in 0 .. 3 : e[i + k] # 255
      BY <1>3
    <3>2. i + k \in 1 .. m
      BY <1>4
    <3> QED
      BY <1>1, <3>1, <3>2
  <2> QED
    BY <2>1, <2>2
<1>6. StoredLength = m
  BY <1>1, <1>5, EndExact
<1> QED
  BY <1>6 DEF m

LEMMA ReadingBack ==
    ASSUME FlashInv, pc = "written", PaddingIsSafe, EndIsVisible
    PROVE  Decrypt(SubSeq(flash, 1, StoredLength)) = data
<1> DEFINE m == StoredSize
           e == Encrypt(data)
           s == SubSeq(flash, 1, m)
<1>1. /\ m \in 1 .. PartitionSize
      /\ e \in Strings(m)
      /\ flash \in [1 .. PartitionSize -> Symbols]
      /\ \A i \in 1 .. m : flash[i] = e[i]
  BY Image DEF FlashInv
<1>2. StoredLength = m
  BY EndSeen
<1> HIDE DEF m, e
<1>3. m \in Nat \ {0} /\ 1 .. m \subseteq 1 .. PartitionSize
  BY <1>1, FlashAssumption
<1>4. s = e
  <2>1. \A i \in 1 .. m : flash[i] \in Symbols
    BY <1>1, <1>3
  <2>2. 1 \in Int /\ m \in Int /\ 1 <= m /\ m - 1 + 1 = m /\ \A i \in 1 .. m : 1 + i - 1 = i
    BY <1>3
  <2>3. s \in Seq(Symbols) /\ Len(s) = m /\ \A i \in 1 .. m : s[i] = flash[i]
    BY <2>1, <2>2, SubSeqProperties
  <2>4. e \in Seq(Symbols) /\ Len(e) = m
    BY <1>1, <1>3, StringLength
  <2> HIDE DEF s
  <2>5. \A i \in 1 .. Len(s) : s[i] = e[i]
    BY <1>1, <2>3
  <2> QED
    BY <2>3, <2>4, <2>5, SeqEqual
<1>5. Decrypt(e) = data
  <2>1. PICK l \in 1 .. MaxData : data \in [1 .. l -> Bytes]
    BY DEF FlashInv, Datas
  <2>2. Len(data) = l
    BY <2>1, Stored
  <2>3. l % BlockSize = 0 => data[l] \notin 1 .. BlockSize + 1
    BY <2>2 DEF PaddingIsSafe, Last
  <2> QED
    BY <2>1, <2>3, Restored DEF e
<1> QED
  BY <1>2, <1>4, <1>5

(* Less than a block in the partition is seen to be less than a block.       *)
LEMMA ShortIsSeen ==
    ASSUME FlashInv, BlockSize > 1, NEW n \in 0 .. StoredSize, ErasedBehind(n),
           StoredLength >= BlockSize
    PROVE  n >= BlockSize
<1>1. StoredSize \in 1 .. MaxData + BlockSize - 1
  BY Image DEF FlashInv
<1>2. CASE n = 0
  <2>1. ErasedBehind(1)
    BY <1>2 DEF ErasedBehind
  <2>2. 1 \in 1 .. MaxData + BlockSize - 1
    BY FlashAssumption
  <2>3. StoredLength \in Ends /\ StoredLength <= 1
    BY <2>1, <2>2, EndFound
  <2> QED
    BY <2>3, FlashAssumption DEF Ends
<1>3. CASE n # 0
  <2>1. n \in 1 .. MaxData + BlockSize - 1
    BY <1>1, <1>3, FlashAssumption
  <2>2. StoredLength \in Ends /\ StoredLength <= n
    BY <2>1, EndFound
  <2> QED
    BY <2>1, <2>2, FlashAssumption DEF Ends
<1> QED
  BY <1>2, <1>3

(* The last byte of the first block of the partition, deciphered.            *)
LEMMA FirstBlock ==
    ASSUME NEW n \in Nat, n >= BlockSize, NEW s \in Strings(BlockSize), NEW e \in Strings(n),
           \A i \in 1 .. BlockSize : s[i] = e[i]
    PROVE  InBlocks(TRUE, s)[BlockSize] = InBlocks(TRUE, e)[BlockSize]
<1> DEFINE B == BlockSize
<1>1. B \in Nat \ {0} /\ B \in 1 .. n /\ B \in 1 .. B /\ B - 1 \in 0 .. B - 1
  BY FlashAssumption
<1>2. B - 1 = (0 * B) + (B - 1) /\ B = (1 * B) + 0 /\ 0 \in 0 .. B - 1
  BY <1>1
<1>3. (B - 1) \div B = 0 /\ (B - 1) % B = B - 1 /\ B \div B = 1 /\ B % B = 0
  <2>1. /\ ((0 * B) + (B - 1)) \div B = 0 /\ ((0 * B) + (B - 1)) % B = B - 1
        /\ ((1 * B) + 0) \div B = 1 /\ ((1 * B) + 0) % B = 0
    BY <1>1, <1>2, Quotient
  <2> QED
    BY <1>2, <2>1
<1>4. n \div B >= 1
  <2>1. n \div B \in Nat /\ n % B \in 0 .. B - 1 /\ n = ((n \div B) * B) + (n % B)
    BY Division
  <2>2. n \div B # 0
    <3> SUFFICES ASSUME n \div B = 0
                 PROVE  FALSE
      OBVIOUS
    <3>1. n = n % B
      BY <2>1, <1>1
    <3> QED
      BY <2>1, <3>1, <1>1
  <2> QED
    BY <2>1, <2>2
<1>5. /\ Len(s) = B /\ DOMAIN s = 1 .. B
      /\ Len(e) = n /\ DOMAIN e = 1 .. n
  BY <1>1, StringLength
<1>6. BlockAt(s, B) = BlockAt(e, B)
  <2>1. \A k \in 1 .. B : (0 * B) + k = k
    BY <1>1
  <2>2. /\ BlockAt(s, B) = [k \in 1 .. B |-> s[(0 * B) + k]]
        /\ BlockAt(e, B) = [k \in 1 .. B |-> e[(0 * B) + k]]
    BY <1>3 DEF BlockAt
  <2>3. \A k \in 1 .. B : s[(0 * B) + k] = e[(0 * B) + k]
    BY <2>1
  <2> QED
    BY <2>2, <2>3
<1>7. InBlocks(TRUE, s)[B] = Decipher[BlockAt(s, B)][((B - 1) % B) + 1]
  BY <1>1, <1>3, <1>5 DEF InBlocks, AES_decrypter
<1>8. InBlocks(TRUE, e)[B] = Decipher[BlockAt(e, B)][((B - 1) % B) + 1]
  BY <1>1, <1>3, <1>4, <1>5 DEF InBlocks, AES_decrypter
<1> QED
  BY <1>6, <1>7, <1>8

(* The data for which the length of what is read wraps.                      *)
LEMMA Overrunning ==
    ASSUME FlashInv, BlockSize > 1,
           Decrypt(SubSeq(flash, 1, StoredLength)) = Overrun
    PROVE  /\ Len(data) >= BlockSize /\ data[BlockSize] = BlockSize + 1
           /\ pc = "written" /\ EndIsVisible => Len(data) = BlockSize
<1> DEFINE n == StoredLength
           s == SubSeq(flash, 1, n)
           p == InBlocks(TRUE, s)
           e == Encrypt(data)
           m == StoredSize
<1>1. s \in Strings(n) /\ n \in Ends
  <2>1. m \in 1 .. MaxData + BlockSize - 1 /\ ErasedBehind(m)
    BY Image DEF FlashInv
  <2> QED
    BY <2>1, EndFound, Reading
<1>2. n \in 1 .. PartitionSize - 4 /\ n \in Nat \ {0}
  BY <1>1, FlashAssumption DEF Ends
<1> HIDE DEF n
<1>3. p \in Strings(n)
  BY <1>1, <1>2, Deciphered
<1>4. Decrypt(s) = depad_string_pkcs7(p) /\ Decrypt(s) = Overrun
  BY DEF Decrypt, n
<1> HIDE DEF s
<1>5. n % BlockSize = 0 /\ p[n] \in n + 1 .. BlockSize + 1
  <2> HIDE DEF p
  <2>1. depad_string_pkcs7(p) \notin Seq(Symbols)
    BY <1>4, OverrunAssumption
  <2> QED
    BY <1>2, <1>3, <2>1, Depadded
<1>6. n = BlockSize /\ p[n] = BlockSize + 1
  <2> HIDE DEF p
  <2>1. n <= BlockSize
    BY <1>2, <1>5, FlashAssumption
  <2>2. ~(n < BlockSize)
    <3> SUFFICES ASSUME n < BlockSize
                 PROVE  FALSE
      OBVIOUS
    <3>1. n \in 0 .. BlockSize - 1 /\ (0 * BlockSize) + n = n
      BY <1>2, FlashAssumption
    <3>2. ((0 * BlockSize) + n) % BlockSize = n
      BY <3>1, Quotient
    <3> QED
      BY <1>2, <1>5, <3>1, <3>2
  <2> QED
    BY <1>2, <1>5, <2>1, <2>2, FlashAssumption
<1>7. PICK w \in 0 .. m : ErasedBehind(w) /\ \A i \in 1 .. w : flash[i] = e[i]
  BY DEF FlashInv, SomeWritten
<1>8. w >= BlockSize /\ w <= m /\ m \in Nat /\ e \in Strings(m) /\ m <= PartitionSize
  <2>1. StoredLength >= BlockSize
    BY <1>6, FlashAssumption DEF n
  <2>2. w >= BlockSize
    BY <1>7, <2>1, ShortIsSeen
  <2> QED
    BY <1>7, <2>2, Image DEF FlashInv
<1>9. \A i \in 1 .. BlockSize : s[i] = e[i]
  <2>1. /\ flash \in [1 .. PartitionSize -> Symbols]
        /\ s = SubSeq(flash, 1, BlockSize)
    BY <1>6 DEF FlashInv, s
  <2>2. 1 .. BlockSize \subseteq 1 .. w /\ 1 .. BlockSize \subseteq 1 .. PartitionSize
    BY <1>8, FlashAssumption
  <2>3. \A i \in 1 .. BlockSize : flash[i] \in Symbols
    BY <2>1, <2>2
  <2>4. 1 \in Int /\ BlockSize \in Int /\ 1 <= BlockSize /\ BlockSize - 1 + 1 = BlockSize
        /\ \A i \in 1 .. BlockSize : 1 + i - 1 = i
    BY FlashAssumption
  <2>5. \A i \in 1 .. BlockSize : s[i] = flash[i]
    BY <2>1, <2>3, <2>4, SubSeqProperties
  <2> QED
    BY <1>7, <2>2, <2>5
<1>10. PICK l \in 1 .. MaxData : data \in [1 .. l -> Bytes]
  BY DEF FlashInv, Datas
<1> DEFINE c == pad_string_pkcs7(data)
<1>11. /\ l \in Nat \ {0} /\ data \in Strings(l) /\ Len(data) = l /\ m = PaddedLength(l)
       /\ c \in Strings(m) /\ m % BlockSize = 0 /\ InBlocks(TRUE, e) = c
       /\ \A i \in 1 .. l : c[i] = data[i]
       /\ \A i \in l + 1 .. m : c[i] = PaddingSize(l)
  <2>1. /\ l \in Nat \ {0} /\ data \in Strings(l) /\ Len(data) = l /\ m = PaddedLength(l)
    BY <1>10, Stored DEF StoredSize
  <2>2. /\ c \in Strings(m) /\ m % BlockSize = 0
        /\ \A i \in 1 .. l : c[i] = data[i]
        /\ \A i \in l + 1 .. m : c[i] = PaddingSize(l)
    BY <2>1, LengthPadded, Padded
  <2>3. InBlocks(TRUE, e) = c
    BY <1>8, <2>2, RoundTrip DEF Encrypt
  <2> QED
    BY <2>1, <2>2, <2>3
<1>12. c[BlockSize] = BlockSize + 1
  <2>1. m >= BlockSize /\ s \in Strings(BlockSize)
    BY <1>1, <1>6, <1>8, FlashAssumption
  <2>2. p[BlockSize] = InBlocks(TRUE, e)[BlockSize]
    <3> HIDE DEF e, m
    <3> QED
      BY <1>8, <1>9, <2>1, FirstBlock
  <2> QED
    BY <1>6, <1>11, <2>2
<1> HIDE DEF c, e, m, p
<1>13. l >= BlockSize
  <2> SUFFICES ASSUME l < BlockSize
               PROVE  FALSE
    BY FlashAssumption
  <2>1. l \in 0 .. BlockSize - 1 /\ (0 * BlockSize) + l = l /\ l # 0
    BY <1>11, FlashAssumption
  <2>2. ((0 * BlockSize) + l) % BlockSize = l
    BY <2>1, Quotient
  <2>3. PaddingSize(l) \in 1 .. BlockSize - 1
    BY <1>11, <2>1, <2>2, LengthPadded
  <2>4. BlockSize \in l + 1 .. m
    BY <1>8, <1>11, FlashAssumption
  <2>5. c[BlockSize] = PaddingSize(l)
    BY <1>11, <2>4
  <2> QED
    BY <1>12, <2>3, <2>5, FlashAssumption
<1>14. data[BlockSize] = BlockSize + 1
  <2>1. BlockSize \in 1 .. l
    BY <1>13, FlashAssumption
  <2> QED
    BY <1>11, <1>12, <2>1
<1>15. pc = "written" /\ EndIsVisible => l = BlockSize
  <2> SUFFICES ASSUME pc = "written", EndIsVisible
               PROVE  l = BlockSize
    OBVIOUS
  <2>1. m = BlockSize
    BY <1>6, EndSeen DEF n, m
  <2>2. PaddedLength(l) \in l .. l + BlockSize - 1
    BY <1>11, LengthPadded
  <2> DEFINE padded == PaddedLength(l)
  <2>3. padded = BlockSize /\ padded \in l .. l + BlockSize - 1
    BY <1>11, <2>1, <2>2
  <2> HIDE DEF padded
  <2> QED
    BY <1>11, <1>13, <2>3, FlashAssumption
<1> QED
  BY <1>11, <1>13, <1>14, <1>15

-----------------------------------------------------------------------------
(* Every step preserves the invariant.                                       *)

LEMMA NothingWritten ==
    ASSUME data \in Datas, flash = Erased
    PROVE  SomeWritten
<1>1. StoredSize \in Nat
  BY Image
<1>2. ErasedBehind(0)
  BY ErasedTyped DEF ErasedBehind
<1>3. 0 \in 0 .. StoredSize /\ \A i \in 1 .. 0 : flash[i] = Encrypt(data)[i]
  BY <1>1
<1> QED
  BY <1>2, <1>3, Zenon DEF SomeWritten

LEMMA InvInit == FlashInit => FlashInv
<1> SUFFICES ASSUME FlashInit
             PROVE  FlashInv
  OBVIOUS
<1>1. flash \in [1 .. PartitionSize -> Symbols] /\ ErasedBehind(StoredSize)
  BY ErasedTyped DEF FlashInit, ErasedBehind
<1>2. Bounded(<< >>)
  BY NothingIsBounded
<1>3. SomeWritten
  BY NothingWritten DEF FlashInit
<1> QED
  BY <1>1, <1>2, <1>3 DEF FlashInit, FlashInv, SafeDataReadBack

LEMMA EraseStep == FlashInv /\ Erase => FlashInv'
<1> SUFFICES ASSUME FlashInv, Erase
             PROVE  FlashInv'
  OBVIOUS
<1>1. flash' \in [1 .. PartitionSize -> Symbols] /\ ErasedBehind(StoredSize)'
  BY ErasedTyped DEF Erase, ErasedBehind, StoredSize
<1>2. Bounded(<< >>)
  BY NothingIsBounded
<1>3. flash' = Erased /\ pc' = "erased" /\ read' = << >> /\ data' \in Datas
  BY DEF Erase, FlashInv
<1>4. pc' # "written"
  BY <1>3
<1>5. SomeWritten'
  <2>1. data \in Datas /\ flash' = Erased /\ data' = data
    BY <1>3 DEF Erase, FlashInv
  <2>2. StoredSize' \in Nat
    <3>1. StoredSize \in Nat /\ StoredSize' = StoredSize
      BY <2>1, Image DEF StoredSize
    <3> QED
      BY <3>1
  <2>3. ErasedBehind(0)'
    BY <2>1, ErasedTyped DEF ErasedBehind
  <2>4. 0 \in 0 .. StoredSize' /\ \A i \in 1 .. 0 : flash'[i] = Encrypt(data')[i]
    BY <2>2
  <2> QED
    BY <2>3, <2>4, Zenon DEF SomeWritten
<1> QED
  BY <1>1, <1>2, <1>3, <1>4, <1>5 DEF FlashInv, SafeDataReadBack, Erased

LEMMA WriteFlashStep == FlashInv /\ WriteFlash => FlashInv'
<1> SUFFICES ASSUME FlashInv, WriteFlash
             PROVE  FlashInv'
  OBVIOUS
<1>1. data \in Datas /\ flash = Erased /\ read = << >>
  BY DEF FlashInv, WriteFlash
<1>2. StoredSize \in 1 .. PartitionSize /\ StoredSize \in 0 .. StoredSize
  BY <1>1, Image, FlashAssumption
<1>3. flash' = Written(StoredSize) /\ pc' = "written" /\ data' = data /\ read' = read
  BY DEF WriteFlash, StoredSize
<1>4. /\ Written(StoredSize) \in [1 .. PartitionSize -> Symbols]
      /\ \A i \in 1 .. PartitionSize : i > StoredSize => Written(StoredSize)[i] = 255
      /\ \A i \in 1 .. StoredSize : Written(StoredSize)[i] = Encrypt(data)[i]
  BY <1>1, <1>2, Writing
<1>5. StoredSize' = StoredSize /\ Encrypt(data') = Encrypt(data)
  BY <1>3 DEF StoredSize
<1>6. ErasedBehind(StoredSize)'
  BY <1>3, <1>4, <1>5 DEF ErasedBehind
<1>7. \A i \in 1 .. StoredSize' : flash'[i] = Encrypt(data')[i]
  BY <1>3, <1>4, <1>5
<1>8. pc' # "erased" /\ pc' \in {"new", "erased", "written"}
  BY <1>3
<1>9. SafeDataReadBack'
  BY <1>1, <1>3 DEF SafeDataReadBack
<1>10. SomeWritten'
  <2>1. StoredSize' \in 0 .. StoredSize'
    BY <1>2, <1>5
  <2> QED
    BY <1>6, <1>7, <2>1 DEF SomeWritten
<1> QED
  BY <1>1, <1>3, <1>4, <1>6, <1>7, <1>8, <1>9, <1>10 DEF FlashInv

LEMMA WriteCutShortStep == FlashInv /\ WriteCutShort => FlashInv'
<1> SUFFICES ASSUME FlashInv, WriteCutShort
             PROVE  FlashInv'
  OBVIOUS
<1>1. data \in Datas /\ flash = Erased /\ read = << >>
  BY DEF FlashInv, WriteCutShort
<1>2. StoredSize \in 1 .. PartitionSize
  BY <1>1, Image
<1>3. PICK n \in 0 .. StoredSize - 1 : flash' = Written(n)
  BY DEF WriteCutShort, StoredSize
<1>4. pc' = "new" /\ data' = data /\ read' = read
  BY DEF WriteCutShort
<1>5. n \in 0 .. StoredSize /\ \A i \in 1 .. PartitionSize : i > StoredSize => i > n
  BY <1>2, FlashAssumption
<1>6. /\ Written(n) \in [1 .. PartitionSize -> Symbols]
      /\ \A i \in 1 .. PartitionSize : i > n => Written(n)[i] = 255
      /\ \A i \in 1 .. n : Written(n)[i] = Encrypt(data)[i]
  BY <1>1, <1>5, Writing
<1>7. StoredSize' = StoredSize
  BY <1>4 DEF StoredSize
<1>8. ErasedBehind(StoredSize)'
  BY <1>3, <1>5, <1>6, <1>7 DEF ErasedBehind
<1>9. pc' # "erased" /\ pc' # "written" /\ pc' \in {"new", "erased", "written"}
  BY <1>4
<1>10. SomeWritten'
  <2>1. Encrypt(data') = Encrypt(data) /\ n \in 0 .. StoredSize'
    BY <1>4, <1>5, <1>7
  <2>2. \A i \in 1 .. n : flash'[i] = Encrypt(data')[i]
    BY <1>3, <1>6, <2>1
  <2>3. ErasedBehind(n)'
    BY <1>3, <1>6 DEF ErasedBehind
  <2> QED
    BY <2>1, <2>2, <2>3 DEF SomeWritten
<1> QED
  BY <1>1, <1>3, <1>4, <1>6, <1>8, <1>9, <1>10 DEF FlashInv, SafeDataReadBack

(* The two ways a session's read ends leave the partition alone.             *)
LEMMA ReadStep ==
    ASSUME FlashInv, UNCHANGED <<data, flash, pc>>,
           Bounded(read'),
           pc # "erased" \/ read' = read,
           SafeDataReadBack'
    PROVE  FlashInv'
<1>1. ErasedBehind(StoredSize)' <=> ErasedBehind(StoredSize)
  BY DEF ErasedBehind, StoredSize
<1>2. StoredSize' = StoredSize /\ Encrypt(data') = Encrypt(data)
  BY DEF StoredSize
<1>3. SomeWritten' <=> SomeWritten
  BY <1>2 DEF SomeWritten, ErasedBehind
<1> QED
  BY <1>1, <1>2, <1>3 DEF FlashInv

LEMMA ReaderStep == FlashInv /\ flash_reader => FlashInv'
<1> SUFFICES ASSUME FlashInv, flash_reader
             PROVE  FlashInv'
  OBVIOUS
<1> DEFINE got == Decrypt(SubSeq(flash, 1, StoredLength))
<1>1. UNCHANGED <<data, flash, pc>> /\ pc # "erased" /\ read' = got
  BY Reading DEF flash_reader
<1>2. Bounded(got)
  BY Reading
<1>3. pc = "written" /\ PaddingIsSafe /\ EndIsVisible => got = data
  BY ReadingBack
<1> HIDE DEF got
<1>4. (PaddingIsSafe' <=> PaddingIsSafe) /\ (EndIsVisible' <=> EndIsVisible)
  BY <1>1 DEF PaddingIsSafe, EndIsVisible
<1>5. SafeDataReadBack'
  BY <1>1, <1>3, <1>4 DEF SafeDataReadBack
<1> QED
  BY <1>1, <1>2, <1>5, ReadStep

LEMMA ReadFailsStep == FlashInv /\ ReadFails => FlashInv'
<1> SUFFICES ASSUME FlashInv, ReadFails
             PROVE  FlashInv'
  OBVIOUS
<1>1. UNCHANGED <<data, flash, pc>> /\ pc # "erased" /\ read' = << >>
  BY DEF ReadFails
<1>2. Bounded(<< >>)
  BY NothingIsBounded
<1>3. SafeDataReadBack'
  BY <1>1 DEF SafeDataReadBack
<1> QED
  BY <1>1, <1>2, <1>3, ReadStep

LEMMA StutterStep == FlashInv /\ UNCHANGED flash_vars => FlashInv'
<1> SUFFICES ASSUME FlashInv, UNCHANGED flash_vars
             PROVE  FlashInv'
  OBVIOUS
<1>1. UNCHANGED <<data, flash, pc>> /\ read' = read
  BY DEF flash_vars
<1>2. (PaddingIsSafe' <=> PaddingIsSafe) /\ (EndIsVisible' <=> EndIsVisible)
  BY <1>1 DEF PaddingIsSafe, EndIsVisible
<1>3. SafeDataReadBack'
  BY <1>1, <1>2 DEF SafeDataReadBack, FlashInv
<1>4. Bounded(read')
  BY <1>1 DEF FlashInv
<1> QED
  BY <1>1, <1>3, <1>4, ReadStep

LEMMA InvNext == FlashInv /\ [FlashNext]_flash_vars => FlashInv'
BY EraseStep, WriteFlashStep, WriteCutShortStep, ReaderStep, ReadFailsStep, StutterStep
   DEF FlashNext

(* The second invariant: what overran.                                       *)
LEMMA OverrunStep ==
    ASSUME BlockSize > 1, FlashInv, OverrunIsKnown, [FlashNext]_flash_vars
    PROVE  OverrunIsKnown'
<1>1. << >> # Overrun
  BY OverrunAssumption, EmptySeq
<1>2. CASE Erase
  BY <1>1, <1>2 DEF Erase, OverrunIsKnown
<1>3. CASE WriteFlash \/ WriteCutShort
  <2>1. read' = << >>
    BY <1>3 DEF WriteFlash, WriteCutShort, FlashInv
  <2> QED
    BY <1>1, <2>1 DEF OverrunIsKnown
<1>4. CASE flash_reader
  <2>1. UNCHANGED <<data, flash, pc>> /\ read' = Decrypt(SubSeq(flash, 1, StoredLength))
    BY <1>4, Reading DEF flash_reader
  <2>2. EndIsVisible' <=> EndIsVisible
    BY <2>1 DEF EndIsVisible
  <2>3. read' = Overrun =>
          /\ Len(data) >= BlockSize /\ data[BlockSize] = BlockSize + 1
          /\ pc = "written" /\ EndIsVisible => Len(data) = BlockSize
    BY <2>1, Overrunning
  <2> QED
    BY <2>1, <2>2, <2>3 DEF OverrunIsKnown
<1>5. CASE ReadFails
  BY <1>1, <1>5 DEF ReadFails, OverrunIsKnown
<1>6. CASE UNCHANGED flash_vars
  <2>1. EndIsVisible' <=> EndIsVisible
    BY <1>6 DEF flash_vars, EndIsVisible
  <2> QED
    BY <1>6, <2>1 DEF flash_vars, OverrunIsKnown
<1> QED
  BY <1>2, <1>3, <1>4, <1>5, <1>6 DEF FlashNext

(* At any time, after an interrupted write too, the partition holds bytes,   *)
(* and a session is given no more of them than the longest data and a        *)
(* padding, or its length wraps (flash_writer and flash_reader,              *)
(* flash_write_RSA_key.c:163-291).                                           *)
THEOREM FlashWellTyped == FlashSpec => []FlashTypeOK
<1>1. FlashSpec => []FlashInv
  BY InvInit, InvNext, PTL DEF FlashSpec
<1>2. FlashInv => FlashTypeOK
  BY InvImplies
<1> QED
  BY <1>1, <1>2, PTL

(* For any cipher that deciphers what it enciphered, any block size, and any *)
(* data that ends unlike a padding and whose image shows its end, a session  *)
(* that reads anything reads the data that was stored: padding, encryption   *)
(* and the search for the end are undone exactly, whatever interrupted       *)
(* earlier attempts to store (flash_writer and flash_reader,                 *)
(* flash_write_RSA_key.c:163-291).                                           *)
THEOREM StoredKeyReadBack == FlashSpec => []SafeDataReadBack
<1>1. FlashSpec => []FlashInv
  BY InvInit, InvNext, PTL DEF FlashSpec
<1>2. FlashInv => SafeDataReadBack
  BY InvImplies
<1> QED
  BY <1>1, <1>2, PTL

(* For any cipher and blocks of more than a byte, flash_reader's copy, which *)
(* trusts that length, runs away only for data whose first block ends in     *)
(* BlockSize + 1; and where the whole image was written and shows its end,   *)
(* only for data of that one block (flash_write_RSA_key.c:130, 135 and 288). *)
THEOREM OverrunsNeedAByte == BlockSize > 1 => (FlashSpec => []OverrunIsKnown)
<1> SUFFICES ASSUME BlockSize > 1
             PROVE  FlashSpec => []OverrunIsKnown
  OBVIOUS
<1>1. FlashInit => FlashInv /\ OverrunIsKnown
  <2>1. << >> # Overrun
    BY OverrunAssumption, EmptySeq
  <2> QED
    BY <2>1, InvInit DEF FlashInit, OverrunIsKnown
<1>2. FlashInv /\ OverrunIsKnown /\ [FlashNext]_flash_vars => (FlashInv /\ OverrunIsKnown)'
  BY InvNext, OverrunStep
<1> QED
  BY <1>1, <1>2, PTL DEF FlashSpec

=============================================================================
