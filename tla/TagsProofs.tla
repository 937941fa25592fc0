----------------------------- MODULE TagsProofs -----------------------------
(* Theorems about Peer.tla, for peers' data of any content and capacities of *)
(* any size, and about Tags.tla, whose steps are those of Peer.tla or of     *)
(* Ndef.tla.                                                                 *)
EXTENDS Tags, NdefProofs

-----------------------------------------------------------------------------
(* A sum of integers is an integer.  Induction over the length, by the least *)
(* one for which it would fail.                                              *)

LEMMA SumIsInt ==
    ASSUME NEW p \in Seq(Int)
    PROVE  Sum(p) \in Int
<1> DEFINE L == Len(p)
           IsUpTo(f) == f = [n \in 0 .. L |-> IF n = 0 THEN 0 ELSE f[n - 1] + p[n]]
           Sums(f, k) == f[0] = 0 /\ \A n \in 1 .. k : f[n] = f[n - 1] + p[n]
           Bad == {k \in 0 .. L : ~(\E f \in [0 .. L -> Int] : Sums(f, k))}
           g == CHOOSE f : IsUpTo(f)
<1>1. L \in Nat /\ \A n \in 1 .. L : p[n] \in Int
  BY LenProperties, ElementOfSeq
<1> HIDE DEF L
<1>2. Bad = {}
  <2> SUFFICES ASSUME Bad # {}
               PROVE  FALSE
    OBVIOUS
  <2>1. PICK k \in Bad : \A j \in Bad : k <= j
    <3>1. Bad \subseteq Nat
      BY <1>1
    <3> HIDE DEF Bad
    <3> QED
      BY <3>1, LeastNumber
  <2>2. k \in 0 .. L /\ ~(\E f \in [0 .. L -> Int] : Sums(f, k))
    BY <2>1
  <2>3. CASE k = 0
    <3> DEFINE z == [n \in 0 .. L |-> 0]
    <3>1. z \in [0 .. L -> Int] /\ Sums(z, 0)
      BY <1>1
    <3> HIDE DEF z, Sums
    <3> QED
      BY <2>2, <2>3, <3>1
  <2>4. CASE k # 0
    <3>1. k - 1 \in 0 .. L /\ k \in 1 .. L /\ k - 1 \notin Bad
      <4>1. k - 1 \in 0 .. L /\ k \in 1 .. L /\ ~(k <= k - 1)
        BY <1>1, <2>2, <2>4
      <4> HIDE DEF Bad
      <4> QED
        BY <2>1, <4>1
    <3>2. PICK f \in [0 .. L -> Int] : Sums(f, k - 1)
      <4> HIDE DEF Sums
      <4> QED
        BY <3>1
    <3> DEFINE h == [f EXCEPT ![k] = f[k - 1] + p[k]]
    <3>3. h \in [0 .. L -> Int]
      BY <1>1, <3>1
    <3>4. h[k] = f[k - 1] + p[k] /\ \A n \in 0 .. k - 1 : h[n] = f[n]
      BY <1>1, <3>1
    <3> HIDE DEF h
    <3>5. Sums(h, k)
      <4>1. h[0] = 0
        BY <3>1, <3>2, <3>4
      <4>2. ASSUME NEW n \in 1 .. k
            PROVE  h[n] = h[n - 1] + p[n]
        <5>1. CASE n = k
          BY <3>1, <3>4, <5>1
        <5>2. CASE n # k
          <6>1. n \in 1 .. k - 1 /\ n \in 0 .. k - 1 /\ n - 1 \in 0 .. k - 1
            BY <3>1, <5>2
          <6> QED
            BY <3>2, <3>4, <6>1
        <5> QED
          BY <5>1, <5>2
      <4> QED
        BY <4>1, <4>2
    <3> HIDE DEF Sums
    <3> QED
      BY <2>2, <3>3, <3>5
  <2> QED
    BY <2>3, <2>4
<1>3. PICK s \in [0 .. L -> Int] : Sums(s, L)
  <2>1. L \in 0 .. L
    BY <1>1
  <2> HIDE DEF Sums
  <2> QED
    BY <1>2, <2>1
<1>4. IsUpTo(s)
  <2>1. \A n \in 0 .. L : s[n] = IF n = 0 THEN 0 ELSE s[n - 1] + p[n]
    BY <1>1, <1>3
  <2> QED
    BY <2>1
<1>5. IsUpTo(g)
  <2> HIDE DEF IsUpTo
  <2> QED
    BY <1>4
<1> HIDE DEF g
<1>6. \A n \in 0 .. L : g[n] = IF n = 0 THEN 0 ELSE g[n - 1] + p[n]
  BY <1>5
<1> DEFINE Odd == {n \in 0 .. L : g[n] \notin Int}
<1>7. Odd = {}
  <2> SUFFICES ASSUME Odd # {}
               PROVE  FALSE
    OBVIOUS
  <2>1. PICK k \in Odd : \A j \in Odd : k <= j
    <3>1. Odd \subseteq Nat
      BY <1>1
    <3> HIDE DEF Odd
    <3> QED
      BY <3>1, LeastNumber
  <2>2. k \in 0 .. L /\ g[k] \notin Int
    BY <2>1
  <2>3. k # 0
    BY <1>6, <2>2
  <2>4. k - 1 \in 0 .. L /\ k - 1 \notin Odd /\ k \in 1 .. L
    BY <1>1, <2>1, <2>2, <2>3
  <2>5. g[k - 1] \in Int /\ g[k] = g[k - 1] + p[k]
    BY <1>6, <2>2, <2>3, <2>4
  <2> QED
    BY <1>1, <2>2, <2>4, <2>5
<1>8. g[L] \in Int
  BY <1>1, <1>7
<1>9. Sum(p) = g[L]
  BY DEF Sum, g, L
<1> QED
  BY <1>8, <1>9

-----------------------------------------------------------------------------
(* Frames.                                                                   *)

LEMMA BytesInSeq == \A n \in Nat : \A s \in Bytes(n) : s \in Seq(Byte) /\ Len(s) = n
BY DEF Bytes

LEMMA BytesAreInts ==
    ASSUME NEW n \in Nat, NEW s \in Bytes(n)
    PROVE  s \in Seq(Int)
<1>1. Len(s) = n /\ \A i \in 1 .. n : s[i] \in Byte
  BY ElementOfSeq DEF Bytes
<1>2. Byte \subseteq Int
  BY DEF Byte
<1>3. s \in [1 .. n -> Int]
  BY <1>1, <1>2, BytesAreFunctions
<1> QED
  BY <1>3, SeqDef

Framed(z, h, p, e) == ((z \o h) \o p) \o e

LEMMA FourParts ==
    ASSUME NEW k \in Nat, NEW n \in Nat,
           NEW z \in Bytes(k), NEW h \in Bytes(3), NEW p \in Bytes(n), NEW e \in Bytes(2)
    PROVE  /\ Framed(z, h, p, e) \in Bytes(k + 5 + n)
           /\ \A i \in 1 .. k : Framed(z, h, p, e)[i] = z[i]
           /\ \A i \in 1 .. 3 : Framed(z, h, p, e)[k + i] = h[i]
           /\ \A i \in 1 .. n : Framed(z, h, p, e)[k + 3 + i] = p[i]
<1> DEFINE a == z \o h
           b == a \o p
           f == b \o e
<1>1. 3 \in Nat /\ 2 \in Nat /\ k + 3 \in Nat /\ k + 3 + n \in Nat
  OBVIOUS
<1>2. a \in Bytes(k + 3)
  BY ConcatBytes
<1>3. \A i \in 1 .. k : a[i] = z[i]
  BY <1>1, ConcatLeft, Zenon
<1>4. \A i \in 1 .. 3 : a[k + i] = h[i]
  BY <1>1, ConcatRight, Zenon
<1> HIDE DEF a
<1>5. b \in Bytes(k + 3 + n)
  BY <1>1, <1>2, ConcatBytes, Zenon
<1>6. \A i \in 1 .. k + 3 : b[i] = a[i]
  BY <1>1, <1>2, ConcatLeft, Zenon
<1>7. \A i \in 1 .. n : b[(k + 3) + i] = p[i]
  BY <1>1, <1>2, ConcatRight, Zenon
<1> HIDE DEF b
<1>8. f \in Bytes((k + 3 + n) + 2)
  BY <1>1, <1>5, ConcatBytes, Zenon
<1>9. \A i \in 1 .. k + 3 + n : f[i] = b[i]
  BY <1>1, <1>5, ConcatLeft, Zenon
<1> HIDE DEF f
<1>10. ASSUME NEW i \in 1 .. k
       PROVE  f[i] = z[i]
  <2>1. i \in 1 .. k + 3 /\ i \in 1 .. k + 3 + n
    OBVIOUS
  <2> QED
    BY <1>3, <1>6, <1>9, <2>1
<1>11. ASSUME NEW i \in 1 .. 3
       PROVE  f[k + i] = h[i]
  <2>1. k + i \in 1 .. k + 3 /\ k + i \in 1 .. k + 3 + n
    OBVIOUS
  <2> QED
    BY <1>4, <1>6, <1>9, <2>1
<1>12. ASSUME NEW i \in 1 .. n
       PROVE  f[k + 3 + i] = p[i]
  <2>1. k + 3 + i \in 1 .. k + 3 + n /\ (k + 3) + i = k + 3 + i
    OBVIOUS
  <2> QED
    BY <1>7, <1>9, <2>1
<1>13. f \in Bytes(k + 5 + n)
  <2>1. (k + 3 + n) + 2 = k + 5 + n
    OBVIOUS
  <2> QED
    BY <1>8, <2>1, Zenon
<1> QED
  BY <1>10, <1>11, <1>12, <1>13 DEF a, b, f, Framed

LEMMA BufferIsByte ==
    ASSUME NEW f \in Seq(Byte), NEW i \in Nat
    PROVE  Buffer(f, i) \in Byte
<1>1. CASE i < Len(f)
  <2>1. i + 1 \in 1 .. Len(f)
    BY <1>1
  <2>2. f[i + 1] \in Byte
    BY <2>1, ElementOfSeq
  <2> QED
    BY <1>1, <2>2 DEF Buffer
<1>2. CASE ~(i < Len(f))
  BY <1>2 DEF Buffer, Byte
<1> QED
  BY <1>1, <1>2

(* f is the response frame of payload p, of n bytes.                         *)
IsResponse(f, n, p) ==
    /\ f \in Bytes(lead + 5 + n)
    /\ \A i \in 1 .. lead : f[i] = 0
    /\ f[lead + 1] = 255
    /\ f[lead + 2] = n
    /\ f[lead + 3] = (256 - n) % 256
    /\ \A i \in 1 .. n : f[lead + 3 + i] = p[i]

LEMMA ResponseParts ==
    ASSUME lead \in Nat, NEW n \in 0 .. 255, NEW p \in Bytes(n)
    PROVE  IsResponse(Response(p), n, p)
<1> DEFINE f == Response(p)
           z == Nought(lead)
           h == <<255, n, (256 - n) % 256>>
           e == <<(256 - (Sum(p) % 256)) % 256, 0>>
<1>1. z \in Bytes(lead) /\ \A i \in 1 .. lead : z[i] = 0
  <2>1. z \in [1 .. lead -> Byte]
    BY DEF Nought, Byte
  <2> QED
    BY <2>1, FunctionsAreBytes DEF Nought
<1>2. h \in Bytes(3) /\ h[1] = 255 /\ h[2] = n /\ h[3] = (256 - n) % 256
  <2>1. (256 - n) % 256 \in Byte /\ 255 \in Byte /\ n \in Byte
    BY DEF Byte
  <2> QED
    BY <2>1 DEF Bytes
<1>3. e \in Bytes(2)
  <2>1. Sum(p) \in Int
    BY BytesAreInts, SumIsInt
  <2>2. (256 - (Sum(p) % 256)) % 256 \in Byte /\ 0 \in Byte
    BY <2>1 DEF Byte
  <2> QED
    BY <2>2 DEF Bytes
<1>4. f = Framed(z, h, p, e)
  BY DEF Response, Framed, Bytes
<1> HIDE DEF f, z, h, e
<1>5. z \in Bytes(lead) /\ h \in Bytes(3) /\ e \in Bytes(2) /\ n \in Nat
  BY <1>1, <1>2, <1>3
<1>6. f \in Bytes(lead + 5 + n)
  BY <1>4, <1>5, FourParts
<1>7. \A i \in 1 .. lead : Framed(z, h, p, e)[i] = z[i]
  BY <1>5, FourParts, Zenon
<1>8. \A i \in 1 .. 3 : Framed(z, h, p, e)[lead + i] = h[i]
  BY <1>5, FourParts, Zenon
<1>9. \A i \in 1 .. n : Framed(z, h, p, e)[lead + 3 + i] = p[i]
  BY <1>5, FourParts, Zenon
<1>10. f[lead + 1] = 255 /\ f[lead + 2] = n /\ f[lead + 3] = (256 - n) % 256
  BY <1>2, <1>4, <1>8
<1>11. \A i \in 1 .. lead : f[i] = 0
  BY <1>1, <1>4, <1>7
<1> QED
  BY <1>4, <1>6, <1>9, <1>10, <1>11 DEF f, IsResponse

(* What pn532_packetbuffer holds when such a frame has been read.            *)
ReadsAs(f, n, p) ==
    /\ f \in Bytes(lead + 5 + n)
    /\ Buffer(f, 0) = 0
    /\ lead = 2 => Buffer(f, 1) = 0
    /\ Buffer(f, lead) = 255
    /\ Buffer(f, lead + 1) = n
    /\ Buffer(f, lead + 2) = (256 - n) % 256
    /\ \A j \in 1 .. n : Buffer(f, lead + 2 + j) = p[j]

LEMMA ResponseAt ==
    ASSUME lead \in {1, 2}, NEW n \in 0 .. 255, NEW p \in Bytes(n)
    PROVE  ReadsAs(Response(p), n, p)
<1> DEFINE f == Response(p)
<1>1. IsResponse(f, n, p)
  BY ResponseParts
<1> HIDE DEF f
<1> USE DEF IsResponse
<1>2. Len(f) = lead + 5 + n
  BY <1>1 DEF Bytes
<1>3. \A j \in 1 .. n : Buffer(f, lead + 2 + j) = p[j]
  <2> SUFFICES ASSUME NEW j \in 1 .. n
               PROVE  Buffer(f, lead + 2 + j) = p[j]
    OBVIOUS
  <2>1. lead + 2 + j < Len(f) /\ (lead + 2 + j) + 1 = lead + 3 + j
    BY <1>2
  <2> QED
    BY <1>1, <2>1 DEF Buffer
<1>4. /\ Buffer(f, 0) = f[1] /\ Buffer(f, 1) = f[2] /\ Buffer(f, lead) = f[lead + 1]
      /\ Buffer(f, lead + 1) = f[lead + 2] /\ Buffer(f, lead + 2) = f[lead + 3]
  BY <1>2 DEF Buffer
<1>5. f[1] = 0 /\ (lead = 2 => f[2] = 0)
  BY <1>1
<1> QED
  BY <1>1, <1>3, <1>4, <1>5 DEF f, ReadsAs

-----------------------------------------------------------------------------
(* What the calls find in the frames they take.                              *)

LEMMA CodeIsByte == \A fn \in Functions : Code(fn) \in Byte
BY DEF Functions, Lists, Pages, Simple, Code, Byte

(* f is the response to fn, with x behind the code, k bytes.                 *)
Carries(f, fn, k, x) ==
    /\ f \in Seq(Byte) /\ Len(f) = lead + 7 + k
    /\ lead = 1 => Buffer(f, 1) = 255 /\ Buffer(f, 5) = Code(fn)
    /\ lead = 2 => /\ Buffer(f, 0) = 0 /\ Buffer(f, 1) = 0 /\ Buffer(f, 2) = 255
                   /\ Buffer(f, 3) = 2 + k /\ Buffer(f, 4) = (256 - (2 + k)) % 256
                   /\ Buffer(f, 5) = 213 /\ Buffer(f, 6) = Code(fn)
                   /\ \A j \in 1 .. k : Buffer(f, 6 + j) = x[j]

IsPayload(p, fn, k, x) ==
    /\ p \in Bytes(2 + k)
    /\ p[1] = 213 /\ p[2] = Code(fn)
    /\ \A j \in 1 .. k : p[2 + j] = x[j]

LEMMA PayloadAt ==
    ASSUME NEW fn \in Functions, NEW k \in Nat, NEW x \in Bytes(k)
    PROVE  IsPayload(<<213, Code(fn)>> \o x, fn, k, x)
<1> DEFINE c == <<213, Code(fn)>>
<1>1. c \in Bytes(2) /\ c[1] = 213 /\ c[2] = Code(fn)
  <2>1. 213 \in Byte /\ Code(fn) \in Byte
    BY CodeIsByte DEF Byte
  <2> QED
    BY <2>1 DEF Bytes
<1>2. 2 \in Nat /\ k \in Nat /\ 1 \in 1 .. 2 /\ 2 \in 1 .. 2
  OBVIOUS
<1>3. c \in Bytes(2)
  BY <1>1
<1> HIDE DEF c
<1>4. c \o x \in Bytes(2 + k)
  BY <1>2, <1>3, ConcatBytes, Zenon
<1>5. (c \o x)[1] = c[1]
  BY <1>2, <1>3, ConcatLeft, Zenon
<1>6. (c \o x)[2] = c[2]
  BY <1>2, <1>3, ConcatLeft, Zenon
<1>7. \A j \in 1 .. k : (c \o x)[2 + j] = x[j]
  BY <1>2, <1>3, ConcatRight, Zenon
<1> QED
  BY <1>1, <1>4, <1>5, <1>6, <1>7 DEF c, IsPayload

LEMMA ResponseCarries ==
    ASSUME lead \in {1, 2}, NEW fn \in Functions, NEW k \in 0 .. 253, NEW x \in Bytes(k)
    PROVE  Carries(Response(<<213, Code(fn)>> \o x), fn, k, x)
<1> DEFINE p == <<213, Code(fn)>> \o x
           f == Response(p)
           n == 2 + k
<1>1. p \in Bytes(n) /\ p[1] = 213 /\ p[2] = Code(fn) /\ \A j \in 1 .. k : p[2 + j] = x[j]
  <2>1. IsPayload(p, fn, k, x)
    <3>1. k \in Nat
      OBVIOUS
    <3> QED
      BY <3>1, PayloadAt
  <2> HIDE DEF p
  <2> QED
    BY <2>1 DEF IsPayload
<1>2. n \in 0 .. 255
  OBVIOUS
<1> HIDE DEF p
<1> HIDE DEF n
<1>3. ReadsAs(f, n, p)
  BY <1>1, <1>2, ResponseAt
<1> USE DEF n, ReadsAs
<1> HIDE DEF f
<1>4. f \in Seq(Byte) /\ Len(f) = lead + 7 + k
  BY <1>3 DEF Bytes
<1>5. Buffer(f, lead + 3) = 213 /\ Buffer(f, lead + 4) = Code(fn)
  BY <1>1, <1>3
<1>6. ASSUME lead = 2, NEW j \in 1 .. k
      PROVE  Buffer(f, 6 + j) = x[j]
  <2>1. 2 + j \in 1 .. n /\ lead + 2 + (2 + j) = 6 + j
    BY <1>6
  <2> QED
    BY <1>1, <1>3, <2>1
<1>7. lead = 1 => Buffer(f, 1) = 255 /\ Buffer(f, 5) = Code(fn)
  BY <1>3, <1>5
<1>8. lead = 2 => /\ Buffer(f, 0) = 0 /\ Buffer(f, 1) = 0 /\ Buffer(f, 2) = 255
                  /\ Buffer(f, 3) = 2 + k /\ Buffer(f, 4) = (256 - (2 + k)) % 256
                  /\ Buffer(f, 5) = 213 /\ Buffer(f, 6) = Code(fn)
  BY <1>3, <1>5
<1> QED
  BY <1>4, <1>6, <1>7, <1>8 DEF Carries, p, f

LEMMA NoResponseAt ==
    /\ NoResponse \in Seq(Byte) /\ Len(NoResponse) = 1
    /\ \A i \in Nat : Buffer(NoResponse, i) = 255
BY DEF NoResponse, Buffer, Byte

LEMMA PayloadBytes ==
    ASSUME NEW d \in Seq(0 .. 255), NEW m \in Nat, Len(d) <= m
    PROVE  Len(d) \in 0 .. m /\ d \in Bytes(Len(d)) /\ d \in Seq(Byte)
<1>1. d \in Seq(Byte)
  BY DEF Byte
<1>2. d \in Bytes(Len(d))
  BY <1>1, Zenon DEF Bytes
<1>3. Len(d) \in 0 .. m
  <2> DEFINE n == Len(d)
  <2>1. n \in Nat /\ n <= m
    OBVIOUS
  <2> HIDE DEF n
  <2>2. n \in 0 .. m
    BY <2>1
  <2> QED
    BY <2>2 DEF n
<1> QED
  BY <1>1, <1>2, <1>3

LEMMA ResultCases ==
    ASSUME NEW fn
    PROVE  /\ fn \in Lists => Results(fn) = TargetIds
           /\ fn \in Pages => Results(fn) = {d \in Payloads : Len(d) = 16}
           /\ fn \notin Lists => Results(fn) \subseteq Payloads \cup {<< >>}
<1>1. CASE fn \in Lists
  BY <1>1 DEF Results, Lists, Pages
<1>2. CASE fn \in Pages
  BY <1>2 DEF Results, Lists, Pages
<1>3. CASE fn \in {"inDataExchange", "getDataTarget"}
  BY <1>3 DEF Results, Lists, Pages
<1>4. CASE fn \notin Lists \cup Pages \cup {"inDataExchange", "getDataTarget"}
  BY <1>4 DEF Results
<1> QED
  BY <1>1, <1>2, <1>3, <1>4

LEMMA ResultBytes ==
    ASSUME NEW fn \in Functions, NEW d \in Results(fn)
    PROVE  /\ Len(d) \in 0 .. 252 /\ d \in Bytes(Len(d)) /\ d \in Seq(Byte)
           /\ fn \in Lists => Len(d) \in 0 .. 10
           /\ fn \in Pages => Len(d) = 16
<1> DEFINE m == IF fn \in Lists THEN 10 ELSE 252
<1>1. d \in Seq(0 .. 255) /\ Len(d) <= m
  <2>1. CASE fn \in Lists
    <3>1. d \in TargetIds
      BY <2>1, ResultCases
    <3> QED
      BY <2>1, <3>1, PeerAssumption
  <2>2. CASE fn \notin Lists
    <3>1. d \in Payloads \/ d = << >>
      BY <2>2, ResultCases
    <3>2. Len(<< >>) = 0 /\ << >> \in Seq(0 .. 255)
      OBVIOUS
    <3>3. m = 252
      BY <2>2
    <3>4. ASSUME d \in Payloads
          PROVE  d \in Seq(0 .. 255) /\ Len(d) <= 252
      <4>1. d \in Seq(0 .. 255)
        BY <3>4, PeerAssumption
      <4>2. Len(d) <= 252
        BY <3>4, PeerAssumption
      <4> QED
        BY <4>1, <4>2
    <3>5. CASE d \in Payloads
      BY <3>3, <3>4, <3>5, Zenon
    <3>6. CASE d = << >>
      <4>1. 0 <= m
        BY <3>3
      <4>2. Len(d) <= m
        BY <3>2, <3>6, <4>1, Zenon
      <4>3. d \in Seq(0 .. 255)
        BY <3>2, <3>6, Zenon
      <4> QED
        BY <4>2, <4>3
    <3> QED
      BY <3>1, <3>5, <3>6
  <2> QED
    BY <2>1, <2>2
<1>2. m \in {10, 252}
  OBVIOUS
<1> HIDE DEF m
<1>3. Len(d) \in 0 .. m /\ d \in Bytes(Len(d)) /\ d \in Seq(Byte)
  <2>1. m \in Nat
    BY <1>2
  <2> QED
    BY <1>1, <2>1, PayloadBytes
<1>4. Len(d) \in 0 .. 252 /\ (fn \in Lists => Len(d) \in 0 .. 10)
  <2> DEFINE n == Len(d)
  <2>1. n \in 0 .. m
    BY <1>3
  <2> HIDE DEF n
  <2>2. n \in 0 .. 252 /\ (m = 10 => n \in 0 .. 10)
    BY <1>2, <2>1
  <2>3. fn \in Lists => m = 10
    BY DEF m
  <2> QED
    BY <2>2, <2>3 DEF n
<1>5. ASSUME fn \in Pages
      PROVE  Len(d) = 16
  BY <1>5, ResultCases
<1> QED
  BY <1>3, <1>4, <1>5

(* x is h with d behind it.                                                  *)
Joined(x, m, h, n, d) ==
    /\ x \in Bytes(m + n) /\ Len(x) = m + n
    /\ \A i \in 1 .. m : x[i] = h[i]
    /\ \A j \in 1 .. n : x[m + j] = d[j]

LEMMA Joining ==
    ASSUME NEW m \in Nat, NEW n \in Nat, NEW h \in Bytes(m), NEW d \in Bytes(n)
    PROVE  Joined(h \o d, m, h, n, d)
<1> DEFINE x == h \o d
<1>1. x \in Bytes(m + n)
  BY ConcatBytes
<1>2. \A i \in 1 .. m : x[i] = h[i]
  BY ConcatLeft, Zenon
<1>3. \A j \in 1 .. n : x[m + j] = d[j]
  BY ConcatRight, Zenon
<1> HIDE DEF x
<1>4. Len(x) = m + n
  BY <1>1 DEF Bytes
<1> QED
  BY <1>1, <1>2, <1>3, <1>4 DEF Joined, x

WithData == Pages \cup {"inDataExchange", "getDataTarget"}

LEMMA OutcomeBytes ==
    ASSUME NEW fn \in Functions, NEW d \in Results(fn)
    PROVE  /\ Len(Outcome(fn, d)) \in 0 .. 253
           /\ Outcome(fn, d) \in Bytes(Len(Outcome(fn, d)))
           /\ fn \in WithData =>
                 Joined(Outcome(fn, d), 1, <<0>>, Len(d), d)
           /\ fn \in Lists =>
                 Joined(Outcome(fn, d), 6, <<1, 1, 0, 4, 8, Len(d)>>, Len(d), d)
<1> DEFINE n == Len(d)
<1>1. n \in 0 .. 252 /\ d \in Bytes(n) /\ n \in Nat
  <2>1. n \in 0 .. 252 /\ d \in Bytes(n)
    BY ResultBytes
  <2> HIDE DEF n
  <2> QED
    BY <2>1
<1>2. CASE fn \in WithData
  <2> DEFINE c == <<0>>
  <2>1. c \in Bytes(1) /\ 1 \in Nat
    BY DEF Bytes, Byte
  <2>2. Outcome(fn, d) = c \o d /\ fn \notin Lists
    BY <1>2 DEF Outcome, Lists, Pages, WithData
  <2>3. Joined(c \o d, 1, c, n, d)
    <3> HIDE DEF c, n
    <3> QED
      BY <1>1, <2>1, Joining
  <2> HIDE DEF n
  <2>4. Len(c \o d) = 1 + n /\ c \o d \in Bytes(1 + n) /\ 1 + n \in 0 .. 253
    BY <1>1, <2>3 DEF Joined
  <2> HIDE DEF c
  <2> QED
    BY <2>2, <2>3, <2>4 DEF n, c
<1>3. CASE fn \in Lists
  <2> DEFINE c == <<1, 1, 0, 4, 8, n>>
  <2>1. c \in Bytes(6) /\ 6 \in Nat
    <3> HIDE DEF n
    <3>1. n \in Byte /\ {0, 1, 4, 8} \subseteq Byte
      BY <1>1 DEF Byte
    <3> QED
      BY <3>1 DEF Bytes
  <2>2. Outcome(fn, d) = c \o d /\ fn \notin WithData
    BY <1>3 DEF Outcome, Lists, Pages, WithData
  <2>3. Joined(c \o d, 6, c, n, d)
    <3> HIDE DEF c, n
    <3> QED
      BY <1>1, <2>1, Joining
  <2>4. n \in 0 .. 10
    BY <1>3, ResultBytes
  <2> HIDE DEF n
  <2> HIDE DEF c
  <2>5. Len(c \o d) = 6 + n /\ c \o d \in Bytes(6 + n) /\ 6 + n \in 0 .. 253
    BY <2>3, <2>4 DEF Joined
  <2> QED
    BY <2>2, <2>3, <2>5 DEF n, c
<1>4. CASE fn \notin WithData \cup Lists
  <2>1. Outcome(fn, d) \in {<<0>>, <<63, 7, 2>>, << >>}
    BY <1>4 DEF Outcome, WithData
  <2>2. <<0>> \in Bytes(1) /\ <<63, 7, 2>> \in Bytes(3) /\ << >> \in Bytes(0)
    BY DEF Bytes, Byte
  <2>3. \A k \in Nat : \A s \in Bytes(k) : Len(s) = k
    BY DEF Bytes
  <2> QED
    BY <1>4, <2>1, <2>2, <2>3
<1> QED
  BY <1>2, <1>3, <1>4

LEMMA ErrorBytes ==
    ASSUME NEW fn \in Functions, NEW d \in Errors(fn)
    PROVE  /\ d \in Bytes(1) /\ Len(d) = 1
           /\ fn \in Lists => d[1] = 0
           /\ fn \notin Lists => d[1] \in {1, 39}
           /\ fn \notin Simple \cup {"AsTarget"}
<1>1. CASE fn \in Lists
  <2>1. d = <<0>>
    BY <1>1 DEF Errors
  <2> QED
    BY <1>1, <2>1 DEF Bytes, Byte, Lists, Simple
<1>2. CASE fn \notin Lists
  <2>1. d \in {<<1>>, <<39>>} /\ fn \notin Simple \cup {"AsTarget"}
    BY <1>2 DEF Errors
  <2>2. <<1>> \in Bytes(1) /\ <<39>> \in Bytes(1)
    BY DEF Bytes, Byte
  <2> QED
    BY <1>2, <2>1, <2>2
<1> QED
  BY <1>1, <1>2

-----------------------------------------------------------------------------
(* The response of the chip, when it has one.                                *)
Answers(c) ==
    /\ c \in ChipStates
    /\ c.d \in IF c.executed THEN Results(c.fn) ELSE Errors(c.fn)

Body(c) == IF c.executed THEN Outcome(c.fn, c.d) ELSE c.d

LEMMA FnTyped == ASSUME NEW c, Answers(c) PROVE c.fn \in Functions /\ c.executed \in BOOLEAN
BY DEF Answers, ChipStates

LEMMA BodyBytes ==
    ASSUME NEW c, Answers(c)
    PROVE  Len(Body(c)) \in 0 .. 253 /\ Body(c) \in Bytes(Len(Body(c)))
<1>1. CASE c.executed
  BY <1>1, FnTyped, OutcomeBytes DEF Answers, Body
<1>2. CASE ~c.executed
  <2>1. c.d \in Bytes(1) /\ Len(c.d) = 1
    BY <1>2, FnTyped, ErrorBytes DEF Answers
  <2>2. Body(c) = c.d
    BY <1>2 DEF Body
  <2>3. 1 \in 0 .. 253
    OBVIOUS
  <2> QED
    BY <2>1, <2>2, <2>3
<1> QED
  BY <1>1, <1>2

LEMMA AnswerCarries ==
    ASSUME lead \in {1, 2}, NEW c, Answers(c)
    PROVE  /\ Carries(ResponseOf(c), c.fn, Len(Body(c)), Body(c))
           /\ ResponseOf(c) # NoResponse
           /\ ResponseOf(c) \in Seq(Byte)
<1> DEFINE x == Body(c)
           k == Len(x)
           f == ResponseOf(c)
<1>1. k \in 0 .. 253 /\ x \in Bytes(k)
  BY BodyBytes
<1>2. f = Response(<<213, Code(c.fn)>> \o x)
  BY DEF ResponseOf, Body
<1> HIDE DEF k, x, f
<1>3. Carries(f, c.fn, k, x)
  BY <1>1, <1>2, FnTyped, ResponseCarries
<1>4. Len(f) = lead + 7 + k /\ f \in Seq(Byte)
  BY <1>3 DEF Carries
<1>5. Len(f) # 1
  BY <1>1, <1>4
<1>6. f # NoResponse
  BY <1>5, NoResponseAt
<1> QED
  BY <1>3, <1>4, <1>6 DEF f, k, x

LEMMA Codes ==
    ASSUME NEW fn \in Functions
    PROVE  /\ Code(fn) \in Byte
           /\ Code(fn) = 65 <=> fn \in Pages \cup {"inDataExchange"}
           /\ Code(fn) = 75 <=> fn \in Lists
           /\ Code(fn) = 21 <=> fn = "SAMConfig"
           /\ Code(fn) = 15 <=> fn = "writeGPIO"
<1>1. Code(fn) \in Byte
  BY CodeIsByte
<1>2. CASE fn \in Lists
  <2>1. Code(fn) = 75
    BY <1>2 DEF Lists, Pages, Code
  <2> QED
    BY <1>1, <1>2, <2>1 DEF Lists, Pages
<1>3. CASE fn \in Pages \cup {"inDataExchange"}
  <2>1. Code(fn) = 65
    BY <1>3 DEF Pages, Lists, Code
  <2> QED
    BY <1>1, <1>3, <2>1 DEF Lists, Pages
<1>4. CASE fn \notin Lists \cup Pages \cup {"inDataExchange"}
  <2>1. CASE fn \in {"SAMConfig", "writeGPIO"}
    <3>1. (fn = "SAMConfig" => Code(fn) = 21) /\ (fn = "writeGPIO" => Code(fn) = 15)
      BY DEF Lists, Pages, Code
    <3> QED
      BY <1>1, <1>4, <2>1, <3>1
  <2>2. CASE fn \notin {"SAMConfig", "writeGPIO"}
    <3>1. fn \in {"readGPIO", "setPassiveActivationRetries", "AsTarget", "getDataTarget",
                  "setDataTarget"}
      BY <1>4, <2>2 DEF Functions, Lists, Pages, Simple
    <3>2. Code(fn) \in {13, 51, 141, 135, 143}
      BY <3>1 DEF Code, Lists, Pages
    <3> QED
      BY <1>1, <1>4, <2>2, <3>2
  <2> QED
    BY <2>1, <2>2
<1> QED
  BY <1>2, <1>3, <1>4

LEMMA HeaderAt ==
    ASSUME lead \in {1, 2}, NEW c, Answers(c), NEW fn \in Functions
    PROVE  HasHeader(ResponseOf(c), fn) <=> lead = 2 /\ Code(c.fn) = Code(fn)
<1> DEFINE f == ResponseOf(c)
           k == Len(Body(c))
<1>1. Carries(f, c.fn, k, Body(c)) /\ k \in 0 .. 253
  BY AnswerCarries, BodyBytes
<1> HIDE DEF f, k
<1>2. CASE lead = 1
  <2>1. Buffer(f, 1) = 255
    BY <1>1, <1>2 DEF Carries
  <2> QED
    BY <1>2, <2>1 DEF HasHeader, f
<1>3. CASE lead = 2
  <2>1. /\ Buffer(f, 0) = 0 /\ Buffer(f, 1) = 0 /\ Buffer(f, 2) = 255
        /\ Buffer(f, 3) = 2 + k /\ Buffer(f, 4) = (256 - (2 + k)) % 256
        /\ Buffer(f, 5) = 213 /\ Buffer(f, 6) = Code(c.fn)
    BY <1>1, <1>3 DEF Carries
  <2> QED
    BY <1>3, <2>1 DEF HasHeader, f
<1> QED
  BY <1>2, <1>3

LEMMA BufferFromBytes ==
    ASSUME NEW f \in Seq(Byte), NEW a \in Nat \ {0}, NEW n \in Nat
    PROVE  BufferFrom(f, a, n) \in Bytes(n)
<1>1. \A i \in 1 .. n : a - 1 + i \in Nat
  OBVIOUS
<1>2. BufferFrom(f, a, n) \in [1 .. n -> Byte]
  BY <1>1, BufferIsByte DEF BufferFrom
<1> QED
  BY <1>2, FunctionsAreBytes

(* The first n bytes of d are what a call gives its caller that finds d from *)
(* index a on.                                                               *)
LEMMA BufferFromData ==
    ASSUME NEW f \in Seq(Byte), NEW a \in Nat \ {0}, NEW l \in Nat, NEW d \in Bytes(l),
           NEW n \in 0 .. l, \A j \in 1 .. n : Buffer(f, a - 1 + j) = d[j]
    PROVE  BufferFrom(f, a, n) = SubSeq(d, 1, n) /\ (n = l => BufferFrom(f, a, n) = d)
<1> DEFINE b == BufferFrom(f, a, n)
<1>1. Len(d) = l /\ d \in Seq(Byte)
  BY DEF Bytes
<1>2. n \in Nat /\ n <= l
  OBVIOUS
<1>3. b \in Bytes(n)
  BY <1>2, BufferFromBytes
<1>4. \A j \in 1 .. n : b[j] = d[j]
  BY DEF BufferFrom
<1> HIDE DEF b
<1> DEFINE t == SubSeq(d, 1, n)
<1>5. t \in Bytes(n) /\ \A j \in 1 .. n : t[j] = d[j]
  <2>1. \A i \in 1 .. n : d[i] \in Byte
    BY <1>1, <1>2, ElementOfSeq
  <2>2. /\ t \in Seq(Byte)
        /\ Len(t) = IF 1 <= n THEN n - 1 + 1 ELSE 0
        /\ \A i \in 1 .. n - 1 + 1 : t[i] = d[1 + i - 1]
    BY <1>1, <1>2, <2>1, SubSeqProperties
  <2> HIDE DEF t
  <2>3. Len(t) = n
    BY <1>2, <2>2
  <2>4. \A i \in 1 .. n : t[i] = d[i]
    BY <1>2, <2>2
  <2> QED
    BY <2>2, <2>3, <2>4 DEF Bytes
<1> HIDE DEF t
<1>6. b = t
  BY <1>2, <1>3, <1>4, <1>5, SameBytes
<1>7. n = l => b = d
  BY <1>3, <1>4, SameBytes
<1> QED
  BY <1>6, <1>7 DEF b, t

LEMMA AnswerWithData ==
    ASSUME lead = 2, NEW c, Answers(c), c.executed, c.fn \in WithData
    PROVE  /\ Buffer(ResponseOf(c), 7) = 0
           /\ ByteLength(ResponseOf(c)) = Len(c.d)
           /\ \A j \in 1 .. Len(c.d) : Buffer(ResponseOf(c), 7 + j) = c.d[j]
<1> DEFINE f == ResponseOf(c)
           x == Outcome(c.fn, c.d)
           d == c.d
           n == Len(d)
<1>1. c.fn \in Functions /\ d \in Results(c.fn) /\ Body(c) = x
  BY FnTyped DEF Answers, Body
<1>2. n \in 0 .. 252 /\ Joined(x, 1, <<0>>, n, d)
  <2>1. n \in 0 .. 252
    BY <1>1, ResultBytes
  <2>2. Joined(x, 1, <<0>>, n, d)
    BY <1>1, OutcomeBytes, Zenon
  <2> QED
    BY <2>1, <2>2
<1>3. Carries(f, c.fn, Len(x), x)
  BY <1>1, AnswerCarries
<1> HIDE DEF f, x, d, n
<1>4. Len(x) = 1 + n /\ x[1] = 0 /\ \A j \in 1 .. n : x[1 + j] = d[j]
  <2>1. 1 \in 1 .. 1 /\ <<0>>[1] = 0
    OBVIOUS
  <2> QED
    BY <1>2, <2>1 DEF Joined
<1>5. Buffer(f, 3) = 3 + n /\ \A j \in 1 .. 1 + n : Buffer(f, 6 + j) = x[j]
  BY <1>2, <1>3, <1>4 DEF Carries
<1>6. Buffer(f, 7) = 0
  <2>1. 1 \in 1 .. 1 + n /\ 6 + 1 = 7
    BY <1>2
  <2> QED
    BY <1>4, <1>5, <2>1
<1>7. ByteLength(f) = n
  BY <1>2, <1>5 DEF ByteLength
<1>8. ASSUME NEW j \in 1 .. n
      PROVE  Buffer(f, 7 + j) = d[j]
  <2>1. 1 + j \in 1 .. 1 + n /\ 6 + (1 + j) = 7 + j
    BY <1>2
  <2> QED
    BY <1>4, <1>5, <2>1
<1> QED
  BY <1>6, <1>7, <1>8 DEF n, d, f

LEMMA ListAnswer ==
    ASSUME lead = 2, NEW c, Answers(c), c.executed, c.fn \in Lists
    PROVE  /\ Buffer(ResponseOf(c), 7) = 1 /\ Buffer(ResponseOf(c), 8) = 1
           /\ Buffer(ResponseOf(c), 12) = Len(c.d)
           /\ \A j \in 1 .. Len(c.d) : Buffer(ResponseOf(c), 12 + j) = c.d[j]
<1> DEFINE f == ResponseOf(c)
           x == Outcome(c.fn, c.d)
           d == c.d
           n == Len(d)
           h == <<1, 1, 0, 4, 8, n>>
<1>1. c.fn \in Functions /\ d \in Results(c.fn) /\ Body(c) = x
  BY FnTyped DEF Answers, Body
<1>2. n \in 0 .. 252 /\ Joined(x, 6, h, n, d)
  BY <1>1, ResultBytes, OutcomeBytes
<1>3. Carries(f, c.fn, Len(x), x)
  BY <1>1, AnswerCarries
<1>4. h[1] = 1 /\ h[2] = 1 /\ h[6] = n
  OBVIOUS
<1> HIDE DEF f, x, d, n, h
<1>5. /\ Len(x) = 6 + n /\ x[1] = 1 /\ x[2] = 1 /\ x[6] = n
      /\ \A j \in 1 .. n : x[6 + j] = d[j]
  <2>1. 1 \in 1 .. 6 /\ 2 \in 1 .. 6 /\ 6 \in 1 .. 6
    OBVIOUS
  <2> QED
    BY <1>2, <1>4, <2>1 DEF Joined
<1>6. \A j \in 1 .. 6 + n : Buffer(f, 6 + j) = x[j]
  BY <1>3, <1>5 DEF Carries
<1>7. Buffer(f, 7) = 1 /\ Buffer(f, 8) = 1 /\ Buffer(f, 12) = n
  <2>1. 1 \in 1 .. 6 + n /\ 2 \in 1 .. 6 + n /\ 6 \in 1 .. 6 + n
    BY <1>2
  <2>2. 6 + 1 = 7 /\ 6 + 2 = 8 /\ 6 + 6 = 12
    OBVIOUS
  <2> QED
    BY <1>5, <1>6, <2>1, <2>2
<1>8. ASSUME NEW j \in 1 .. n
      PROVE  Buffer(f, 12 + j) = d[j]
  <2>1. 6 + j \in 1 .. 6 + n /\ 6 + (6 + j) = 12 + j
    BY <1>2
  <2> QED
    BY <1>5, <1>6, <2>1
<1> QED
  BY <1>7, <1>8 DEF n, d, f

LEMMA ErrorAt ==
    ASSUME lead = 2, NEW c, Answers(c), ~c.executed
    PROVE  /\ c.fn \in Lists => Buffer(ResponseOf(c), 7) = 0
           /\ c.fn \notin Lists => Buffer(ResponseOf(c), 7) \in {1, 39}
<1> DEFINE f == ResponseOf(c)
           x == c.d
<1>1. c.fn \in Functions /\ x \in Errors(c.fn) /\ Body(c) = x
  BY FnTyped DEF Answers, Body
<1>2. /\ Len(x) = 1
      /\ c.fn \in Lists => x[1] = 0
      /\ c.fn \notin Lists => x[1] \in {1, 39}
  BY <1>1, ErrorBytes
<1>3. Carries(f, c.fn, 1, x)
  BY <1>1, <1>2, AnswerCarries
<1> HIDE DEF f, x
<1>4. Buffer(f, 7) = x[1]
  <2>1. \A j \in 1 .. 1 : Buffer(f, 6 + j) = x[j]
    BY <1>3 DEF Carries
  <2>2. 1 \in 1 .. 1 /\ 6 + 1 = 7
    OBVIOUS
  <2> QED
    BY <2>1, <2>2
<1> QED
  BY <1>2, <1>4 DEF f

LEMMA ExchangeResult ==
    ASSUME lead \in {1, 2}, NEW c, Answers(c)
    PROVE  inDataExchange_ok(ResponseOf(c))
              <=> lead = 2 /\ c.fn \in Pages \cup {"inDataExchange"} /\ c.executed
<1> DEFINE fn == "inDataExchange"
           f == ResponseOf(c)
<1>1. fn \in Functions /\ Code(fn) = 65 /\ fn \in WithData
  BY Codes DEF Functions, WithData
<1>2. HasHeader(f, fn) <=> lead = 2 /\ c.fn \in Pages \cup {"inDataExchange"}
  BY <1>1, HeaderAt, Codes, FnTyped
<1>3. ASSUME lead = 2, c.fn \in Pages \cup {"inDataExchange"}
      PROVE  Buffer(f, 7) % 64 = 0 <=> c.executed
  <2>1. CASE c.executed
    <3>1. Buffer(f, 7) = 0
      BY <1>3, <2>1, AnswerWithData DEF WithData
    <3> QED
      BY <2>1, <3>1
  <2>2. CASE ~c.executed
    <3>1. c.fn \notin Lists
      BY <1>3 DEF Lists, Pages
    <3>2. Buffer(f, 7) \in {1, 39}
      BY <1>3, <2>2, <3>1, ErrorAt
    <3> HIDE DEF f
    <3> QED
      BY <2>2, <3>2
  <2> QED
    BY <2>1, <2>2
<1> HIDE DEF f
<1> QED
  BY <1>2, <1>3 DEF inDataExchange_ok, f

LEMMA ListResult ==
    ASSUME lead \in {1, 2}, NEW c, Answers(c)
    PROVE  /\ inListPassiveTarget_ok(ResponseOf(c))
                <=> lead = 2 /\ c.fn \in Lists /\ c.executed
           /\ lead = 2 /\ c.fn \in Lists =>
                (readPassiveTargetID_ok(ResponseOf(c)) <=> c.executed)
<1> DEFINE fn == "inListPassiveTarget"
           f == ResponseOf(c)
<1>1. fn \in Functions /\ Code(fn) = 75
  BY Codes DEF Functions, Lists
<1>2. HasHeader(f, fn) <=> lead = 2 /\ c.fn \in Lists
  BY <1>1, HeaderAt, Codes, FnTyped
<1>3. ASSUME lead = 2, c.fn \in Lists
      PROVE  Buffer(f, 7) = 1 <=> c.executed
  <2>1. CASE c.executed
    BY <1>3, <2>1, ListAnswer
  <2>2. CASE ~c.executed
    <3>1. Buffer(f, 7) = 0
      BY <1>3, <2>2, ErrorAt
    <3> QED
      BY <2>2, <3>1
  <2> QED
    BY <2>1, <2>2
<1> HIDE DEF f
<1> QED
  BY <1>2, <1>3 DEF inListPassiveTarget_ok, readPassiveTargetID_ok, f

LEMMA PageResult ==
    ASSUME lead = 2, NEW c, Answers(c), c.fn \in Pages
    PROVE  ReadPage_ok(ResponseOf(c)) <=> c.executed
<1>1. CASE c.executed
  BY <1>1, AnswerWithData DEF ReadPage_ok, WithData
<1>2. CASE ~c.executed
  <2>1. c.fn \notin Lists
    BY DEF Lists, Pages
  <2>2. Buffer(ResponseOf(c), 7) # 0
    BY <1>2, <2>1, ErrorAt
  <2> QED
    BY <1>2, <2>2 DEF ReadPage_ok
<1> QED
  BY <1>1, <1>2

LEMMA SimpleResult ==
    ASSUME lead = 1, NEW c, Answers(c), NEW fn \in {"SAMConfig", "writeGPIO"}
    PROVE  /\ Ok(fn, ResponseOf(c)) <=> c.fn = fn
           /\ c.fn = fn => c.executed /\ c.d = << >>
<1>1. Buffer(ResponseOf(c), 5) = Code(c.fn)
  <2>1. Carries(ResponseOf(c), c.fn, Len(Body(c)), Body(c))
    BY AnswerCarries
  <2> QED
    BY <2>1 DEF Carries
<1>2. /\ Code(c.fn) = 21 <=> c.fn = "SAMConfig"
      /\ Code(c.fn) = 15 <=> c.fn = "writeGPIO"
  BY FnTyped, Codes
<1>3. Ok(fn, ResponseOf(c)) <=> c.fn = fn
  <2>1. CASE fn = "SAMConfig"
    BY <1>1, <1>2, <2>1 DEF Ok, Pages, SAMConfig_ok
  <2>2. CASE fn = "writeGPIO"
    BY <1>1, <1>2, <2>2 DEF Ok, Pages, writeGPIO_ok
  <2> QED
    BY <2>1, <2>2
<1>4. ASSUME c.fn = fn
      PROVE  c.executed /\ c.d = << >>
  <2>1. Errors(c.fn) = {} /\ Results(c.fn) = {<< >>}
    BY <1>4 DEF Errors, Results, Simple, Lists, Pages
  <2> QED
    BY <2>1 DEF Answers
<1> QED
  BY <1>3, <1>4

-----------------------------------------------------------------------------
(* What the calls tell their callers.                                        *)
Target == {"getDataTarget", "setDataTarget"}

LEMMA OkIs ==
    ASSUME NEW fn \in Functions, NEW f
    PROVE  /\ Ok(fn, f) \in BOOLEAN
           /\ fn = "inListPassiveTarget" => (Ok(fn, f) <=> inListPassiveTarget_ok(f))
           /\ fn = "readPassiveTargetID" => (Ok(fn, f) <=> readPassiveTargetID_ok(f))
           /\ fn \in Pages => (Ok(fn, f) <=> ReadPage_ok(f))
           /\ fn = "inDataExchange" => (Ok(fn, f) <=> inDataExchange_ok(f))
<1> USE DEF Ok, Functions, Simple, Lists, Pages
<1>1. CASE fn = "SAMConfig"
  BY <1>1 DEF SAMConfig_ok
<1>2. CASE fn = "writeGPIO"
  BY <1>2 DEF writeGPIO_ok
<1>3. CASE fn = "inListPassiveTarget"
  BY <1>3 DEF inListPassiveTarget_ok
<1>4. CASE fn = "readPassiveTargetID"
  BY <1>4 DEF readPassiveTargetID_ok
<1>5. CASE fn = "inDataExchange"
  BY <1>5 DEF inDataExchange_ok
<1>6. CASE fn \in Pages
  BY <1>6 DEF ReadPage_ok
<1>7. CASE fn \in {"AsTarget", "setDataTarget"}
  BY <1>7 DEF AsTarget_ok, setDataTarget_ok
<1>8. CASE fn \in {"getDataTarget", "readGPIO", "setPassiveActivationRetries"}
  BY <1>8
<1> QED
  BY <1>1, <1>2, <1>3, <1>4, <1>5, <1>6, <1>7, <1>8

LEMMA LengthIs ==
    ASSUME NEW fn \in Functions, NEW f, NEW cap
    PROVE  /\ fn \in Target => Length(fn, f, cap) = ByteLength(f)
           /\ fn = "inDataExchange" => Length(fn, f, cap) = inDataExchange_length(f, cap)
           /\ fn = "readPassiveTargetID" => Length(fn, f, cap) = readPassiveTargetID_length(f)
           /\ fn \in Pages => Length(fn, f, cap) = ReadPage_length(f)
           /\ fn \notin Pages \cup Target \cup {"inDataExchange", "readPassiveTargetID"}
                 => Length(fn, f, cap) = 0
<1> USE DEF Length, Functions, Simple, Lists, Pages, Target
<1>1. CASE fn \in Target
  BY <1>1
<1>2. CASE fn = "inDataExchange"
  BY <1>2
<1>3. CASE fn = "readPassiveTargetID"
  BY <1>3
<1>4. CASE fn \in Pages
  BY <1>4
<1>5. CASE fn \notin Pages \cup Target \cup {"inDataExchange", "readPassiveTargetID"}
  BY <1>5
<1> QED
  BY <1>1, <1>2, <1>3, <1>4, <1>5

LEMMA LengthTyped ==
    ASSUME NEW fn \in Functions, NEW f \in Seq(Byte), NEW cap \in Capacities \cup {0}
    PROVE  Length(fn, f, cap) \in 0 .. 255
<1>1. ByteLength(f) \in 0 .. 255
  <2> DEFINE b == Buffer(f, 3)
  <2>1. b \in Byte
    BY BufferIsByte
  <2>2. ByteLength(f) = (b - 3) % 256
    BY DEF ByteLength
  <2> HIDE DEF b
  <2>3. (b - 3) % 256 \in 0 .. 255
    BY <2>1 DEF Byte
  <2> QED
    BY <2>2, <2>3
<1>2. cap \in 0 .. 255
  BY PeerAssumption
<1>3. inDataExchange_length(f, cap) \in 0 .. 255
  BY <1>1, <1>2 DEF inDataExchange_length, Capped
<1>4. ReadPage_length(f) \in 0 .. 255
  BY DEF ReadPage_length
<1>5. readPassiveTargetID_length(f) \in 0 .. 255
  <2>1. Buffer(f, 12) \in Byte
    BY BufferIsByte
  <2> QED
    BY <2>1 DEF readPassiveTargetID_length, Byte
<1>6. /\ fn \in Target => Length(fn, f, cap) = ByteLength(f)
      /\ fn = "inDataExchange" => Length(fn, f, cap) = inDataExchange_length(f, cap)
      /\ fn = "readPassiveTargetID" => Length(fn, f, cap) = readPassiveTargetID_length(f)
      /\ fn \in Pages => Length(fn, f, cap) = ReadPage_length(f)
      /\ fn \notin Pages \cup Target \cup {"inDataExchange", "readPassiveTargetID"}
            => Length(fn, f, cap) = 0
  BY LengthIs
<1>7. 0 \in 0 .. 255
  OBVIOUS
<1> DEFINE I == 0 .. 255
<1> HIDE DEF I
<1> QED
  BY <1>1, <1>3, <1>4, <1>5, <1>6, <1>7, Zenon DEF I

LEMMA FirstIs ==
    /\ \A fn : First(fn) \in {8, 13}
    /\ First("readPassiveTargetID") = 13
    /\ \A fn : fn # "readPassiveTargetID" => First(fn) = 8
BY DEF First

LEMMA DeliveredTyped ==
    ASSUME NEW fn \in Functions, NEW f \in Seq(Byte), NEW cap \in Capacities \cup {0}
    PROVE  Delivered(fn, f, cap) \in Seq(0 .. 255)
<1> DEFINE n == Length(fn, f, cap)
           b == Buffer(f, 6)
           a == First(fn)
<1>1. n \in Nat
  <2>1. n \in 0 .. 255
    BY LengthTyped
  <2> HIDE DEF n
  <2> QED
    BY <2>1
<1>2. b \in Byte
  BY BufferIsByte
<1>3. a \in Nat \ {0}
  BY FirstIs
<1>4. BufferFrom(f, a, n) \in Seq(Byte)
  <2> HIDE DEF n, a
  <2> QED
    BY <1>1, <1>3, BufferFromBytes DEF Bytes
<1>5. <<b>> \in Seq(Byte) /\ << >> \in Seq(Byte)
  <2> HIDE DEF b
  <2> QED
    BY <1>2
<1> QED
  BY <1>4, <1>5 DEF Delivered, Byte

(* What a call makes of the chip h's response f; of c, what it returns.      *)
Tells(c, f) ==
    /\ c.ok = Ok(c.fn, f)
    /\ c.data = Delivered(c.fn, f, c.cap)
    /\ c.overrun = Overruns(c.fn, f, c.cap)

TrueReport(h, c) ==
    c.fn \in Placed /\ ~c.overrun =>
        /\ c.ok /\ (h.own \/ c.fn \in ChecksCode) =>
              /\ c.heard /\ h.executed /\ Code(h.fn) = Code(c.fn)
              /\ c.data = Wanted(c.fn, h.d, c.cap)
        /\ c.heard /\ h.own /\ h.executed => c.ok

KnownOverrun(h, c) ==
    c.overrun =>
        \/ c.fn = "inDataExchange" /\ Len(h.d) + 8 > PACKBUFFSIZ /\ c.cap + 8 > PACKBUFFSIZ
        \/ /\ c.fn \in Target
           /\ lead = 1 \/ ~h.own \/ ~h.executed \/ ~c.heard \/ Len(h.d) + 8 > PACKBUFFSIZ
        \/ /\ c.fn = "readPassiveTargetID"
           /\ lead = 1 \/ ~h.own \/ Len(h.d) > 7

(* Ones are no success of a call that counts right, and only the two target  *)
(* calls copy them.                                                          *)
LEMMA OnesAreNothing ==
    ASSUME lead \in {1, 2}, NEW fn \in Functions, NEW cap
    PROVE  /\ fn \in Placed => ~Ok(fn, NoResponse)
           /\ Overruns(fn, NoResponse, cap) => fn \in Target
<1> DEFINE f == NoResponse
<1>1. /\ Buffer(f, 0) = 255 /\ Buffer(f, 5) = 255 /\ Buffer(f, 7) = 255
  BY NoResponseAt
<1> HIDE DEF f
<1>2. /\ ~inDataExchange_ok(f) /\ ~inListPassiveTarget_ok(f)
      /\ ~readPassiveTargetID_ok(f) /\ ~ReadPage_ok(f)
      /\ ~SAMConfig_ok(f) /\ ~writeGPIO_ok(f)
  BY <1>1 DEF inDataExchange_ok, inListPassiveTarget_ok, readPassiveTargetID_ok, ReadPage_ok,
              SAMConfig_ok, writeGPIO_ok, HasHeader
<1>3. ASSUME fn \in Placed
      PROVE  ~Ok(fn, f)
  <2>1. CASE fn = "SAMConfig"
    BY <1>2, <2>1 DEF Ok, Pages
  <2>2. CASE fn = "writeGPIO"
    BY <1>2, <2>2 DEF Ok, Pages
  <2>3. CASE fn \in Pages \cup Lists \cup {"inDataExchange"}
    BY <1>2, <2>3, OkIs DEF Lists
  <2> QED
    BY <1>3, <2>1, <2>2, <2>3 DEF Placed
<1>4. ASSUME fn \notin Target
      PROVE  ~Overruns(fn, f, cap)
  <2>1. Length(fn, f, cap) = 0
    BY <1>2, <1>4, LengthIs DEF inDataExchange_length, readPassiveTargetID_length,
                                ReadPage_length
  <2>2. First(fn) \in {8, 13} /\ PACKBUFFSIZ \in 27 .. 64
    BY FirstIs, PeerAssumption
  <2> QED
    BY <2>1, <2>2 DEF Overruns
<1> QED
  BY <1>3, <1>4 DEF f

(* No bytes are asked of the buffer, and none are wanted.                    *)
LEMMA NoData ==
    ASSUME NEW f \in Seq(Byte), NEW cap, NEW d,
           NEW fn \in {"SAMConfig", "writeGPIO", "inListPassiveTarget"}
    PROVE  Delivered(fn, f, cap) = << >> /\ Wanted(fn, d, cap) = << >>
<1>1. /\ fn \in Functions
      /\ fn \notin Pages \cup Target \cup {"inDataExchange", "readPassiveTargetID"}
  BY DEF Functions, Simple, Lists, Pages, Target
<1>2. Length(fn, f, cap) = 0 /\ First(fn) = 8
  BY <1>1, LengthIs, FirstIs
<1>3. BufferFrom(f, 8, 0) = << >>
  <2>1. BufferFrom(f, 8, 0) \in Bytes(0)
    BY BufferFromBytes
  <2> QED
    BY <2>1 DEF Bytes
<1>4. Delivered(fn, f, cap) = << >>
  BY <1>2, <1>3 DEF Delivered
<1>5. Wanted(fn, d, cap) = << >>
  BY <1>1 DEF Wanted
<1> QED
  BY <1>4, <1>5

(* A successful exchange, or page read, gives what was asked for.            *)
LEMMA DataOf ==
    ASSUME lead = 2, NEW h, Answers(h), h.executed, NEW fn, NEW cap \in Capacities \cup {0},
           \/ fn = "inDataExchange" /\ h.fn \in Pages \cup {"inDataExchange"}
           \/ fn \in Pages /\ h.fn = fn
    PROVE  Delivered(fn, ResponseOf(h), cap) = Wanted(fn, h.d, cap)
<1> DEFINE f == ResponseOf(h)
           d == h.d
           m == Len(d)
           n == Length(fn, f, cap)
<1>1. h.fn \in Functions /\ d \in Results(h.fn) /\ h.fn \in WithData
  BY FnTyped DEF Answers, WithData
<1>2. m \in 0 .. 252 /\ d \in Bytes(m) /\ (h.fn \in Pages => m = 16)
  BY <1>1, ResultBytes
<1>3. f \in Seq(Byte) /\ ByteLength(f) = m /\ \A j \in 1 .. m : Buffer(f, 7 + j) = d[j]
  BY <1>1, AnswerCarries, AnswerWithData
<1>4. fn \in Functions /\ fn \notin {"readGPIO", "setDataTarget", "readPassiveTargetID"}
  BY DEF Functions, Pages
<1>5. Delivered(fn, f, cap) = BufferFrom(f, 8, n)
  BY <1>4, FirstIs DEF Delivered
<1> HIDE DEF f, d, m
<1>6. ASSUME NEW k \in 0 .. m
      PROVE  BufferFrom(f, 8, k) = SubSeq(d, 1, k) /\ (k = m => BufferFrom(f, 8, k) = d)
  <2>1. \A j \in 1 .. k : Buffer(f, (8 - 1) + j) = d[j]
    <3> SUFFICES ASSUME NEW j \in 1 .. k
                 PROVE  Buffer(f, (8 - 1) + j) = d[j]
      OBVIOUS
    <3>1. j \in 1 .. m /\ (8 - 1) + j = 7 + j
      BY <1>2, <1>6
    <3> QED
      BY <1>3, <3>1
  <2>2. 8 \in Nat \ {0} /\ m \in Nat
    BY <1>2
  <2> QED
    BY <1>2, <1>3, <2>1, <2>2, BufferFromData
<1>7. CASE fn \in Pages
  <2>1. ReadPage_ok(f) /\ h.fn \in Pages
    <3>1. h.fn \in Pages
      BY <1>7 DEF Pages
    <3> QED
      BY <3>1, PageResult DEF f
  <2>2. n = 4
    BY <1>4, <1>7, <2>1, LengthIs DEF ReadPage_length
  <2>3. m = 16 /\ 4 \in 0 .. m
    BY <1>2, <2>1
  <2>4. BufferFrom(f, 8, 4) = SubSeq(d, 1, 4)
    BY <1>6, <2>3
  <2>5. Wanted(fn, d, cap) = SubSeq(d, 1, 4)
    BY <1>7 DEF Wanted, Pages
  <2> QED
    BY <1>5, <2>2, <2>4, <2>5 DEF f, d
<1>8. CASE fn = "inDataExchange"
  <2>1. inDataExchange_ok(f)
    <3>1. h.fn \in Pages \cup {"inDataExchange"}
      BY <1>8 DEF Pages
    <3> QED
      BY <3>1, ExchangeResult DEF f
  <2>2. n = IF m > cap THEN cap ELSE m
    <3>1. n = inDataExchange_length(f, cap)
      BY <1>4, <1>8, LengthIs
    <3> QED
      BY <1>3, <2>1, <3>1 DEF inDataExchange_length, Capped
  <2>3. cap \in Nat /\ m \in Nat
    BY <1>2, PeerAssumption
  <2>4. Wanted(fn, d, cap) = IF m > cap THEN SubSeq(d, 1, cap) ELSE d
    BY <1>8 DEF Wanted, Pages, m
  <2> HIDE DEF n
  <2>5. CASE m > cap
    <3>1. cap \in 0 .. m
      BY <2>3, <2>5
    <3> QED
      BY <1>5, <1>6, <2>2, <2>4, <2>5, <3>1 DEF f, d
  <2>6. CASE ~(m > cap)
    <3>1. m \in 0 .. m
      BY <2>3
    <3> QED
      BY <1>5, <1>6, <2>2, <2>4, <2>6, <3>1 DEF f, d
  <2> QED
    BY <2>5, <2>6
<1> QED
  BY <1>7, <1>8

(* A target that was listed is reported with its NFCID.                      *)
LEMMA ListedData ==
    ASSUME lead = 2, NEW h, Answers(h), h.executed, h.fn = "readPassiveTargetID", NEW cap
    PROVE  /\ Length("readPassiveTargetID", ResponseOf(h), cap) = Len(h.d)
           /\ Delivered("readPassiveTargetID", ResponseOf(h), cap) = h.d
           /\ Len(h.d) \in 0 .. 10
<1> DEFINE fn == "readPassiveTargetID"
           f == ResponseOf(h)
           d == h.d
           m == Len(d)
<1>1. fn \in Functions /\ fn \in Lists /\ h.fn \in Lists /\ d \in Results(fn)
  BY DEF Functions, Lists, Answers
<1>2. m \in 0 .. 10 /\ d \in Bytes(m)
  BY <1>1, ResultBytes
<1>3. f \in Seq(Byte) /\ Buffer(f, 12) = m /\ \A j \in 1 .. m : Buffer(f, 12 + j) = d[j]
  BY <1>1, AnswerCarries, ListAnswer
<1>4. Length(fn, f, cap) = m
  <2>1. readPassiveTargetID_ok(f)
    BY <1>1, ListResult
  <2>2. Length(fn, f, cap) = readPassiveTargetID_length(f)
    BY <1>1, LengthIs
  <2> QED
    BY <1>3, <2>1, <2>2 DEF readPassiveTargetID_length
<1> HIDE DEF f, d, m
<1>5. BufferFrom(f, 13, m) = d
  <2>1. \A j \in 1 .. m : Buffer(f, (13 - 1) + j) = d[j]
    <3> SUFFICES ASSUME NEW j \in 1 .. m
                 PROVE  Buffer(f, (13 - 1) + j) = d[j]
      OBVIOUS
    <3>1. (13 - 1) + j = 12 + j
      BY <1>2
    <3> QED
      BY <1>3, <3>1
  <2>2. 13 \in Nat \ {0} /\ m \in Nat /\ m \in 0 .. m
    BY <1>2
  <2> QED
    BY <1>2, <1>3, <2>1, <2>2, BufferFromData
<1>6. Delivered(fn, f, cap) = d
  BY <1>4, <1>5, FirstIs DEF Delivered
<1> QED
  BY <1>2, <1>4, <1>6 DEF f, d, m

LEMMA TakeTrue ==
    ASSUME lead \in {1, 2}, NEW h, Answers(h), NEW c \in PeerCalls, c.heard,
           Tells(c, ResponseOf(h)), h.own => h.fn = c.fn
    PROVE  TrueReport(h, c)
<1> DEFINE f == ResponseOf(h)
           fn == c.fn
           cap == c.cap
<1>1. fn \in Functions /\ cap \in Capacities \cup {0} /\ f \in Seq(Byte) /\ h.fn \in Functions
  BY AnswerCarries, FnTyped DEF PeerCalls
<1>2. c.ok = Ok(fn, f) /\ c.data = Delivered(fn, f, cap)
  BY DEF Tells
<1> HIDE DEF f
<1>3. CASE fn \in {"SAMConfig", "writeGPIO"} /\ fn \in Placed
  <2>1. lead = 1
    BY <1>3 DEF Placed, Pages, Lists
  <2>2. /\ Ok(fn, f) <=> h.fn = fn
        /\ h.fn = fn => h.executed
    BY <1>3, <2>1, SimpleResult DEF f
  <2>3. c.data = Wanted(fn, h.d, cap)
    BY <1>1, <1>2, <1>3, NoData
  <2> QED
    BY <1>2, <2>2, <2>3 DEF TrueReport
<1>4. CASE fn = "inListPassiveTarget"
  <2>1. Ok(fn, f) <=> lead = 2 /\ h.fn \in Lists /\ h.executed
    BY <1>1, <1>4, OkIs, ListResult DEF f
  <2>2. fn \in Placed => lead = 2
    BY <1>4 DEF Placed
  <2>3. c.data = Wanted(fn, h.d, cap)
    BY <1>1, <1>2, <1>4, NoData
  <2>4. fn \in Lists /\ (h.fn \in Lists => Code(h.fn) = Code(fn))
    <3>1. fn \in Lists
      BY <1>4 DEF Lists
    <3> QED
      BY <1>1, <3>1, Codes
  <2> QED
    BY <1>2, <2>1, <2>2, <2>3, <2>4 DEF TrueReport
<1>5. CASE fn = "readPassiveTargetID"
  <2>1. ASSUME fn \in Placed, h.own
        PROVE  /\ Ok(fn, f) <=> h.executed
               /\ h.executed => c.data = Wanted(fn, h.d, cap)
    <3>1. lead = 2 /\ h.fn = fn /\ fn \in Lists
      BY <1>5, <2>1 DEF Placed, Lists
    <3>2. Ok(fn, f) <=> h.executed
      BY <1>1, <1>5, <3>1, OkIs, ListResult DEF f
    <3>3. Wanted(fn, h.d, cap) = h.d
      BY <1>5 DEF Wanted, Pages
    <3>4. h.executed => Delivered(fn, f, cap) = h.d
      BY <1>5, <3>1, ListedData DEF f
    <3> QED
      BY <1>2, <3>2, <3>3, <3>4
  <2>2. fn \notin ChecksCode
    BY <1>5 DEF ChecksCode
  <2> QED
    BY <1>2, <2>1, <2>2 DEF TrueReport
<1>6. CASE fn \in Pages
  <2>1. ASSUME fn \in Placed, h.own
        PROVE  /\ Ok(fn, f) <=> h.executed
               /\ h.executed => c.data = Wanted(fn, h.d, cap)
    <3>1. lead = 2 /\ h.fn = fn /\ h.fn \in Pages
      BY <1>6, <2>1 DEF Placed, Pages
    <3>2. Ok(fn, f) <=> h.executed
      BY <1>1, <1>6, <3>1, OkIs, PageResult DEF f
    <3>3. h.executed => Delivered(fn, f, cap) = Wanted(fn, h.d, cap)
      BY <1>1, <1>6, <3>1, DataOf DEF f
    <3> QED
      BY <1>2, <3>2, <3>3
  <2>2. fn \notin ChecksCode
    BY <1>6 DEF ChecksCode, Pages
  <2> QED
    BY <1>2, <2>1, <2>2 DEF TrueReport
<1>7. CASE fn = "inDataExchange"
  <2>1. Ok(fn, f) <=> lead = 2 /\ h.fn \in Pages \cup {"inDataExchange"} /\ h.executed
    BY <1>1, <1>7, OkIs, ExchangeResult DEF f
  <2>2. fn \in Placed => lead = 2
    BY <1>7 DEF Placed
  <2>3. Ok(fn, f) => c.data = Wanted(fn, h.d, cap)
    BY <1>1, <1>2, <1>7, <2>1, DataOf DEF f
  <2>4. h.fn \in Pages \cup {"inDataExchange"} => Code(h.fn) = Code(fn)
    BY <1>1, <1>7, Codes
  <2> QED
    BY <1>2, <1>7, <2>1, <2>2, <2>3, <2>4 DEF TrueReport
<1>8. fn \in Placed => \/ fn \in {"SAMConfig", "writeGPIO"} \/ fn = "inListPassiveTarget"
                       \/ fn = "readPassiveTargetID" \/ fn \in Pages \/ fn = "inDataExchange"
  BY DEF Placed, Lists
<1> QED
  BY <1>3, <1>4, <1>5, <1>6, <1>7, <1>8 DEF TrueReport

LEMMA Sizes ==
    ASSUME NEW cap \in Capacities \cup {0}
    PROVE  PACKBUFFSIZ \in 27 .. 64 /\ cap \in 0 .. 255
BY PeerAssumption

LEMMA TakeOverruns ==
    ASSUME lead \in {1, 2}, NEW h, Answers(h), NEW c \in PeerCalls, c.heard,
           Tells(c, ResponseOf(h)), h.own => h.fn = c.fn
    PROVE  KnownOverrun(h, c)
<1> DEFINE f == ResponseOf(h)
           fn == c.fn
           cap == c.cap
           n == Length(fn, f, cap)
           m == Len(h.d)
<1>1. fn \in Functions /\ cap \in Capacities \cup {0} /\ h.fn \in Functions
  BY FnTyped DEF PeerCalls
<1>2. /\ c.overrun = (First(fn) + n > PACKBUFFSIZ \/ (fn = "readPassiveTargetID" /\ n > 7))
      /\ First("readPassiveTargetID") = 13
      /\ fn # "readPassiveTargetID" => First(fn) = 8
  <2>1. c.overrun = Overruns(fn, f, cap)
    BY DEF Tells
  <2>2. Overruns(fn, f, cap)
           = (First(fn) + n > PACKBUFFSIZ \/ (fn = "readPassiveTargetID" /\ n > 7))
    BY DEF Overruns
  <2> HIDE DEF n, f
  <2> QED
    BY <2>1, <2>2, FirstIs
<1>3. PACKBUFFSIZ \in 27 .. 64 /\ cap \in 0 .. 255
  BY <1>1, Sizes
<1>4. h.executed => m \in 0 .. 252
  BY <1>1, ResultBytes DEF Answers
<1>5. /\ fn \in Target => n = ByteLength(f)
      /\ fn = "inDataExchange" => n = inDataExchange_length(f, cap)
      /\ fn = "readPassiveTargetID" => n = readPassiveTargetID_length(f)
      /\ fn \in Pages => n = ReadPage_length(f)
      /\ fn \notin Pages \cup Target \cup {"inDataExchange", "readPassiveTargetID"} => n = 0
  BY <1>1, LengthIs
<1> HIDE DEF n, m, f, cap
<1>6. ASSUME fn \notin Target \cup {"inDataExchange", "readPassiveTargetID"}
      PROVE  KnownOverrun(h, c)
  <2>1. n \in {0, 4}
    BY <1>5, <1>6 DEF ReadPage_length
  <2>2. ~(8 + n > PACKBUFFSIZ)
    BY <1>3, <2>1
  <2> QED
    BY <1>2, <1>6, <2>2 DEF KnownOverrun
<1>7. ASSUME fn = "inDataExchange"
      PROVE  KnownOverrun(h, c)
  <2>1. ASSUME inDataExchange_ok(f)
        PROVE  h.executed /\ n = IF m > cap THEN cap ELSE m
    <3>1. lead = 2 /\ h.fn \in WithData /\ h.executed
      BY <2>1, ExchangeResult DEF f, WithData
    <3>2. ByteLength(f) = m
      BY <3>1, AnswerWithData DEF f, m
    <3> QED
      BY <1>5, <1>7, <2>1, <3>1, <3>2 DEF inDataExchange_length, Capped
  <2>2. ~inDataExchange_ok(f) => n = 0
    BY <1>5, <1>7 DEF inDataExchange_length
  <2>3. 8 + n > PACKBUFFSIZ => m + 8 > PACKBUFFSIZ /\ cap + 8 > PACKBUFFSIZ
    <3>1. n = 0 \/ (m \in 0 .. 252 /\ n = IF m > cap THEN cap ELSE m)
      BY <1>4, <2>1, <2>2
    <3> QED
      BY <1>3, <3>1
  <2> QED
    BY <1>2, <1>7, <2>3 DEF KnownOverrun, m, cap
<1>8. ASSUME fn = "getDataTarget"
      PROVE  KnownOverrun(h, c)
  <2>1. ASSUME lead = 2, h.own, h.executed
        PROVE  n = m /\ m \in 0 .. 252
    <3>1. h.fn \in WithData
      BY <1>8, <2>1 DEF WithData
    <3>2. ByteLength(f) = m
      BY <2>1, <3>1, AnswerWithData DEF f, m
    <3> QED
      BY <1>4, <1>5, <1>8, <2>1, <3>2 DEF Target
  <2>2. n = m /\ m \in 0 .. 252 /\ 8 + n > PACKBUFFSIZ => m + 8 > PACKBUFFSIZ
    BY <1>3
  <2> QED
    BY <1>2, <1>8, <2>1, <2>2 DEF KnownOverrun, m, Target
<1>9. ASSUME fn = "setDataTarget"
      PROVE  KnownOverrun(h, c)
  <2>1. ASSUME lead = 2, h.own, h.executed
        PROVE  n = 0
    <3>1. Body(h) = <<0>> /\ Len(<<0>>) = 1
      BY <1>9, <2>1 DEF Body, Outcome, Lists, Pages
    <3>2. Carries(f, h.fn, 1, <<0>>)
      BY <3>1, AnswerCarries DEF f
    <3>3. Buffer(f, 3) = 3
      BY <2>1, <3>2 DEF Carries
    <3> QED
      BY <1>5, <1>9, <3>3 DEF ByteLength, Target
  <2>2. n = 0 => ~(8 + n > PACKBUFFSIZ)
    BY <1>3
  <2> QED
    BY <1>2, <1>9, <2>1, <2>2 DEF KnownOverrun, Target
<1>10. ASSUME fn = "readPassiveTargetID"
       PROVE  KnownOverrun(h, c)
  <2>1. ASSUME lead = 2, h.own
        PROVE  n = 0 \/ (n = m /\ m \in 0 .. 10)
    <3>1. h.fn = fn /\ h.fn \in Lists
      BY <1>10, <2>1 DEF Lists
    <3>2. CASE h.executed
      BY <1>10, <2>1, <3>1, <3>2, ListedData DEF f, m, n
    <3>3. CASE ~h.executed
      <4>1. ~readPassiveTargetID_ok(f)
        BY <2>1, <3>1, <3>3, ListResult DEF f
      <4>2. n = readPassiveTargetID_length(f)
        BY <1>5, <1>10
      <4> QED
        BY <4>1, <4>2 DEF readPassiveTargetID_length
    <3> QED
      BY <3>2, <3>3
  <2>2. (n = 0 \/ (n = m /\ m \in 0 .. 10)) /\ (13 + n > PACKBUFFSIZ \/ n > 7) => m > 7
    BY <1>3
  <2> QED
    BY <1>2, <1>10, <2>1, <2>2 DEF KnownOverrun, m
<1> QED
  BY <1>6, <1>7, <1>8, <1>9, <1>10 DEF Target

-----------------------------------------------------------------------------
(* The invariant of Peer.tla.  The chip's own command is that of the call; a *)
(* response that is to be read, or was read, is one to the command; only a   *)
(* call that has returned has heard one, and has left the chip idle; a call  *)
(* that has heard none reports no success that it counts right, and copies   *)
(* more than there is room for only as a target; and of one that has heard   *)
(* its report is true.                                                       *)
PeerInv ==
    /\ PeerTypeOK
    /\ chip.own => chip.fn = call.fn
    /\ chip.at = "done" \/ call.heard => Answers(chip)
    /\ call.heard => call.at = "returned" /\ chip.at = "idle"
    /\ call.at # "returned" => ~call.ok /\ ~call.overrun
    /\ ~call.heard => /\ call.fn \in Placed => ~call.ok
                      /\ call.overrun => call.fn \in Target
    /\ call.heard => TrueReport(chip, call) /\ KnownOverrun(chip, call)

LEMMA InvIsReport == PeerInv => ReportsWhatHappened /\ OverrunsAreThese
<1> SUFFICES ASSUME PeerInv
             PROVE  ReportsWhatHappened /\ OverrunsAreThese
  OBVIOUS
<1>1. CASE call.heard
  BY <1>1 DEF PeerInv, TrueReport, KnownOverrun, ReportsWhatHappened, OverrunsAreThese, Long,
              Target
<1>2. CASE ~call.heard
  BY <1>2 DEF PeerInv, ReportsWhatHappened, OverrunsAreThese, Target
<1> QED
  BY <1>1, <1>2

LEMMA SomeTyped ==
    /\ "SAMConfig" \in Functions /\ "SAMConfig" \notin {"getDataTarget"}
    /\ << >> \in Seq(0 .. 255)
BY DEF Functions, Simple

LEMMA ChipTyped ==
    ASSUME NEW at \in {"idle", "got", "ack", "work", "done"}, NEW fn \in Functions,
           NEW own \in BOOLEAN, NEW executed \in BOOLEAN, NEW d \in Seq(0 .. 255)
    PROVE  [at |-> at, fn |-> fn, own |-> own, executed |-> executed, d |-> d] \in ChipStates
BY DEF ChipStates

LEMMA IdleTyped == Idle \in ChipStates /\ Idle.at = "idle" /\ ~Idle.own
BY SomeTyped, ChipTyped DEF Idle

LEMMA NothingTyped ==
    /\ Nothing \in PeerCalls
    /\ Nothing.at = "returned" /\ ~Nothing.heard /\ ~Nothing.ok /\ ~Nothing.overrun
<1> DEFINE e == << >>
<1>1. e \in Seq(0 .. 255) /\ "SAMConfig" \in Functions
  BY SomeTyped
<1>2. Nothing = [fn |-> "SAMConfig", cap |-> 0, at |-> "returned", heard |-> FALSE,
                 ok |-> FALSE, data |-> e, overrun |-> FALSE]
  BY DEF Nothing
<1> HIDE DEF e
<1> QED
  BY <1>1, <1>2 DEF PeerCalls

LEMMA PeerInitOK == PeerInit => PeerInv
BY IdleTyped, NothingTyped DEF PeerInit, PeerInv, PeerTypeOK

(* What keeps lead and leaves no call that has heard keeps the invariant, if *)
(* it keeps the parts named here.                                            *)
LEMMA SilentStep ==
    ASSUME lead' = lead, PeerTypeOK', (chip.own => chip.fn = call.fn)',
           (chip.at = "done" => Answers(chip))', ~call'.heard,
           call'.at # "returned" => ~call'.ok /\ ~call'.overrun,
           call'.fn \in Placed => ~call'.ok,
           call'.overrun => call'.fn \in Target
    PROVE  PeerInv'
<1>1. Placed' = Placed
  BY DEF Placed
<1> QED
  BY <1>1 DEF PeerInv

LEMMA LeavesStep == PeerInv /\ PeerLeaves => PeerInv'
<1> SUFFICES ASSUME PeerInv, PeerLeaves
             PROVE  PeerInv'
  OBVIOUS
<1>1. /\ lead' = lead /\ inListedTag' = inListedTag /\ chip' = chip /\ call' = call
      /\ role' = "idle"
  BY DEF PeerLeaves
<1>2. Placed' = Placed
  BY <1>1 DEF Placed
<1>3. Answers(chip)' <=> Answers(chip)
  BY <1>1 DEF Answers, Results, Errors
<1>4. /\ TrueReport(chip, call)' <=> TrueReport(chip, call)
      /\ KnownOverrun(chip, call)' <=> KnownOverrun(chip, call)
  BY <1>1, <1>2 DEF TrueReport, KnownOverrun, Wanted, Code
<1>5. PeerTypeOK'
  BY <1>1 DEF PeerInv, PeerTypeOK
<1> QED
  BY <1>1, <1>2, <1>3, <1>4, <1>5 DEF PeerInv

LEMMA ChipStep ==
    PeerInv /\ (ChipAcknowledges \/ ChipExecutes \/ ChipReportsError) => PeerInv'
<1> SUFFICES ASSUME PeerInv, ChipAcknowledges \/ ChipExecutes \/ ChipReportsError
             PROVE  PeerInv'
  OBVIOUS
<1>1. /\ lead' = lead /\ inListedTag' = inListedTag /\ call' = call
      /\ chip.at \in {"got", "work"}
  BY DEF ChipAcknowledges, ChipExecutes, ChipReportsError
<1>2. ~call.heard /\ ~call'.heard
  BY <1>1 DEF PeerInv
<1>3. /\ chip \in ChipStates /\ chip.fn \in Functions /\ call.fn \in Functions
      /\ role \in {"idle", "listed", "target"}
  BY DEF PeerInv, PeerTypeOK, ChipStates, PeerCalls
<1>4. /\ chip' \in ChipStates /\ chip'.own = chip.own /\ chip'.fn = chip.fn
      /\ chip'.at = "done" => Answers(chip')
      /\ role' \in {"idle", "listed", "target"}
  <2>1. CASE ChipAcknowledges
    BY <1>3, <2>1 DEF ChipAcknowledges, ChipStates
  <2>2. CASE ChipExecutes
    <3>1. PICK d \in Results(chip.fn) :
            chip' = [chip EXCEPT !.at = "done", !.executed = TRUE, !.d = d]
      BY <2>2 DEF ChipExecutes
    <3>2. d \in Seq(0 .. 255)
      BY <1>3, ResultBytes DEF Byte
    <3>3. /\ chip' \in ChipStates /\ chip'.fn = chip.fn /\ chip'.own = chip.own
          /\ chip'.executed /\ chip'.d = d
      BY <1>3, <3>1, <3>2 DEF ChipStates
    <3>4. role' \in {"idle", "listed", "target"}
      BY <1>3, <2>2 DEF ChipExecutes, RoleAfter
    <3> QED
      BY <3>3, <3>4 DEF Answers
  <2>3. CASE ChipReportsError
    <3>1. PICK d \in Errors(chip.fn) :
            chip' = [chip EXCEPT !.at = "done", !.executed = FALSE, !.d = d]
      BY <2>3 DEF ChipReportsError
    <3>2. d \in Seq(0 .. 255)
      BY <1>3, ErrorBytes DEF Byte, Bytes
    <3>3. /\ chip' \in ChipStates /\ chip'.fn = chip.fn /\ chip'.own = chip.own
          /\ ~chip'.executed /\ chip'.d = d
      BY <1>3, <3>1, <3>2 DEF ChipStates
    <3> QED
      BY <1>3, <2>3, <3>3 DEF Answers, ChipReportsError
  <2> QED
    BY <2>1, <2>2, <2>3
<1>5. PeerTypeOK'
  BY <1>1, <1>4 DEF PeerInv, PeerTypeOK
<1>6. (chip.at = "done" => Answers(chip))'
  <2>1. Answers(chip') <=> Answers(chip)'
    BY DEF Answers, Results, Errors
  <2> QED
    BY <1>4, <2>1
<1>7. /\ chip'.own => chip'.fn = call'.fn
      /\ call'.at # "returned" => ~call'.ok /\ ~call'.overrun
      /\ call'.fn \in Placed => ~call'.ok
      /\ call'.overrun => call'.fn \in Target
  BY <1>1, <1>2, <1>4 DEF PeerInv
<1> QED
  BY <1>1, <1>2, <1>5, <1>6, <1>7, SilentStep

LEMMA BeginStep ==
    ASSUME PeerInv, NEW fn \in Functions, NEW cap \in Capacities \cup {0}, Begin(fn, cap)
    PROVE  PeerInv'
<1>1. lead' = lead /\ role' = role /\ inListedTag' = inListedTag
  BY DEF Begin
<1>2. /\ call' \in PeerCalls /\ call'.fn = fn
      /\ ~call'.heard /\ ~call'.ok /\ ~call'.overrun
  BY NothingTyped DEF Begin, PeerCalls
<1>3. chip \in ChipStates
  BY DEF PeerInv, PeerTypeOK
<1>4. /\ chip' \in ChipStates
      /\ chip'.own => chip'.fn = fn
      /\ chip'.at = "done" => Answers(chip')
  <2>1. CASE chip' = [Idle EXCEPT !.at = "got", !.fn = fn, !.own = TRUE]
    BY <2>1, IdleTyped DEF ChipStates
  <2>2. CASE chip' = Idle
    BY <2>2, IdleTyped
  <2>3. CASE chip' = [chip EXCEPT !.own = FALSE]
    <3>1. /\ chip' \in ChipStates /\ ~chip'.own /\ chip'.at = chip.at /\ chip'.fn = chip.fn
          /\ chip'.executed = chip.executed /\ chip'.d = chip.d
      BY <1>3, <2>3 DEF ChipStates
    <3>2. chip.at = "done" => Answers(chip)
      BY DEF PeerInv
    <3> QED
      BY <3>1, <3>2 DEF Answers
  <2> QED
    BY <2>1, <2>2, <2>3 DEF Begin
<1>5. PeerTypeOK'
  BY <1>1, <1>2, <1>4 DEF PeerInv, PeerTypeOK
<1>6. (chip.at = "done" => Answers(chip))'
  <2>1. Answers(chip') <=> Answers(chip)'
    BY DEF Answers, Results, Errors
  <2> QED
    BY <1>4, <2>1
<1>7. chip'.own => chip'.fn = call'.fn
  BY <1>2, <1>4
<1> QED
  BY <1>1, <1>2, <1>5, <1>6, <1>7, SilentStep

(* A call goes on, or returns, without having read a response.               *)
LEMMA WaitingStep ==
    PeerInv /\ (NotReady \/ ReadAck \/ LeaveResponse) => PeerInv'
<1> SUFFICES ASSUME PeerInv, NotReady \/ ReadAck \/ LeaveResponse
             PROVE  PeerInv'
  OBVIOUS
<1>1. /\ lead' = lead /\ role' = role /\ inListedTag' = inListedTag
      /\ call.at # "returned"
  BY DEF NotReady, ReadAck, LeaveResponse
<1>2. ~call.heard /\ ~call.ok /\ ~call.overrun /\ call \in PeerCalls /\ chip \in ChipStates
  BY <1>1 DEF PeerInv, PeerTypeOK
<1>3. /\ call' \in PeerCalls /\ call'.fn = call.fn /\ ~call'.heard /\ ~call'.overrun
      /\ call'.at # "returned" => ~call'.ok
      /\ call'.fn \in Placed => ~call'.ok
  <2>1. CASE call' = [call EXCEPT !.at = "returned"]
    BY <1>2, <2>1 DEF PeerCalls
  <2>2. CASE call' = [call EXCEPT !.at = "response"]
    BY <1>2, <2>2 DEF PeerCalls
  <2>3. CASE LeaveResponse
    <3>1. call' = [call EXCEPT !.at = "returned", !.ok = TRUE]
      BY <2>3 DEF LeaveResponse
    <3>2. call.fn \notin Placed
      BY <2>3 DEF LeaveResponse, Placed, Pages, Lists
    <3> QED
      BY <1>2, <3>1, <3>2 DEF PeerCalls
  <2> QED
    BY <2>1, <2>2, <2>3 DEF NotReady, ReadAck, Return
<1>4. /\ chip' \in ChipStates
      /\ chip'.own => chip.own /\ chip'.fn = chip.fn
      /\ chip'.at = "done" => chip' = chip
  <2>1. CASE chip' = chip
    BY <1>2, <2>1
  <2>2. CASE chip' = [chip EXCEPT !.at = "work"]
    BY <1>2, <2>2 DEF ChipStates
  <2>3. CASE chip' = Idle
    BY <2>3, IdleTyped
  <2> QED
    BY <2>1, <2>2, <2>3 DEF NotReady, ReadAck, LeaveResponse
<1>5. PeerTypeOK'
  BY <1>1, <1>3, <1>4 DEF PeerInv, PeerTypeOK
<1>6. (chip.at = "done" => Answers(chip))'
  <2>1. Answers(chip') <=> Answers(chip)'
    BY DEF Answers, Results, Errors
  <2>2. chip.at = "done" => Answers(chip)
    BY DEF PeerInv
  <2>3. chip'.at = "done" => Answers(chip')
    BY <1>4, <2>2
  <2> QED
    BY <2>1, <2>3
<1>7. chip'.own => chip'.fn = call'.fn
  BY <1>3, <1>4 DEF PeerInv
<1> QED
  BY <1>1, <1>3, <1>5, <1>6, <1>7, SilentStep

(* In a state with the chip h and the call c.                                *)
LEMMA PrimedReports ==
    ASSUME lead' = lead, TrueReport(chip', call'), KnownOverrun(chip', call')
    PROVE  (TrueReport(chip, call) /\ KnownOverrun(chip, call))'
<1>1. Placed' = Placed
  BY DEF Placed
<1> QED
  BY <1>1 DEF TrueReport, KnownOverrun, Wanted, Code

LEMMA TakeStep == PeerInv /\ Take => PeerInv'
<1> SUFFICES ASSUME PeerInv, Take
             PROVE  PeerInv'
  OBVIOUS
<1>1. /\ lead' = lead /\ role' = role /\ lead \in {1, 2}
      /\ chip.at = "done" /\ chip' = [chip EXCEPT !.at = "idle"]
      /\ chip \in ChipStates /\ call \in PeerCalls
  BY DEF Take, PeerInv, PeerTypeOK
<1>2. PICK f \in {ResponseOf(chip), NoResponse} :
        /\ call' = [call EXCEPT !.at = "returned",
                                !.heard   = f # NoResponse,
                                !.ok      = Ok(call.fn, f),
                                !.data    = Delivered(call.fn, f, call.cap),
                                !.overrun = Overruns(call.fn, f, call.cap)]
        /\ inListedTag' = IF call.fn = "inListPassiveTarget" /\ Ok(call.fn, f)
                           THEN Buffer(f, 8) ELSE inListedTag
  BY DEF Take
<1>3. Answers(chip) /\ (chip.own => chip.fn = call.fn)
  BY <1>1 DEF PeerInv
<1>4. /\ chip' \in ChipStates /\ chip'.at = "idle" /\ chip'.fn = chip.fn
      /\ chip'.own = chip.own /\ chip'.executed = chip.executed /\ chip'.d = chip.d
  BY <1>1 DEF ChipStates
<1>5. Answers(chip') /\ ResponseOf(chip') = ResponseOf(chip)
  BY <1>3, <1>4 DEF Answers, ResponseOf
<1>6. f \in Seq(Byte) /\ ResponseOf(chip) # NoResponse
  BY <1>1, <1>3, AnswerCarries, NoResponseAt
<1>7. /\ call'.fn = call.fn /\ call'.cap = call.cap /\ call'.at = "returned"
      /\ call'.heard = (f # NoResponse)
      /\ Tells(call', f)
  <2>1. /\ call'.fn = call.fn /\ call'.cap = call.cap /\ call'.at = "returned"
        /\ call'.heard = (f # NoResponse) /\ call'.ok = Ok(call.fn, f)
        /\ call'.data = Delivered(call.fn, f, call.cap)
        /\ call'.overrun = Overruns(call.fn, f, call.cap)
    BY <1>1, <1>2 DEF PeerCalls
  <2> QED
    BY <2>1 DEF Tells
<1>8. call' \in PeerCalls
  <2> DEFINE h == f # NoResponse
             k == Ok(call.fn, f)
             l == Delivered(call.fn, f, call.cap)
             o == Overruns(call.fn, f, call.cap)
  <2>1. call.fn \in Functions /\ call.cap \in Capacities \cup {0}
    BY <1>1 DEF PeerCalls
  <2>2. h \in BOOLEAN /\ k \in BOOLEAN /\ l \in Seq(0 .. 255)
    BY <1>6, <2>1, OkIs, DeliveredTyped
  <2>3. o \in BOOLEAN
    BY DEF Overruns
  <2>4. call' = [call EXCEPT !.at = "returned", !.heard = h, !.ok = k, !.data = l,
                             !.overrun = o]
    BY <1>2
  <2> HIDE DEF h, k, l, o
  <2> QED
    BY <1>1, <2>2, <2>3, <2>4 DEF PeerCalls
<1>9. inListedTag' \in {0, 1}
  <2>1. CASE call.fn = "inListPassiveTarget" /\ Ok(call.fn, f)
    <3>1. call.fn \in Placed \/ lead = 1
      BY <1>1, <2>1 DEF Placed, Lists
    <3>2. inListPassiveTarget_ok(f) /\ call.fn \in Functions
      BY <1>1, <2>1, OkIs DEF PeerCalls
    <3>3. f # NoResponse
      BY <3>2, NoResponseAt DEF inListPassiveTarget_ok, HasHeader
    <3>4. f = ResponseOf(chip)
      BY <3>3
    <3>5. lead = 2 /\ chip.fn \in Lists /\ chip.executed
      BY <1>1, <1>3, <3>2, <3>4, ListResult
    <3>6. Buffer(f, 8) = 1
      BY <1>3, <3>4, <3>5, ListAnswer
    <3> QED
      BY <1>2, <2>1, <3>6
  <2>2. CASE ~(call.fn = "inListPassiveTarget" /\ Ok(call.fn, f))
    BY <1>2, <2>2 DEF PeerInv, PeerTypeOK
  <2> QED
    BY <2>1, <2>2
<1>10. PeerTypeOK'
  BY <1>1, <1>4, <1>8, <1>9 DEF PeerInv, PeerTypeOK
<1>11. chip'.own => chip'.fn = call'.fn
  BY <1>3, <1>4, <1>7
<1>12. Answers(chip)'
  BY <1>5 DEF Answers, Results, Errors
<1>13. CASE f = NoResponse
  <2>1. ~call'.heard /\ call'.at = "returned" /\ Tells(call', NoResponse)
    BY <1>7, <1>13
  <2>2. call'.fn \in Functions
    BY <1>8 DEF PeerCalls
  <2>3. call'.fn \in Placed => ~call'.ok
    BY <1>1, <2>1, <2>2, OnesAreNothing DEF Tells
  <2>4. call'.overrun => call'.fn \in Target
    BY <1>1, <2>1, <2>2, OnesAreNothing DEF Tells
  <2> QED
    BY <1>1, <1>10, <1>11, <1>12, <2>1, <2>3, <2>4, SilentStep
<1>14. CASE f = ResponseOf(chip)
  <2>1. call'.heard /\ call'.at = "returned" /\ Tells(call', ResponseOf(chip'))
    BY <1>5, <1>6, <1>7, <1>14
  <2>2. TrueReport(chip', call') /\ KnownOverrun(chip', call')
    BY <1>1, <1>5, <1>8, <1>11, <2>1, TakeTrue, TakeOverruns
  <2>3. (TrueReport(chip, call) /\ KnownOverrun(chip, call))'
    BY <1>1, <2>2, PrimedReports
  <2> QED
    BY <1>4, <1>10, <1>11, <1>12, <2>1, <2>3 DEF PeerInv
<1> QED
  BY <1>13, <1>14

LEMMA PeerStep == PeerInv /\ [PeerNext]_peer_vars => PeerInv'
<1> SUFFICES ASSUME PeerInv, [PeerNext]_peer_vars
             PROVE  PeerInv'
  OBVIOUS
<1>1. CASE UNCHANGED peer_vars
  <2>1. /\ lead' = lead /\ role' = role /\ inListedTag' = inListedTag
        /\ chip' = chip /\ call' = call
    BY <1>1 DEF peer_vars
  <2>2. Placed' = Placed
    BY <2>1 DEF Placed
  <2>3. Answers(chip)' <=> Answers(chip)
    BY <2>1 DEF Answers, Results, Errors
  <2>4. /\ TrueReport(chip, call)' <=> TrueReport(chip, call)
        /\ KnownOverrun(chip, call)' <=> KnownOverrun(chip, call)
    BY <2>1, <2>2 DEF TrueReport, KnownOverrun, Wanted, Code
  <2>5. PeerTypeOK'
    BY <2>1 DEF PeerInv, PeerTypeOK
  <2> QED
    BY <2>1, <2>2, <2>3, <2>4, <2>5 DEF PeerInv
<1>2. ASSUME NEW fn \in Functions, NEW cap \in Capacities \cup {0}, Begin(fn, cap)
      PROVE  PeerInv'
  BY <1>2, BeginStep
<1> QED
  BY <1>1, <1>2, LeavesStep, ChipStep, WaitingStep, TakeStep DEF PeerNext

LEMMA PeerInvariant == PeerSpec => []PeerInv
<1> QED
  BY PeerInitOK, PeerStep, PTL DEF PeerSpec

(* A call that reports success has the response to a command of its kind     *)
(* that was executed, and gives its caller the data of that execution, and   *)
(* one that hears the response to its own command reports it: for data of    *)
(* every length and content, whatever the checksum of its frame, for every   *)
(* capacity of the caller, whatever is lost and whatever earlier calls have  *)
(* left with the chip (PN532.c:218, 307, 386-394, 445-480, 528-537, 918).    *)
THEOREM ReportsAreTrue == PeerSpec => []ReportsWhatHappened
<1> QED
  BY InvIsReport, PeerInvariant, PTL

(* Only inDataExchange, for a caller with room for more than fits in         *)
(* pn532_packetbuffer, and the two target calls read behind it, and only     *)
(* readPassiveTargetID writes behind its caller's uid, on a frame that is    *)
(* not its response or for a long NFCID (PN532.c:387-394, 468-478,           *)
(* 1383-1394, 1415-1419).                                                    *)
THEOREM OverrunsAreKnown == PeerSpec => []OverrunsAreThese
<1> QED
  BY InvIsReport, PeerInvariant, PTL

(* Tags.tla: an application that meets a tag and one that meets a peer do    *)
(* what Ndef.tla and Peer.tla say.                                           *)
MetOK == met \in {"tag", "peer"}

LEMMA TagsInitOK == TagsInit => NdefInit /\ PeerInit /\ MetOK
BY DEF TagsInit, MetOK

LEMMA TagsStep ==
    [TagsNext]_tags_vars => /\ [NdefNext]_ndef_vars /\ [PeerNext]_peer_vars
                            /\ UNCHANGED met
BY DEF TagsNext, WritesTag, MeetsPeer, tags_vars

LEMMA MetStep == MetOK /\ UNCHANGED met => MetOK'
BY DEF MetOK

(* Every theorem about either module is one about the composition.           *)
THEOREM TagsImplements == TagsSpec => NdefSpec /\ PeerSpec
<1> QED
  BY TagsInitOK, TagsStep, PTL DEF TagsSpec, NdefSpec, PeerSpec

(* Blocks, pages, calls and frames have their sizes, and a listed target its *)
(* number, in all that an application does with a tag or with a peer.        *)
THEOREM TagsWellTyped == TagsSpec => []TagsTypeOK
<1>1. TagsSpec => []MetOK
  BY TagsInitOK, TagsStep, MetStep, PTL DEF TagsSpec
<1>2. PeerInv => PeerTypeOK
  BY DEF PeerInv
<1>3. NdefTypeOK /\ PeerTypeOK /\ MetOK => TagsTypeOK
  BY DEF TagsTypeOK, MetOK
<1> QED
  BY <1>1, <1>2, <1>3, TagsImplements, NdefWellTyped, PeerInvariant, PTL

=============================================================================
