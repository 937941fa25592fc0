---------------------------- MODULE PN532Proofs ----------------------------
(* Theorems about PN532.tla, for any cards and keys and with every fault.    *)
EXTENDS PN532, SequenceTheorems, TLAPS

-----------------------------------------------------------------------------
(* The strengthening.                                                        *)

Statuses == {0, 1, 20, 39}

(* At the end of a wait for a response there is one, be it a late one.       *)
PhasesAgree ==
    InCall => /\ phase = "wait" => chip \in {"work", "done", "idle"}
              /\ phase = "take" => chip = "done"

(* What the chip has to tell is what it was asked for.                       *)
OutOfCommand ==
    chip = "done" =>
        /\ cmd.name = "version" => out = <<213, 3, 50, 1, 6, 7>>
        /\ cmd.name = "sam" => out = <<213, 21>>
        /\ cmd.name = "list" =>
              \E u \in Uids : out = <<213, 75, 1, 1, 0, 4, 8, 1, u>> /\ target \in {u, None}
        /\ cmd.name \in {"auth", "write"} => \E s \in Statuses : out = <<213, 65, s>>
        /\ cmd.name = "read" =>
              \/ \E s \in Statuses \ {0} : out = <<213, 65, s>>
              \/ \E u \in Uids : out = DataExchangeOK \o block[u] /\ uid \in {u, None}

(* The commands of the start are over when the loop begins, or come too late *)
(* for it to have a card.                                                    *)
CommandOfCall ==
    /\ chip # "idle" => cmd \in Commands
    /\ chip # "idle" /\ cmd.name = "version" => call \in {"begin", "version", "no_board"}
    /\ chip # "idle" /\ cmd.name = "sam" => uid = None

(* The card that the task knows is the one the chip has listed, and the chip *)
(* is about to list no other.                                                *)
CardOfTurn ==
    uid # None =>
        /\ call \in {"auth", "read", "session", "write_auth", "write"}
        /\ target \in {uid, None}
        /\ chip # "idle" => cmd.name \in {"auth", "read", "write"}

KeyOfTurn ==
    /\ call = "session" => uid # None /\ chip = "idle" /\ BlockOf(key) = block[uid]
    /\ call \in {"write_auth", "write"} => uid # None /\ uid = accepted /\ new_key \in Keys

(* A write that the chip has yet to execute is the one that was accepted.    *)
PendingWrite ==
    chip \in {"got", "ack", "work"} /\ cmd.name = "write" =>
        cmd.data = BlockOf(new_key) /\ target \in {accepted, None}

DriverInv ==
    /\ PN532TypeOK
    /\ PhasesAgree
    /\ OutOfCommand
    /\ CommandOfCall
    /\ CardOfTurn
    /\ KeyOfTurn
    /\ PendingWrite

-----------------------------------------------------------------------------
(* Frames.                                                                   *)

LEMMA SumOfThree ==
    ASSUME NEW x \in Int, NEW y \in Int, NEW z \in Int
    PROVE  Sum(<<x, y, z>>) = x + y + z
<1> DEFINE p == <<x, y, z>>
           IsUpTo(f) == f = [n \in 0 .. Len(p) |-> IF n = 0 THEN 0 ELSE f[n - 1] + p[n]]
           f0 == [n \in 0 .. 3 |-> CASE n = 0 -> 0 [] n = 1 -> x [] n = 2 -> x + y
                                     [] OTHER -> x + y + z]
           f1 == CHOOSE f : IsUpTo(f)
<1>1. Len(p) = 3 /\ p[1] = x /\ p[2] = y /\ p[3] = z
  OBVIOUS
<1>2. IsUpTo(f0)
  <2>1. \A n \in 0 .. 3 : f0[n] = IF n = 0 THEN 0 ELSE f0[n - 1] + p[n]
    BY <1>1
  <2> QED
    BY <1>1, <2>1
<1>3. IsUpTo(f1)
  <2> HIDE DEF IsUpTo, f0
  <2> QED
    BY <1>2
<1>4. f1[3] = x + y + z
  <2> HIDE DEF f1, p
  <2>1. f1[0] = 0 /\ f1[1] = f1[0] + p[1] /\ f1[2] = f1[1] + p[2] /\ f1[3] = f1[2] + p[3]
    BY <1>1, <1>3
  <2> QED
    BY <1>1, <2>1
<1>5. Sum(p) = f1[3]
  BY <1>1 DEF Sum
<1> QED
  BY <1>4, <1>5

(* The response to an exchange without data ends in this, at index 7.        *)
LEMMA ChecksumOfStatus ==
    ASSUME NEW s \in Statuses
    PROVE  Checksum(<<213, 65, s>>) \in Byte \ {0, 1}
<1>1. Sum(<<213, 65, s>>) = 213 + 65 + s
  BY SumOfThree DEF Statuses
<1> QED
  BY <1>1 DEF Checksum, Statuses, Byte

LEMMA FrameAt ==
    ASSUME NEW lead \in {1, 2}, NEW S, NEW p \in Seq(S)
    PROVE  /\ Len(Frame(lead, p)) = lead + Len(p) + 5
           /\ \A j \in 1 .. Len(p) : At(Frame(lead, p), lead + 2 + j) = p[j]
           /\ At(Frame(lead, p), lead + 3 + Len(p)) = Checksum(p)
           /\ At(Frame(lead, p), lead + 4 + Len(p)) = 0
<1> DEFINE T == S \cup Int \cup {Checksum(p)}
           h == <<255, Len(p), 256 - Len(p)>>
           e == <<Checksum(p), 0>>
           a == Zeros(lead) \o h
           b == a \o p
<1>1. /\ Zeros(lead) \in Seq(T) /\ Len(Zeros(lead)) = lead
      /\ h \in Seq(T) /\ Len(h) = 3
      /\ p \in Seq(T) /\ Len(p) \in Nat
      /\ e \in Seq(T) /\ Len(e) = 2 /\ e[1] = Checksum(p) /\ e[2] = 0
  <2>1. Int \subseteq T /\ S \subseteq T /\ Checksum(p) \in T
    OBVIOUS
  <2> HIDE DEF T
  <2>2. Zeros(lead) \in Seq(T) /\ Len(Zeros(lead)) = lead
    BY <2>1 DEF Zeros
  <2>3. p \in Seq(T) /\ Len(p) \in Nat
    BY <2>1
  <2>4. h \in Seq(T) /\ Len(h) = 3
    BY <2>1, <2>3
  <2>5. e \in Seq(T) /\ Len(e) = 2 /\ e[1] = Checksum(p) /\ e[2] = 0
    BY <2>1
  <2> QED
    BY <2>2, <2>3, <2>4, <2>5
<1> HIDE DEF T, h, e
<1>2. a \in Seq(T) /\ Len(a) = lead + 3
  <2>1. a \in Seq(T) /\ Len(a) = Len(Zeros(lead)) + Len(h)
    <3> DEFINE z == Zeros(lead)
    <3>1. z \in Seq(T) /\ h \in Seq(T)
      BY <1>1
    <3> HIDE DEF z
    <3>2. z \o h \in Seq(T) /\ Len(z \o h) = Len(z) + Len(h)
      BY <3>1, ConcatProperties, Zenon
    <3> QED
      BY <3>2 DEF z
  <2> QED
    BY <1>1, <2>1
<1> HIDE DEF a
<1>3. /\ b \in Seq(T) /\ Len(b) = lead + 3 + Len(p)
      /\ \A j \in 1 .. Len(p) : b[lead + 3 + j] = p[j]
  BY <1>1, <1>2, ConcatProperties
<1> HIDE DEF b
<1>4. /\ Len(b \o e) = lead + 5 + Len(p)
      /\ \A j \in 1 .. lead + 3 + Len(p) : (b \o e)[j] = b[j]
      /\ (b \o e)[lead + 4 + Len(p)] = Checksum(p)
      /\ (b \o e)[lead + 5 + Len(p)] = 0
  <2>1. /\ Len(b \o e) = Len(b) + 2
        /\ \A j \in 1 .. Len(b) + 2 :
              (b \o e)[j] = IF j <= Len(b) THEN b[j] ELSE e[j - Len(b)]
    <3>1. /\ Len(b \o e) = Len(b) + Len(e)
          /\ \A j \in 1 .. Len(b) + Len(e) :
                (b \o e)[j] = IF j <= Len(b) THEN b[j] ELSE e[j - Len(b)]
      <4>1. b \in Seq(T) /\ e \in Seq(T)
        BY <1>1, <1>3
      <4> QED
        BY <4>1, ConcatProperties, Zenon
    <3> QED
      BY <1>1, <3>1
  <2> QED
    BY <1>1, <1>3, <2>1
<1>5. Frame(lead, p) = b \o e
  BY DEF Frame, a, b, h, e
<1> QED
  BY <1>1, <1>3, <1>4, <1>5 DEF At

(* What nfc_task finds at index 7 of the responses it may be handed.         *)
LEMMA ListResponse ==
    ASSUME NEW u \in Uids
    PROVE  /\ At(Frame(2, <<213, 75, 1, 1, 0, 4, 8, 1, u>>), 7) = 1
           /\ At(Frame(2, <<213, 75, 1, 1, 0, 4, 8, 1, u>>), 13) = u
<1> DEFINE p == <<213, 75, 1, 1, 0, 4, 8, 1, u>>
<1>1. p \in Seq(Int) /\ Len(p) = 9 /\ p[3] = 1 /\ p[9] = u
  BY PN532Assumption DEF Byte
<1> HIDE DEF p
<1>2. \A j \in 1 .. 9 : At(Frame(2, p), 2 + 2 + j) = p[j]
  BY <1>1, FrameAt
<1>3. At(Frame(2, p), 7) = p[3] /\ At(Frame(2, p), 13) = p[9]
  BY <1>2
<1> QED
  BY <1>1, <1>3 DEF p

LEMMA StatusResponse ==
    ASSUME NEW s \in Statuses
    PROVE  At(Frame(1, <<213, 65, s>>), 7) \notin {0, 1}
<1> DEFINE p == <<213, 65, s>>
<1>1. p \in Seq(Int) /\ Len(p) = 3
  BY DEF Statuses
<1>2. Checksum(p) \notin {0, 1}
  BY ChecksumOfStatus
<1> HIDE DEF p
<1>3. At(Frame(1, p), 1 + 3 + 3) = Checksum(p)
  BY <1>1, FrameAt
<1> QED
  BY <1>2, <1>3 DEF p

LEMMA SamResponse == At(Frame(1, <<213, 21>>), 7) = 0
<1> DEFINE p == <<213, 21>>
<1>1. p \in Seq(Int) /\ Len(p) = 2
  OBVIOUS
<1> HIDE DEF p
<1>2. At(Frame(1, p), 1 + 4 + 2) = 0
  BY <1>1, FrameAt
<1> QED
  BY <1>2 DEF p

LEMMA SilenceResponse == At(Silence, 7) = 255
BY DEF At, Silence

LEMMA BlockOfKey ==
    ASSUME NEW k \in Keys
    PROVE  /\ BlockOf(k) \in Seq(Byte)
           /\ Len(BlockOf(k)) = BlockBytes
           /\ BlockOf(k)[1] = 0
           /\ \A i \in 1 .. BlockBytes - 1 : BlockOf(k)[1 + i] = k[i]
<1>1. k \in Seq(Byte) /\ Len(k) = BlockBytes - 1 /\ BlockBytes \in Nat
  BY PN532Assumption
<1>2. <<0>> \in Seq(Byte) /\ Len(<<0>>) = 1 /\ <<0>>[1] = 0
  BY DEF Byte
<1> DEFINE z == <<0>>
<1> HIDE DEF z
<1>3. /\ z \o k \in Seq(Byte)
      /\ Len(z \o k) = Len(z) + Len(k)
      /\ \A i \in 1 .. Len(z) + Len(k) :
            (z \o k)[i] = IF i <= Len(z) THEN z[i] ELSE k[i - Len(z)]
  <2>1. z \in Seq(Byte)
    BY <1>2 DEF z
  <2> QED
    BY <1>1, <2>1, ConcatProperties, Zenon
<1>4. Len(z) = 1 /\ z[1] = 0
  BY <1>2 DEF z
<1>5. BlockOf(k) = z \o k
  BY DEF BlockOf, z
<1> QED
  BY <1>1, <1>3, <1>4, <1>5

(* With one byte of lead the status is not at index 7, but the zero byte of  *)
(* the block is, and the key follows it.                                     *)
LEMMA ReadResponse ==
    ASSUME NEW k \in Keys
    PROVE  /\ DataExchangeOK \o BlockOf(k) \in Seq(Byte)
           /\ At(Frame(1, DataExchangeOK \o BlockOf(k)), 7) = 0
           /\ KeyOf([i \in 1 .. BlockBytes |->
                        At(Frame(1, DataExchangeOK \o BlockOf(k)), 7 + i)]) = k
<1> DEFINE d == DataExchangeOK
           b == BlockOf(k)
           p == d \o b
<1>1. d \in Seq(Byte) /\ Len(d) = 3
  BY DEF DataExchangeOK, Byte
<1>2. /\ b \in Seq(Byte) /\ Len(b) = BlockBytes /\ b[1] = 0
      /\ \A i \in 1 .. BlockBytes - 1 : b[1 + i] = k[i]
  BY BlockOfKey
<1>3. BlockBytes \in Nat \ {0, 1} /\ k \in [1 .. BlockBytes - 1 -> Byte]
  BY PN532Assumption
<1> HIDE DEF d, b
<1>4. /\ p \in Seq(Byte)
      /\ Len(p) = Len(d) + Len(b)
      /\ \A i \in 1 .. Len(d) + Len(b) : p[i] = IF i <= Len(d) THEN d[i] ELSE b[i - Len(d)]
  <2>1. d \in Seq(Byte) /\ b \in Seq(Byte)
    BY <1>1, <1>2
  <2> QED
    BY <2>1, ConcatProperties, Zenon
<1> HIDE DEF p
<1>5. Len(p) = 3 + BlockBytes /\ p[4] = 0 /\ \A i \in 1 .. BlockBytes - 1 : p[4 + i] = k[i]
  BY <1>1, <1>2, <1>3, <1>4
<1>6. \A j \in 1 .. Len(p) : At(Frame(1, p), 1 + 2 + j) = p[j]
  BY <1>4, FrameAt
<1>7. At(Frame(1, p), 7) = 0 /\ \A i \in 1 .. BlockBytes - 1 : At(Frame(1, p), 7 + i) = k[i]
  <2>1. At(Frame(1, p), 1 + 2 + 4) = p[4]
    BY <1>3, <1>5, <1>6
  <2>2. ASSUME NEW i \in 1 .. BlockBytes - 1
        PROVE  At(Frame(1, p), 7 + i) = k[i]
    <3>1. 4 + i \in 1 .. Len(p) /\ 1 + 2 + (4 + i) = 7 + i
      BY <1>3, <1>5
    <3>2. At(Frame(1, p), 1 + 2 + (4 + i)) = p[4 + i]
      BY <1>6, <3>1
    <3> QED
      BY <1>5, <3>1, <3>2
  <2> QED
    BY <1>5, <2>1, <2>2
<1>8. KeyOf([i \in 1 .. BlockBytes |-> At(Frame(1, p), 7 + i)]) = k
  <2> DEFINE data == [i \in 1 .. BlockBytes |-> At(Frame(1, p), 7 + i)]
  <2>1. KeyOf(data) = [i \in 1 .. BlockBytes - 1 |-> data[i]]
    BY <1>3 DEF KeyOf
  <2>2. \A i \in 1 .. BlockBytes - 1 : data[i] = k[i]
    BY <1>3, <1>7
  <2>3. [i \in 1 .. BlockBytes - 1 |-> data[i]] = k
    <3> HIDE DEF data
    <3> QED
      BY <1>3, <2>2
  <2> QED
    BY <2>1, <2>3
<1> QED
  BY <1>4, <1>7, <1>8 DEF p, d, b

-----------------------------------------------------------------------------
(* The invariant.                                                            *)

LEMMA DriverInvInit == PN532Init => DriverInv
<1> SUFFICES ASSUME PN532Init
             PROVE  DriverInv
  OBVIOUS
<1>1. PN532TypeOK
  <2>1. << >> \in Seq(Byte) /\ "begin" \in Calls /\ "send" \in Phases
    BY DEF Calls, Phases
  <2> QED
    BY <2>1 DEF PN532Init, PN532TypeOK
<1> QED
  BY <1>1 DEF PN532Init, DriverInv, PhasesAgree, OutOfCommand, CommandOfCall, CardOfTurn,
              KeyOfTurn, PendingWrite

LEMMA CardsMove ==
    ASSUME DriverInv, PutCard \/ TakeCard \/ DisturbanceEnds
    PROVE  DriverInv'
<1> USE DEF chip_vars, task_vars
<1>1. PN532TypeOK'
  <2>1. CASE PutCard
    BY <2>1 DEF PutCard, DriverInv, PN532TypeOK
  <2>2. CASE TakeCard
    BY <2>2 DEF TakeCard, DriverInv, PN532TypeOK
  <2>3. CASE DisturbanceEnds
    BY <2>3 DEF DisturbanceEnds, DriverInv, PN532TypeOK
  <2> QED
    BY <2>1, <2>2, <2>3
<1>2. /\ UNCHANGED <<block, chip, cmd, out, call, phase, uid, key, new_key, accepted>>
      /\ target' \in {target, None}
  BY DEF PutCard, TakeCard, DisturbanceEnds
<1>3. OutOfCommand'
  BY <1>2 DEF DriverInv, OutOfCommand
<1> QED
  BY <1>1, <1>2, <1>3 DEF DriverInv, PhasesAgree, CommandOfCall, CardOfTurn, KeyOfTurn,
                          PendingWrite, InCall

-----------------------------------------------------------------------------
(* The chip.                                                                 *)

LEMMA ChipAcknowledgesKeeps ==
    ASSUME DriverInv, ChipAcknowledges
    PROVE  DriverInv'
BY DEF DriverInv, PN532TypeOK, PhasesAgree, OutOfCommand, CommandOfCall, CardOfTurn,
       KeyOfTurn, PendingWrite, InCall, ChipAcknowledges, card_vars, task_vars

(* What is left to show of an answer.                                        *)
LEMMA ChipAnswersKeeps ==
    ASSUME DriverInv, NEW payload \in Seq(Byte), ChipAnswers(payload),
           block' \in [Uids -> Blocks], target' \in Uids \cup {None}, authed' \in BOOLEAN,
           authed' => target' # None,
           uid # None => target' \in {uid, None},
           OutOfCommand'
    PROVE  DriverInv'
<1> USE DEF task_vars
<1>1. UNCHANGED <<cmd, call, phase, uid, key, new_key, accepted>>
  BY DEF ChipAnswers
<1>2. chip = "work" /\ chip' = "done" /\ out' = payload
  BY DEF ChipAnswers
<1>3. PN532TypeOK'
  BY <1>1, <1>2 DEF ChipAnswers, DriverInv, PN532TypeOK
<1> QED
  BY <1>1, <1>2, <1>3 DEF DriverInv, PhasesAgree, CommandOfCall, CardOfTurn, KeyOfTurn,
                          PendingWrite, InCall

LEMMA PayloadTypes ==
    /\ <<213, 3, 50, 1, 6, 7>> \in Seq(Byte)
    /\ <<213, 21>> \in Seq(Byte)
    /\ \A u \in Uids : <<213, 75, 1, 1, 0, 4, 8, 1, u>> \in Seq(Byte)
    /\ \A s \in Statuses : <<213, 65, s>> \in Seq(Byte)
<1>1. ASSUME NEW u \in Uids
      PROVE  <<213, 75, 1, 1, 0, 4, 8, 1, u>> \in Seq(Byte)
  BY PN532Assumption DEF Byte
<1>2. ASSUME NEW s \in Statuses
      PROVE  <<213, 65, s>> \in Seq(Byte)
  BY DEF Byte, Statuses
<1>3. <<213, 3, 50, 1, 6, 7>> \in Seq(Byte) /\ <<213, 21>> \in Seq(Byte)
  BY DEF Byte
<1> QED
  BY <1>1, <1>2, <1>3

LEMMA ChipStepKeeps ==
    ASSUME DriverInv, ChipStep
    PROVE  DriverInv'
<1>1. CASE ChipAcknowledges
  BY <1>1, ChipAcknowledgesKeeps
<1>2. CASE ChipConfigures
  <2>1. PICK payload \in Seq(Byte) : ChipAnswers(payload)
    BY <1>2, PayloadTypes DEF ChipConfigures
  <2>2. OutOfCommand'
    BY <1>2 DEF ChipConfigures, ChipAnswers, OutOfCommand
  <2>3. UNCHANGED <<block, target, authed>>
    BY <1>2 DEF ChipConfigures
  <2> QED
    BY <2>1, <2>2, <2>3, ChipAnswersKeeps DEF DriverInv, PN532TypeOK, CardOfTurn
<1>3. CASE ChipLists
  <2>1. field \in Uids /\ target' = field /\ authed' = FALSE /\ block' = block /\ field # None
    BY <1>3, PN532Assumption DEF ChipLists, DriverInv, PN532TypeOK
  <2>2. ChipAnswers(<<213, 75, 1, 1, 0, 4, 8, 1, field>>) /\ cmd.name = "list"
    BY <1>3 DEF ChipLists
  <2>3. OutOfCommand'
    BY <2>1, <2>2 DEF ChipAnswers, OutOfCommand
  <2>4. uid = None
    BY <2>2 DEF DriverInv, CardOfTurn, ChipAnswers
  <2>5. <<213, 75, 1, 1, 0, 4, 8, 1, field>> \in Seq(Byte)
    BY <2>1, PayloadTypes
  <2> QED
    BY <2>1, <2>2, <2>3, <2>4, <2>5, ChipAnswersKeeps DEF DriverInv, PN532TypeOK
<1>4. CASE ChipExchanges
  <2>1. /\ target \in Uids /\ target # None
        /\ authed' = TRUE /\ target' = target /\ chip = "work"
    BY <1>4, PN532Assumption DEF ChipExchanges, ChipAnswers, Executable, DriverInv, PN532TypeOK
  <2>2. cmd \in Commands /\ cmd.name \in {"auth", "read", "write"}
    BY <1>4, <2>1 DEF ChipExchanges, DriverInv, CommandOfCall
  <2>3. block' \in [Uids -> Blocks]
    <3>1. CASE cmd.name = "write"
      <4>1. cmd.data \in Blocks
        BY <2>2, <3>1 DEF Commands
      <4> QED
        BY <1>4, <3>1, <4>1, <2>1 DEF ChipExchanges, DriverInv, PN532TypeOK
    <3> QED
      BY <1>4, <3>1 DEF ChipExchanges, DriverInv, PN532TypeOK
  <2>4. uid # None => target = uid
    BY <2>1, PN532Assumption DEF DriverInv, CardOfTurn
  <2>5. CASE cmd.name = "read"
    <3>1. ChipAnswers(DataExchangeOK \o block[target]) /\ block' = block
      BY <1>4, <2>5 DEF ChipExchanges
    <3>2. PICK k \in Keys : block[target] = BlockOf(k)
      BY <2>1 DEF DriverInv, PN532TypeOK, Blocks
    <3>3. DataExchangeOK \o block[target] \in Seq(Byte)
      BY <3>2, ReadResponse
    <3>4. UNCHANGED <<cmd, uid>> /\ out' = DataExchangeOK \o block[target]
      BY <3>1 DEF ChipAnswers, task_vars
    <3>5. OutOfCommand'
      BY <2>1, <2>4, <2>5, <3>1, <3>4 DEF OutOfCommand
    <3> QED
      BY <2>1, <2>3, <2>4, <3>1, <3>3, <3>5, ChipAnswersKeeps DEF DriverInv, PN532TypeOK
  <2>6. CASE cmd.name # "read"
    <3>1. ChipAnswers(<<213, 65, 0>>)
      BY <1>4, <2>6 DEF ChipExchanges, DataExchangeOK
    <3>2. UNCHANGED cmd /\ out' = <<213, 65, 0>>
      BY <3>1 DEF ChipAnswers
    <3>3. OutOfCommand'
      BY <2>2, <2>6, <3>2 DEF OutOfCommand, Statuses
    <3>4. <<213, 65, 0>> \in Seq(Byte)
      BY PayloadTypes DEF Statuses
    <3> QED
      BY <2>1, <2>3, <2>4, <3>1, <3>3, <3>4, ChipAnswersKeeps DEF DriverInv, PN532TypeOK
  <2> QED
    BY <2>5, <2>6
<1>5. CASE ChipReportsError
  <2>1. PICK s \in {1, 20, 39} : ChipAnswers(<<213, 65, s>>)
    BY <1>5 DEF ChipReportsError
  <2>2. UNCHANGED <<block, target, cmd>> /\ authed' = FALSE /\ out' = <<213, 65, s>>
    BY <1>5, <2>1 DEF ChipReportsError, ChipAnswers
  <2>3. OutOfCommand'
    BY <1>5, <2>2 DEF ChipReportsError, OutOfCommand, Statuses
  <2>4. <<213, 65, s>> \in Seq(Byte)
    BY PayloadTypes DEF Statuses
  <2> QED
    BY <2>1, <2>2, <2>3, <2>4, ChipAnswersKeeps DEF DriverInv, PN532TypeOK, CardOfTurn
<1> QED
  BY <1>1, <1>2, <1>3, <1>4, <1>5 DEF ChipStep

-----------------------------------------------------------------------------
(* The task.                                                                 *)

(* What the calls do to the chip, once it has a command.                     *)
ChipMoves ==
    \/ chip' = chip
    \/ chip' = "idle"
    \/ chip = "ack" /\ chip' = "work"

(* A call goes on without the chip's having changed what it is to do.        *)
LEMMA GoKeeps ==
    ASSUME DriverInv, phase' \in Phases,
           UNCHANGED <<call, uid, key, new_key, accepted>>,
           UNCHANGED <<card_vars, target, authed, cmd, out>>,
           ChipMoves,
           phase' = "wait" => chip' \in {"work", "done", "idle"},
           phase' = "take" => chip' = "done"
    PROVE  DriverInv'
<1> USE DEF card_vars, ChipMoves
<1>1. PN532TypeOK'
  BY DEF DriverInv, PN532TypeOK
<1>2. OutOfCommand'
  BY DEF DriverInv, OutOfCommand
<1> QED
  BY <1>1, <1>2 DEF DriverInv, PhasesAgree, CommandOfCall, CardOfTurn, KeyOfTurn,
                          PendingWrite, InCall

LEMMA writecommandKeeps ==
    ASSUME DriverInv, writecommand
    PROVE  DriverInv'
<1>1. CASE UNCHANGED <<chip, cmd>>
  <2>1. Go("send", "wait_ack") /\ UNCHANGED <<card_vars, target, authed, cmd, out>>
    BY <1>1 DEF writecommand
  <2>2. "wait_ack" \in Phases /\ ChipMoves
    BY <1>1 DEF Phases, ChipMoves
  <2> QED
    BY <2>1, <2>2, GoKeeps DEF Go
<1>2. CASE chip' = "got" /\ cmd' = Command
  <2>1. /\ UNCHANGED <<card_vars, target, authed, out, call, uid, key, new_key, accepted>>
        /\ phase' = "wait_ack" /\ InCall
    BY DEF writecommand, Go
  <2>2. call \in {"begin", "version", "sam", "list", "auth", "read", "write_auth", "write"}
    BY <2>1 DEF DriverInv, PN532TypeOK, Calls, InCall
  <2>3. /\ cmd' \in Commands
        /\ cmd'.name = "version" => call \in {"begin", "version"}
        /\ cmd'.name = "sam" => call = "sam"
        /\ cmd'.name = "list" => call = "list"
        /\ cmd'.name = "write" => call = "write" /\ cmd'.data = BlockOf(new_key)
    <3>1. CASE call \in {"begin", "version"}
      BY <1>2, <3>1 DEF Command, Commands
    <3>2. CASE call = "sam"
      BY <1>2, <3>2 DEF Command, Commands
    <3>3. CASE call = "list"
      BY <1>2, <3>3 DEF Command, Commands
    <3>4. CASE call \in {"auth", "write_auth"}
      BY <1>2, <3>4 DEF Command, Commands, DriverInv, PN532TypeOK
    <3>5. CASE call = "read"
      BY <1>2, <3>5 DEF Command, Commands
    <3>6. CASE call = "write"
      <4>1. BlockOf(new_key) \in Blocks
        BY <3>6 DEF Blocks, DriverInv, KeyOfTurn
      <4>2. cmd' = [name |-> "write", data |-> BlockOf(new_key)]
        BY <1>2, <3>6 DEF Command, WriteCommand
      <4> QED
        BY <3>6, <4>1, <4>2 DEF Commands
    <3> QED
      BY <2>2, <3>1, <3>2, <3>3, <3>4, <3>5, <3>6
  <2>4. cmd'.name \in {"version", "sam", "list", "auth", "read", "write"}
    BY <2>3 DEF Commands
  <2>5. PN532TypeOK'
    BY <1>2, <2>1, <2>3 DEF card_vars, DriverInv, PN532TypeOK, Phases
  <2>6. OutOfCommand' /\ PhasesAgree'
    BY <1>2, <2>1 DEF OutOfCommand, PhasesAgree
  <2>7. CommandOfCall'
    BY <1>2, <2>1, <2>3 DEF CommandOfCall, DriverInv, CardOfTurn
  <2>8. CardOfTurn'
    BY <1>2, <2>1, <2>3, <2>4 DEF DriverInv, CardOfTurn
  <2>9. KeyOfTurn'
    BY <1>2, <2>1, <2>3 DEF DriverInv, KeyOfTurn, InCall, card_vars
  <2>10. PendingWrite'
    BY <1>2, <2>1, <2>3 DEF DriverInv, KeyOfTurn, CardOfTurn, PendingWrite
  <2> QED
    BY <2>5, <2>6, <2>7, <2>8, <2>9, <2>10 DEF DriverInv
<1> QED
  BY <1>1, <1>2 DEF writecommand

LEMMA waitreadyKeeps ==
    ASSUME DriverInv, waitready
    PROVE  DriverInv'
<1> Phases = {"send", "wait_ack", "ack", "wait", "take"}
  BY DEF Phases
<1>3. UNCHANGED <<card_vars, target, authed, cmd, out>> /\ ChipMoves /\ chip' = chip
  BY DEF waitready, chip_vars, ChipMoves
<1>1. CASE Go("wait_ack", "ack")
  BY <1>1, <1>3, GoKeeps DEF Go
<1>2. CASE Go("wait", "take")
  <2>1. chip = "done"
    BY <1>2 DEF waitready, isready, Go, DriverInv, PhasesAgree
  <2> QED
    BY <1>2, <1>3, <2>1, GoKeeps DEF Go
<1> QED
  BY <1>1, <1>2 DEF waitready

(* A call returns, and the next begins; found is what uid then is.           *)
LEMMA EnterKeeps ==
    ASSUME DriverInv, NEW next \in Calls, Enter(next),
           UNCHANGED <<card_vars, target, authed, cmd, out, new_key, accepted>>,
           ChipMoves,
           uid' \in {uid, None},
           key' \in {key, None},
           chip' # "idle" /\ cmd.name = "version" => next \in {"begin", "version", "no_board"},
           uid' # None => next \in {"auth", "read", "write_auth", "write"},
           next # "session",
           next \in {"write_auth", "write"} => call = "write_auth" /\ uid' = uid
    PROVE  DriverInv'
<1> USE DEF card_vars, Enter, ChipMoves
<1>1. PN532TypeOK'
  BY DEF DriverInv, PN532TypeOK, Phases
<1>2. OutOfCommand'
  BY DEF DriverInv, OutOfCommand
<1>3. PhasesAgree'
  BY DEF PhasesAgree
<1>4. CommandOfCall'
  BY DEF DriverInv, CommandOfCall
<1>5. CardOfTurn'
  BY DEF DriverInv, CardOfTurn
<1>6. KeyOfTurn'
  BY DEF DriverInv, KeyOfTurn
<1>7. PendingWrite'
  BY DEF DriverInv, PendingWrite
<1> QED
  BY <1>1, <1>2, <1>3, <1>4, <1>5, <1>6, <1>7 DEF DriverInv

LEMMA FailsKeeps ==
    ASSUME DriverInv, Fails,
           UNCHANGED <<card_vars, target, authed, cmd, out>>,
           ChipMoves
    PROVE  DriverInv'
<1> USE DEF Returned, ChipMoves
<1>1. chip' # "idle" /\ cmd.name = "version" => call \in {"begin", "version", "no_board"}
  BY DEF DriverInv, CommandOfCall
<1>2. uid # None => call \in {"auth", "read", "session", "write_auth", "write"}
  BY DEF DriverInv, CardOfTurn
<1>3. ASSUME NextTurn, call \notin {"begin", "version", "no_board"}
      PROVE  DriverInv'
  BY <1>1, <1>3, EnterKeeps DEF NextTurn, Calls
<1>4. CASE call = "begin" /\ Returned("version")
  BY <1>1, <1>2, <1>4, EnterKeeps DEF Calls
<1>5. CASE call = "version" /\ VersionReturned(0)
  BY <1>1, <1>2, <1>5, EnterKeeps DEF VersionReturned, Calls
<1>6. CASE call = "sam" /\ Returned("list")
  BY <1>1, <1>2, <1>6, EnterKeeps DEF Calls
<1>7. CASE call = "list" /\ ListReturned(None)
  BY <1>1, <1>2, <1>7, EnterKeeps DEF ListReturned, Calls
<1>8. CASE call \in {"auth", "write_auth"} /\ AuthReturned
  BY <1>1, <1>2, <1>8, EnterKeeps DEF AuthReturned, Calls
<1>9. CASE call = "read" /\ ReadReturned(None)
  BY <1>3, <1>9 DEF ReadReturned
<1>10. CASE call = "write" /\ WriteReturned
  BY <1>3, <1>10 DEF WriteReturned
<1> QED
  BY <1>4, <1>5, <1>6, <1>7, <1>8, <1>9, <1>10 DEF Fails

LEMMA TimedOutKeeps ==
    ASSUME DriverInv, TimedOut
    PROVE  DriverInv'
<1>1. Fails /\ UNCHANGED <<card_vars, target, authed, cmd, out>> /\ ChipMoves
  BY DEF TimedOut, chip_vars, ChipMoves
<1> QED
  BY <1>1, FailsKeeps

LEMMA readackKeeps ==
    ASSUME DriverInv, readack
    PROVE  DriverInv'
<1>1. PICK frame \in Readable :
        readdata(frame) /\ IF AckMatches(frame) THEN Go("ack", "wait") ELSE Fails
  BY DEF readack
<1>2. /\ UNCHANGED <<card_vars, target, authed, cmd, out>>
      /\ ChipMoves
      /\ chip' \in {"work", "idle"}
  BY <1>1 DEF readdata, ChipMoves
<1>3. CASE AckMatches(frame)
  <2>1. Go("ack", "wait") /\ "wait" \in Phases
    BY <1>1, <1>3 DEF Phases
  <2> QED
    BY <1>2, <2>1, GoKeeps DEF Go
<1>4. CASE ~AckMatches(frame)
  BY <1>1, <1>2, <1>4, FailsKeeps
<1> QED
  BY <1>3, <1>4

(* Only the answer to a poll looks like a card found, however late the       *)
(* answers to other commands come.                                           *)
LEMMA FoundIsListed ==
    ASSUME DriverInv, Lead = 1, call = "list", chip = "done",
           NEW frame \in {Frame(LeadOf(cmd.name), out), Silence}, At(frame, 7) = 1
    PROVE  At(frame, 13) \in Uids /\ target \in {At(frame, 13), None}
<1>1. frame = Frame(LeadOf(cmd.name), out)
  BY SilenceResponse
<1>2. cmd.name \in {"sam", "list", "auth", "read", "write"}
  BY DEF DriverInv, CommandOfCall, Commands
<1>3. cmd.name # "list" => LeadOf(cmd.name) = 1
  BY DEF LeadOf
<1>4. cmd.name # "sam"
  BY <1>1, <1>3, SamResponse DEF DriverInv, OutOfCommand
<1>5. \A s \in Statuses : out = <<213, 65, s>> => cmd.name = "list"
  BY <1>1, <1>3, StatusResponse
<1>6. cmd.name \notin {"auth", "write"}
  BY <1>5 DEF DriverInv, OutOfCommand
<1>7. cmd.name # "read"
  <2>1. ASSUME NEW u \in Uids, out = DataExchangeOK \o block[u]
        PROVE  cmd.name # "read"
    <3>1. PICK k \in Keys : block[u] = BlockOf(k)
      BY DEF DriverInv, PN532TypeOK, Blocks
    <3>2. At(Frame(1, out), 7) = 0
      BY <2>1, <3>1, ReadResponse
    <3> QED
      BY <1>1, <1>3, <3>2
  <2> QED
    BY <1>5, <2>1 DEF DriverInv, OutOfCommand, Statuses
<1>8. PICK u \in Uids : out = <<213, 75, 1, 1, 0, 4, 8, 1, u>> /\ target \in {u, None}
  BY <1>2, <1>4, <1>6, <1>7 DEF DriverInv, OutOfCommand
<1>9. LeadOf(cmd.name) = 2
  BY <1>2, <1>4, <1>6, <1>7 DEF LeadOf
<1> QED
  BY <1>1, <1>8, <1>9, ListResponse

(* A key that is read for a card is that of its block.                       *)
LEMMA FoundIsOnCard ==
    ASSUME DriverInv, Lead = 1, uid # None, chip = "done",
           NEW frame \in {Frame(LeadOf(cmd.name), out), Silence}, At(frame, 7) = 0
    PROVE  \E k \in Keys :
             /\ block[uid] = BlockOf(k)
             /\ KeyOf([i \in 1 .. BlockBytes |-> At(frame, 7 + i)]) = k
<1>1. frame = Frame(LeadOf(cmd.name), out)
  BY SilenceResponse
<1>2. cmd.name \in {"auth", "read", "write"} /\ LeadOf(cmd.name) = 1
  BY DEF DriverInv, CardOfTurn, LeadOf
<1>3. \A s \in Statuses : out # <<213, 65, s>>
  BY <1>1, <1>2, StatusResponse
<1>4. PICK u \in Uids : out = DataExchangeOK \o block[u] /\ uid \in {u, None}
  BY <1>2, <1>3 DEF DriverInv, OutOfCommand
<1>5. PICK k \in Keys : block[u] = BlockOf(k)
  BY DEF DriverInv, PN532TypeOK, Blocks
<1> QED
  BY <1>1, <1>2, <1>4, <1>5, ReadResponse

LEMMA ListReturnedKeeps ==
    ASSUME DriverInv, NEW u \in Uids, target \in {u, None}, ListReturned(u),
           UNCHANGED <<card_vars, target, authed, cmd, out>>,
           chip' = "idle"
    PROVE  DriverInv'
<1> USE DEF ListReturned, Enter, card_vars
<1>1. PN532TypeOK'
  BY DEF DriverInv, PN532TypeOK, Calls, Phases
<1> QED
  BY <1>1 DEF DriverInv, PhasesAgree, OutOfCommand, CommandOfCall, CardOfTurn, KeyOfTurn,
              PendingWrite

LEMMA SessionBeginsKeeps ==
    ASSUME DriverInv, uid # None, NEW k \in Keys, block[uid] = BlockOf(k),
           Enter("session"), key' = k,
           UNCHANGED <<card_vars, target, authed, cmd, out, uid, new_key, accepted>>,
           chip' = "idle"
    PROVE  DriverInv'
<1> USE DEF Enter, card_vars
<1>1. PN532TypeOK'
  BY PN532Assumption DEF DriverInv, PN532TypeOK, Calls, Phases
<1> QED
  BY <1>1 DEF DriverInv, PhasesAgree, OutOfCommand, CommandOfCall, CardOfTurn, KeyOfTurn,
              PendingWrite

LEMMA TakeResponseKeeps ==
    ASSUME DriverInv, Lead = 1, TakeResponse
    PROVE  DriverInv'
<1>1. PICK frame \in Readable :
        /\ readdata(frame)
        /\ \/ TakeVersion(frame)
           \/ call = "sam" /\ Returned("list")
           \/ TakeList(frame)
           \/ call \in {"auth", "write_auth"} /\ AuthReturned
           \/ TakeRead(frame)
           \/ TakeWrite
  BY DEF TakeResponse
<1>2. chip = "done" /\ phase = "take"
  BY <1>1 DEF TakeResponse, readdata, DriverInv, PhasesAgree
<1>3. /\ frame \in {Frame(LeadOf(cmd.name), out), Silence}
      /\ UNCHANGED <<card_vars, target, authed, cmd, out>>
      /\ chip' = "idle"
      /\ ChipMoves
  BY <1>1, <1>2 DEF readdata, ChipMoves
<1>4. uid # None => call \in {"auth", "read", "session", "write_auth", "write"}
  BY DEF DriverInv, CardOfTurn
<1>5. ASSUME NextTurn
      PROVE  DriverInv'
  BY <1>3, <1>5, EnterKeeps DEF NextTurn, Calls
<1>6. CASE TakeVersion(frame)
  BY <1>3, <1>4, <1>6, EnterKeeps DEF TakeVersion, VersionReturned, Returned, Calls
<1>7. CASE call = "sam" /\ Returned("list")
  BY <1>3, <1>4, <1>7, EnterKeeps DEF Returned, Calls
<1>8. CASE TakeList(frame)
  <2>1. call = "list" /\ ListReturned(IF At(frame, 7) = 1 THEN At(frame, 13) ELSE None)
    BY <1>8 DEF TakeList
  <2>2. CASE At(frame, 7) = 1
    <3>1. At(frame, 13) \in Uids /\ target \in {At(frame, 13), None}
      BY <1>2, <1>3, <2>1, <2>2, FoundIsListed
    <3>2. ListReturned(At(frame, 13))
      BY <2>1, <2>2
    <3> QED
      BY <1>3, <3>1, <3>2, ListReturnedKeeps
  <2>3. CASE At(frame, 7) # 1
    <3>1. ListReturned(None)
      BY <2>1, <2>3
    <3> QED
      BY <1>3, <1>4, <3>1, EnterKeeps DEF ListReturned, Calls
  <2> QED
    BY <2>2, <2>3
<1>9. CASE call \in {"auth", "write_auth"} /\ AuthReturned
  BY <1>3, <1>4, <1>9, EnterKeeps DEF AuthReturned, Returned, Calls
<1>10. CASE TakeRead(frame)
  <2> DEFINE data == KeyOf([i \in 1 .. BlockBytes |-> At(frame, 7 + i)])
  <2>1. ReadReturned(IF At(frame, 7) = 0 THEN data ELSE None)
    BY <1>10 DEF TakeRead
  <2>2. CASE NextTurn
    BY <1>5, <2>2
  <2>3. CASE uid # None /\ At(frame, 7) = 0 /\ ~NextTurn
    <3>1. PICK k \in Keys : block[uid] = BlockOf(k) /\ data = k
      BY <1>2, <1>3, <2>3, FoundIsOnCard
    <3>2. Enter("session") /\ key' = k /\ UNCHANGED <<uid, new_key, accepted>>
      BY <2>1, <2>3, <3>1 DEF ReadReturned
    <3> QED
      BY <1>3, <2>3, <3>1, <3>2, SessionBeginsKeeps
  <2> QED
    BY <2>1, <2>2, <2>3 DEF ReadReturned
<1>11. CASE TakeWrite
  BY <1>5, <1>11 DEF TakeWrite, WriteReturned
<1> QED
  BY <1>1, <1>6, <1>7, <1>8, <1>9, <1>10, <1>11

LEMMA BeginReturnsKeeps ==
    ASSUME DriverInv, BeginReturns
    PROVE  DriverInv'
<1>1. UNCHANGED <<card_vars, target, authed, cmd, out>> /\ ChipMoves /\ chip' = chip
  BY DEF BeginReturns, chip_vars, ChipMoves
<1>2. call = "begin" /\ Enter("version") /\ UNCHANGED <<uid, key, new_key, accepted>>
  BY DEF BeginReturns, Returned
<1>3. uid = None
  BY <1>2 DEF DriverInv, CardOfTurn
<1>4. "version" \in Calls
  BY DEF Calls
<1> QED
  BY <1>1, <1>2, <1>3, <1>4, EnterKeeps

LEMMA SessionKeeps ==
    ASSUME DriverInv, SessionRefused \/ SessionAccepted
    PROVE  DriverInv'
<1>1. CASE SessionRefused
  <2>1. UNCHANGED <<card_vars, target, authed, cmd, out>> /\ ChipMoves /\ chip' = chip
    BY <1>1 DEF SessionRefused, chip_vars, ChipMoves
  <2>2. chip = "idle"
    BY <1>1 DEF SessionRefused, DriverInv, KeyOfTurn
  <2>3. Enter("list") /\ uid' = None /\ key' = None /\ UNCHANGED <<new_key, accepted>>
    BY <1>1 DEF SessionRefused, NextTurn
  <2>4. "list" \in Calls
    BY DEF Calls
  <2> QED
    BY <2>1, <2>2, <2>3, <2>4, EnterKeeps
<1>2. CASE SessionAccepted
  <2> USE <1>2 DEF SessionAccepted, Enter, card_vars, chip_vars
  <2>1. chip = "idle" /\ uid # None
    BY DEF DriverInv, KeyOfTurn
  <2>2. PN532TypeOK'
    BY DEF DriverInv, PN532TypeOK, Calls, Phases
  <2> QED
    BY <2>1, <2>2 DEF DriverInv, PhasesAgree, OutOfCommand, CommandOfCall, CardOfTurn,
       KeyOfTurn, PendingWrite
<1> QED
  BY <1>1, <1>2

LEMMA DriverInvStep ==
    ASSUME Lead = 1
    PROVE  DriverInv /\ [PN532Next]_pn532_vars => DriverInv'
<1> SUFFICES ASSUME DriverInv, [PN532Next]_pn532_vars
             PROVE  DriverInv'
  OBVIOUS
<1>1. CASE TaskStep
  BY <1>1, writecommandKeeps, waitreadyKeeps, TimedOutKeeps, readackKeeps,
     TakeResponseKeeps, BeginReturnsKeeps, SessionKeeps DEF TaskStep
<1>2. CASE UNCHANGED pn532_vars
  BY <1>2 DEF pn532_vars, card_vars, chip_vars, task_vars, DriverInv, PN532TypeOK,
     PhasesAgree, OutOfCommand, CommandOfCall, CardOfTurn, KeyOfTurn, PendingWrite, InCall
<1> QED
  BY <1>1, <1>2, CardsMove, ChipStepKeeps DEF PN532Next

LEMMA DriverInvariant ==
    ASSUME Lead = 1
    PROVE  PN532Spec => []DriverInv
<1> QED
  BY DriverInvInit, DriverInvStep, PTL DEF PN532Spec

-----------------------------------------------------------------------------
(* Type correctness: what is taken for a UID or a key out of whatever frame  *)
(* has arrived is one (PN532.c:350-404, 673-718).                              *)
THEOREM DriverWellTyped ==
    ASSUME Lead = 1
    PROVE  PN532Spec => []PN532TypeOK
<1>1. DriverInv => PN532TypeOK
  BY DEF DriverInv
<1> QED
  BY <1>1, DriverInvariant, PTL

(* The key that is sent to the server is the one on the card whose UID goes  *)
(* with it, whatever cards, keys and faults there are (main.c:134-188).      *)
THEOREM KeyGoesWithItsCard ==
    ASSUME Lead = 1
    PROVE  PN532Spec => []KeyReadIsOnCard
<1>1. DriverInv => KeyReadIsOnCard
  BY DEF DriverInv, KeyOfTurn, KeyReadIsOnCard
<1> QED
  BY <1>1, DriverInvariant, PTL

(* Only the card whose key was accepted is written, with the key that was    *)
(* sent for it, whichever card lies on the reader (card_reader.c:94-120).    *)
THEOREM WritesStayOnAcceptedCard ==
    ASSUME Lead = 1
    PROVE  PN532Spec => OnlyAcceptedCardWritten
<1>1. ASSUME DriverInv, [PN532Next]_pn532_vars
      PROVE  [\A u \in Uids : block'[u] # block[u] =>
                u = accepted /\ block'[u] = BlockOf(new_key)]_pn532_vars
  <2> SUFFICES ASSUME NEW u \in Uids, block'[u] # block[u]
               PROVE  u = accepted /\ block'[u] = BlockOf(new_key)
    OBVIOUS
  <2>1. ChipExchanges
    BY <1>1 DEF PN532Next, PutCard, TakeCard, DisturbanceEnds, ChipStep, TaskStep,
       ChipAcknowledges, ChipConfigures, ChipLists, ChipReportsError, writecommand,
       waitready, TimedOut, readack, readdata, TakeResponse, BeginReturns, SessionRefused,
       SessionAccepted, card_vars, pn532_vars
  <2>2. cmd.name = "write" /\ chip = "work" /\ block' = [block EXCEPT ![target] = cmd.data]
    BY <2>1 DEF ChipExchanges, ChipAnswers
  <2>3. target \in Uids /\ target # None
    BY <2>1, PN532Assumption DEF ChipExchanges, Executable, DriverInv, PN532TypeOK
  <2>4. u = target /\ block'[u] = cmd.data
    BY <1>1, <2>2, <2>3 DEF DriverInv, PN532TypeOK
  <2> QED
    BY <1>1, <2>2, <2>3, <2>4 DEF DriverInv, PendingWrite
<1> QED
  BY <1>1, DriverInvariant, PTL DEF PN532Spec, OnlyAcceptedCardWritten

-----------------------------------------------------------------------------
(* The driver implements CardIO.  To DriverInv it takes that the chip knows  *)
(* no card but the one on the reader, and that no write of an earlier        *)
(* session is left when the next one is about to be sent.                    *)
WriteAhead == call = "write_auth" \/ (call = "write" /\ phase = "send")

WriteAtChip == chip \in {"got", "ack", "work"} /\ cmd.name = "write"

CardIOInv ==
    /\ DriverInv
    /\ target \in {field, None}
    /\ WriteAhead => ~WriteAtChip

LEMMA DueMeans == WriteDue <=> WriteAhead \/ WriteAtChip
BY DEF WriteDue, WriteAhead, WriteAtChip

LEMMA CardIOInvInit == PN532Init => CardIOInv
<1> SUFFICES ASSUME PN532Init
             PROVE  CardIOInv
  OBVIOUS
<1>1. DriverInv
  BY DriverInvInit
<1> QED
  BY <1>1 DEF PN532Init, CardIOInv, WriteAhead

(* A step outside of sessions that executes no write is a loss of what was   *)
(* due, or nothing.                                                          *)
LEMMA QuietStep ==
    ASSUME UNCHANGED <<field, block, new_key, accepted>>,
           call # "session", call' # "session", WriteDue' => WriteDue
    PROVE  [IO!Next]_(IO!cardio_vars)
<1>1. CASE WriteDue' <=> WriteDue
  BY <1>1 DEF IO!cardio_vars
<1>2. CASE WriteDue /\ ~WriteDue'
  BY <1>2 DEF IO!Next, IO!Lose
<1> QED
  BY <1>1, <1>2

(* What the steps of a call have to show.                                    *)
Quiet ==
    /\ UNCHANGED <<field, block, target, new_key, accepted>>
    /\ call # "session" /\ call' # "session"
    /\ WriteAhead' => WriteAhead
    /\ WriteAtChip' => WriteAtChip

LEMMA QuietKeeps ==
    ASSUME CardIOInv, Quiet
    PROVE  /\ target' \in {field', None}
           /\ WriteAhead' => ~WriteAtChip'
           /\ [IO!Next]_(IO!cardio_vars)
<1>1. WriteDue' => WriteDue
  BY DEF Quiet, WriteDue, WriteAhead, WriteAtChip
<1>2. [IO!Next]_(IO!cardio_vars)
  BY <1>1, QuietStep DEF Quiet
<1> QED
  BY <1>2 DEF Quiet, CardIOInv

LEMMA ChipMovesQuietly ==
    ASSUME ChipMoves, UNCHANGED cmd
    PROVE  WriteAtChip' => WriteAtChip
BY DEF ChipMoves, WriteAtChip

LEMMA FailsQuietly ==
    ASSUME Fails, ChipMoves, UNCHANGED <<field, block, target, cmd>>
    PROVE  Quiet
<1>1. UNCHANGED <<new_key, accepted>> /\ call # "session" /\ call' # "session"
      /\ (WriteAhead' => WriteAhead)
  BY PN532Assumption DEF Fails, Returned, VersionReturned, ListReturned, AuthReturned,
     ReadReturned, WriteReturned, NextTurn, Enter, WriteAhead
<1> QED
  BY <1>1, ChipMovesQuietly DEF Quiet

LEMMA ChipStepIO ==
    ASSUME CardIOInv, ChipStep
    PROVE  /\ target' \in {field', None}
           /\ WriteAhead' => ~WriteAtChip'
           /\ [IO!Next]_(IO!cardio_vars)
<1>1. call # "session"
  BY DEF ChipStep, ChipAcknowledges, ChipConfigures, ChipLists, ChipExchanges,
     ChipReportsError, ChipAnswers, CardIOInv, DriverInv, KeyOfTurn
<1>2. CASE ChipAcknowledges
  <2>1. Quiet
    BY <1>1, <1>2 DEF ChipAcknowledges, card_vars, task_vars, Quiet, WriteAhead, WriteAtChip
  <2> QED
    BY <2>1, QuietKeeps
<1>3. ASSUME NEW payload, ChipAnswers(payload), UNCHANGED <<block, target>>
      PROVE  Quiet
  BY <1>1, <1>3 DEF ChipAnswers, task_vars, Quiet, WriteAhead, WriteAtChip
<1>4. CASE ChipConfigures
  <2>1. PICK payload : ChipAnswers(payload) /\ UNCHANGED <<block, target>>
    BY <1>4 DEF ChipConfigures
  <2>2. Quiet
    BY <1>3, <2>1
  <2> QED
    BY <2>2, QuietKeeps
<1>5. CASE ChipLists
  <2>1. /\ UNCHANGED <<field, block, new_key, accepted, call, phase, cmd>>
        /\ target' = field /\ chip' = "done"
    BY <1>5 DEF ChipLists, ChipAnswers, task_vars
  <2>2. (WriteAhead' <=> WriteAhead) /\ ~WriteAtChip'
    BY <2>1 DEF WriteAhead, WriteAtChip
  <2>3. WriteDue' => WriteDue
    BY <2>2 DEF WriteDue, WriteAhead, WriteAtChip
  <2>4. call' # "session"
    BY <1>1, <2>1
  <2> QED
    BY <1>1, <2>1, <2>2, <2>3, <2>4, QuietStep
<1>6. CASE ChipExchanges /\ cmd.name # "write"
  <2>1. PICK payload : ChipAnswers(payload) /\ UNCHANGED <<block, target>>
    BY <1>6 DEF ChipExchanges
  <2>2. Quiet
    BY <1>3, <2>1
  <2> QED
    BY <2>2, QuietKeeps
<1>7. CASE ChipExchanges /\ cmd.name = "write"
  <2>1. /\ UNCHANGED <<field, target, new_key, accepted, call, phase, cmd, uid, key>>
        /\ chip = "work" /\ chip' = "done" /\ target # None
        /\ block' = [block EXCEPT ![target] = cmd.data]
    BY <1>7 DEF ChipExchanges, ChipAnswers, Executable, task_vars
  <2>2. WriteAtChip /\ WriteDue /\ ~WriteAhead
    BY <1>7, <2>1 DEF WriteAtChip, WriteDue, CardIOInv
  <2>3. ~WriteDue' /\ ~WriteAhead' /\ ~WriteAtChip'
    BY <2>1, <2>2 DEF WriteAhead, WriteAtChip, WriteDue
  <2>4. cmd.data = BlockOf(new_key) /\ target = accepted /\ field = accepted
    BY <2>1, <2>2 DEF CardIOInv, DriverInv, PendingWrite, WriteAtChip
  <2> DEFINE w == [card |-> accepted, data |-> BlockOf(new_key)]
  <2>5. IO!Write(w)
    BY <1>1, <2>1, <2>3, <2>4 DEF IO!Write
  <2>6. IO!Next
    BY <2>2, <2>5 DEF IO!Next
  <2> QED
    BY <2>1, <2>3, <2>6 DEF CardIOInv
<1>8. CASE ChipReportsError
  <2>1. PICK payload : ChipAnswers(payload) /\ UNCHANGED <<block, target>>
    BY <1>8 DEF ChipReportsError
  <2>2. Quiet
    BY <1>3, <2>1
  <2> QED
    BY <2>2, QuietKeeps
<1> QED
  BY <1>2, <1>4, <1>5, <1>6, <1>7, <1>8 DEF ChipStep

LEMMA CardsMoveIO ==
    ASSUME CardIOInv, PutCard \/ TakeCard \/ DisturbanceEnds
    PROVE  /\ target' \in {field', None}
           /\ WriteAhead' => ~WriteAtChip'
           /\ [IO!Next]_(IO!cardio_vars)
<1>1. UNCHANGED <<block, chip, cmd, out, task_vars>>
  BY DEF PutCard, TakeCard, DisturbanceEnds, chip_vars
<1>2. /\ (WriteAhead' <=> WriteAhead) /\ (WriteAtChip' <=> WriteAtChip)
      /\ (WriteDue' <=> WriteDue)
  BY <1>1 DEF task_vars, WriteAhead, WriteAtChip, WriteDue
<1>3. CASE DisturbanceEnds
  BY <1>1, <1>2, <1>3 DEF DisturbanceEnds, CardIOInv, IO!cardio_vars, task_vars, chip_vars
<1>4. CASE PutCard \/ TakeCard
  <2>1. \/ field = None /\ field' \in Uids
        \/ field # None /\ field' = None
    BY <1>4 DEF PutCard, TakeCard
  <2>2. IO!Move
    BY <1>1, <1>2, <2>1 DEF IO!Move, task_vars
  <2>3. target' \in {field', None}
    BY <1>4 DEF PutCard, TakeCard, chip_vars, CardIOInv
  <2> QED
    BY <1>2, <2>2, <2>3 DEF IO!Next, CardIOInv
<1> QED
  BY <1>3, <1>4

LEMMA TaskStepIO ==
    ASSUME Lead = 1, CardIOInv, TaskStep
    PROVE  /\ target' \in {field', None}
           /\ WriteAhead' => ~WriteAtChip'
           /\ [IO!Next]_(IO!cardio_vars)
<1>1. CASE writecommand
  <2>1. /\ UNCHANGED <<field, block, target, new_key, accepted, call>>
        /\ phase = "send" /\ phase' = "wait_ack" /\ call # "session"
    BY <1>1 DEF writecommand, Go, card_vars, InCall
  <2>2. WriteAhead' => WriteAhead /\ call = "write_auth"
    BY <2>1 DEF WriteAhead
  <2>3. CASE UNCHANGED <<chip, cmd>>
    <3>1. Quiet
      BY <2>1, <2>2, <2>3 DEF Quiet, WriteAtChip
    <3> QED
      BY <3>1, QuietKeeps
  <2>4. CASE cmd' = Command
    <3>1. cmd'.name = "write" => call = "write"
      <4>1. call \in {"begin", "version", "sam", "list", "auth", "read", "write_auth", "write"}
        BY <1>1 DEF writecommand, Go, CardIOInv, DriverInv, PN532TypeOK, Calls, InCall
      <4> QED
        BY <2>4, <4>1 DEF Command
    <3>2. WriteAtChip' => WriteAhead /\ call = "write"
      BY <2>1, <3>1 DEF WriteAtChip, WriteAhead
    <3>3. WriteDue' => WriteDue
      BY <2>2, <3>2 DEF WriteDue, WriteAhead, WriteAtChip
    <3>4. call' # "session"
      BY <2>1
    <3> QED
      BY <2>1, <2>2, <3>2, <3>3, <3>4, QuietStep DEF CardIOInv
  <2> QED
    BY <1>1, <2>3, <2>4 DEF writecommand
<1>2. CASE waitready
  <2>1. /\ UNCHANGED <<field, block, target, new_key, accepted, call, chip, cmd>>
        /\ phase' # "send" /\ call # "session"
    BY <1>2 DEF waitready, Go, card_vars, chip_vars, InCall
  <2>2. Quiet
    BY <2>1 DEF Quiet, WriteAhead, WriteAtChip
  <2> QED
    BY <2>2, QuietKeeps
<1>3. CASE TimedOut
  <2>1. Fails /\ ChipMoves /\ UNCHANGED <<field, block, target, cmd>>
    BY <1>3 DEF TimedOut, card_vars, chip_vars, ChipMoves
  <2> QED
    BY <2>1, FailsQuietly, QuietKeeps
<1>4. ASSUME NEW frame, readdata(frame)
      PROVE  /\ UNCHANGED <<field, block, target, authed, cmd, out>>
             /\ chip' = IF chip = "ack" THEN "work" ELSE "idle"
             /\ ChipMoves /\ call # "session"
  BY <1>4 DEF readdata, card_vars, ChipMoves, InCall
<1>5. CASE readack
  <2>1. PICK frame \in Readable :
          readdata(frame) /\ IF AckMatches(frame) THEN Go("ack", "wait") ELSE Fails
    BY <1>5 DEF readack
  <2>2. CASE AckMatches(frame)
    <3>1. Quiet
      BY <1>4, <2>1, <2>2, ChipMovesQuietly DEF Go, Quiet, WriteAhead
    <3> QED
      BY <3>1, QuietKeeps
  <2>3. CASE ~AckMatches(frame)
    BY <1>4, <2>1, <2>3, FailsQuietly, QuietKeeps
  <2> QED
    BY <2>2, <2>3
<1>6. CASE TakeResponse
  <2>1. PICK frame \in Readable :
          /\ readdata(frame)
          /\ \/ TakeVersion(frame)
             \/ call = "sam" /\ Returned("list")
             \/ TakeList(frame)
             \/ call \in {"auth", "write_auth"} /\ AuthReturned
             \/ TakeRead(frame)
             \/ TakeWrite
    BY <1>6 DEF TakeResponse
  <2>2. CASE call' # "session"
    <3>1. UNCHANGED <<new_key, accepted>> /\ (WriteAhead' => WriteAhead)
      BY <2>1 DEF TakeVersion, TakeList, TakeRead, TakeWrite, Returned, VersionReturned,
         ListReturned, AuthReturned, ReadReturned, WriteReturned, NextTurn, Enter, WriteAhead
    <3>2. Quiet
      BY <1>4, <2>1, <2>2, <3>1, ChipMovesQuietly DEF Quiet
    <3> QED
      BY <3>2, QuietKeeps
  <2>3. CASE call' = "session"
    <3>1. TakeRead(frame) /\ UNCHANGED <<uid, new_key, accepted>> /\ call = "read"
      BY <2>1, <2>3 DEF TakeVersion, TakeList, TakeRead, TakeWrite, Returned, VersionReturned,
         ListReturned, AuthReturned, ReadReturned, WriteReturned, NextTurn, Enter
    <3>2. DriverInv'
      BY <1>6, TakeResponseKeeps DEF CardIOInv
    <3>3. uid' \in Uids /\ BlockOf(key') = block'[uid'] /\ chip' = "idle"
      BY <2>3, <3>2, PN532Assumption DEF DriverInv, KeyOfTurn, PN532TypeOK
    <3>4. chip = "done"
      BY <1>6, <2>1 DEF TakeResponse, readdata, CardIOInv, DriverInv, PhasesAgree
    <3>5. ~WriteDue /\ ~WriteDue' /\ ~WriteAhead'
      BY <2>3, <3>1, <3>3, <3>4 DEF WriteDue, WriteAhead
    <3>6. UNCHANGED <<field, block, target>>
      BY <1>4, <2>1
    <3>7. IO!Tap(uid)
      BY <2>3, <3>1, <3>3, <3>5, <3>6 DEF IO!Tap
    <3>8. IO!Next
      BY <3>1, <3>3, <3>7 DEF IO!Next
    <3> QED
      BY <3>5, <3>6, <3>8 DEF CardIOInv
  <2> QED
    BY <2>2, <2>3
<1>7. CASE BeginReturns
  <2>1. Quiet
    BY <1>7 DEF BeginReturns, Returned, Enter, card_vars, chip_vars, Quiet, WriteAhead,
       WriteAtChip
  <2> QED
    BY <2>1, QuietKeeps
<1>8. CASE SessionRefused \/ SessionAccepted
  <2>1. chip = "idle" /\ uid # None /\ call = "session"
    BY <1>8 DEF SessionRefused, SessionAccepted, CardIOInv, DriverInv, KeyOfTurn
  <2>2. UNCHANGED <<field, block, target, chip, cmd>>
    BY <1>8 DEF SessionRefused, SessionAccepted, card_vars, chip_vars
  <2>3. ~WriteDue /\ ~WriteAtChip'
    BY <2>1, <2>2 DEF WriteDue, WriteAtChip
  <2>4. CASE SessionRefused
    <3>1. call' = "list"
      BY <2>4 DEF SessionRefused, NextTurn, Enter
    <3>2. ~WriteDue'
      BY <2>1, <2>2, <3>1 DEF WriteDue
    <3>3. IO!Refuse
      BY <2>1, <2>2, <2>3, <3>1, <3>2 DEF IO!Refuse
    <3> QED
      BY <2>2, <2>3, <3>3 DEF IO!Next, CardIOInv
  <2>5. CASE SessionAccepted
    <3>1. call' = "write_auth" /\ accepted' = uid /\ new_key' \in Keys
      BY <2>5 DEF SessionAccepted, Enter
    <3>2. WriteDue'
      BY <3>1 DEF WriteDue
    <3>3. IO!Accept(BlockOf(new_key'))
      BY <2>1, <2>2, <3>1, <3>2 DEF IO!Accept
    <3>4. BlockOf(new_key') \in Blocks
      BY <3>1 DEF Blocks
    <3> QED
      BY <2>2, <2>3, <3>3, <3>4 DEF IO!Next, CardIOInv
  <2> QED
    BY <1>8, <2>4, <2>5
<1> QED
  BY <1>1, <1>2, <1>3, <1>5, <1>6, <1>7, <1>8 DEF TaskStep

LEMMA CardIOStep ==
    ASSUME Lead = 1
    PROVE  CardIOInv /\ [PN532Next]_pn532_vars => CardIOInv' /\ [IO!Next]_(IO!cardio_vars)
<1> SUFFICES ASSUME CardIOInv, [PN532Next]_pn532_vars
             PROVE  CardIOInv' /\ [IO!Next]_(IO!cardio_vars)
  OBVIOUS
<1>1. DriverInv'
  BY DriverInvStep DEF CardIOInv
<1>2. CASE PN532Next
  BY <1>1, <1>2, CardsMoveIO, ChipStepIO, TaskStepIO DEF PN532Next, CardIOInv
<1>3. CASE UNCHANGED pn532_vars
  BY <1>1, <1>3 DEF pn532_vars, card_vars, chip_vars, task_vars, CardIOInv, WriteAhead,
     WriteAtChip, WriteDue, IO!cardio_vars
<1> QED
  BY <1>2, <1>3

(* The turns of nfc_task implement CardIO, whatever cards are swapped, frames*)
(* lost and answers late: as atomic as Reader.tla takes them, but for a write*)
(* that the chip executes after the driver has given it up.                  *)
THEOREM PN532ImplementsCardIO ==
    ASSUME Lead = 1
    PROVE  PN532Spec => CardIOSpec
<1>1. PN532Init => IO!Init
  BY DEF PN532Init, IO!Init, WriteDue
<1> QED
  BY <1>1, CardIOInvInit, CardIOStep, PTL DEF PN532Spec, CardIOSpec, IO!Spec

=============================================================================
