------------------------------- MODULE PN532 -------------------------------
(* The driver of the NFC chip (components/PN532/src/PN532.c) as nfc_task     *)
(* (main.c) and card_write_on_block (card_reader.c) call it, with the chip   *)
(* and the cards.  A call sends a command frame, waits for the chip, reads   *)
(* an acknowledgement, waits again and reads the response: call and phase    *)
(* say where the task is.  A session with the server (Reader.tla) is         *)
(* reduced to its outcome: refused, or accepted with a new key to write.     *)
EXTENDS Naturals, Sequences

CONSTANTS
    Uids,        \* UIDs of the cards, one byte each
    Keys,        \* one-time keys, sequences of BlockBytes - 1 bytes
    BlockBytes,  \* bytes of a block: 16 in the code
    Lead,        \* zero bytes read ahead of 0xFF in a data exchange response
    Faults,      \* the faults the environment is allowed, see FaultKinds
    None

Byte == 0 .. 255

FaultKinds == {"card_leaves",  \* a card is taken away between poll and write
               "noise",        \* a frame is not heard by its receiver
               "slow"}         \* the chip is not ready within the timeout

ASSUME PN532Assumption ==
    /\ Uids \subseteq Byte
    /\ BlockBytes \in Nat \ {0, 1}
    /\ Keys \subseteq [1 .. BlockBytes - 1 -> Byte]
    /\ None \notin Uids
    /\ None \notin Keys
    /\ None \notin [1 .. BlockBytes - 1 -> Byte]
    /\ Lead \in {1, 2}
    /\ Faults \subseteq FaultKinds

VARIABLES
    field,   \* the card on the reader, or None
    block,   \* block[u]: block 4 of the card with UID u
    target,  \* the card the chip has listed and not lost since, or None
    authed,  \* that card has been authenticated
    chip,    \* "idle", "got" a command, "ack" to be read, at "work", "done"
    cmd,     \* the command the chip executes
    out,     \* the payload of its response
    call,    \* the driver function that nfc_task is in
    phase,   \* where in the function it is
    uid,     \* uid; None when readPassiveTargetID has failed
    key,     \* card_key; None when ReadDataBlock has failed
    new_key, \* data, the key that card_write_on_block is to write
    accepted, \* auxiliary: the card whose key the server accepted last
    disturbed \* there may be noise, and the chip may be slow, still

card_vars == <<field, block, disturbed>>
chip_vars == <<target, authed, chip, cmd, out>>
task_vars == <<call, phase, uid, key, new_key, accepted>>
pn532_vars == <<card_vars, chip_vars, task_vars>>

-----------------------------------------------------------------------------
(* Frames.                                                                   *)

Zeros(n) == [i \in 1 .. n |-> 0]

Sum(payload) ==
    LET upTo[n \in 0 .. Len(payload)] == IF n = 0 THEN 0 ELSE upTo[n - 1] + payload[n]
    IN  upTo[Len(payload)]

Checksum(payload) == (256 - (Sum(payload) % 256)) % 256

Frame(lead, payload) ==
    Zeros(lead) \o <<255, Len(payload), 256 - Len(payload)>>
                \o payload \o <<Checksum(payload), 0>>

AckFrame == Zeros(Lead) \o <<255, 0, 255, 0>>

Silence == <<255>>

(* buffer[i] after readdata: nothing but ones follows the end of a frame.    *)
At(frame, i) == IF i < Len(frame) THEN frame[i + 1] ELSE 255

(* strncmp stops at the first zero byte.                                     *)
SameString(frame, expected) ==
    \A i \in 0 .. Len(expected) - 1 :
        (\A j \in 0 .. i - 1 : At(frame, j) # 0) => At(frame, i) = At(expected, i)

pn532ack == <<0, 0, 255, 0, 255, 0>>
pn532response_firmwarevers == <<0, 255, 6, 250, 213, 3>>

(* Mutant: the six bytes are compared, as memcmp would.                      *)
AckMatchesExactly(frame) == \A i \in 0 .. 5 : At(frame, i) = At(pn532ack, i)

AckMatches(frame) == SameString(frame, pn532ack)

(* card_write_on_block: memcpy(block4+1, data, 15).                          *)
BlockOf(k) == <<0>> \o k

KeyOf(data) == SubSeq(data, 1, BlockBytes - 1)

Blocks == {BlockOf(k) : k \in Keys}

-----------------------------------------------------------------------------
Commands ==
    [name: {"version", "sam", "list", "read"}]
        \cup [name: {"auth"}, uid: Uids \cup {None}]
        \cup [name: {"write"}, data: Blocks]

Calls  == {"begin", "version", "sam", "list", "auth", "read", "session",
           "write_auth", "write", "no_board"}
Phases == {"send", "wait_ack", "ack", "wait", "take"}

PN532TypeOK ==
    /\ field \in Uids \cup {None}
    /\ block \in [Uids -> Blocks]
    /\ target \in Uids \cup {None}
    /\ authed \in BOOLEAN
    /\ authed => target # None
    /\ chip \in {"idle", "got", "ack", "work", "done"}
    /\ cmd \in Commands \cup {None}
    /\ out \in Seq(Byte)
    /\ call \in Calls
    /\ phase \in Phases
    /\ uid \in Uids \cup {None}
    /\ key \in [1 .. BlockBytes - 1 -> Byte] \cup {None}
    /\ new_key \in Keys \cup {None}
    /\ accepted \in Uids \cup {None}
    /\ disturbed \in BOOLEAN

PN532Init ==
    /\ field = None
    /\ block \in [Uids -> Blocks]
    /\ target = None
    /\ authed = FALSE
    /\ chip = "idle"
    /\ cmd = None
    /\ out = << >>
    /\ call = "begin"
    /\ phase = "send"
    /\ uid = None
    /\ key = None
    /\ new_key = None
    /\ accepted = None
    /\ disturbed \in BOOLEAN

-----------------------------------------------------------------------------
(* The chip and the cards.                                                   *)

PutCard ==
    /\ field = None
    /\ field' \in Uids
    /\ UNCHANGED <<block, disturbed, chip_vars, task_vars>>

TakeCard ==
    /\ field # None
    /\ call # "list" => "card_leaves" \in Faults
    /\ field' = None
    /\ target' = None
    /\ authed' = FALSE
    /\ UNCHANGED <<block, disturbed, chip, cmd, out, task_vars>>

DisturbanceEnds ==
    /\ disturbed
    /\ disturbed' = FALSE
    /\ UNCHANGED <<field, block, chip_vars, task_vars>>

ChipAcknowledges ==
    /\ chip = "got"
    /\ chip' = "ack"
    /\ UNCHANGED <<card_vars, target, authed, cmd, out, task_vars>>

ChipAnswers(payload) ==
    /\ chip = "work"
    /\ chip' = "done"
    /\ out' = payload
    /\ UNCHANGED <<field, disturbed, cmd, task_vars>>

ChipConfigures ==
    /\ \/ cmd.name = "version" /\ ChipAnswers(<<213, 3, 50, 1, 6, 7>>)
       \/ cmd.name = "sam" /\ ChipAnswers(<<213, 21>>)
    /\ UNCHANGED <<block, target, authed>>

(* The chip looks for a card until there is one.                             *)
ChipLists ==
    /\ cmd.name = "list"
    /\ field # None
    /\ target' = field
    /\ authed' = FALSE
    /\ ChipAnswers(<<213, 75, 1, 1, 0, 4, 8, 1, field>>)
    /\ UNCHANGED block

DataExchangeOK == <<213, 65, 0>>

Executable ==
    /\ target # None
    /\ cmd.name = "auth" => cmd.uid = target
    /\ cmd.name \in {"read", "write"} => authed

ChipExchanges ==
    /\ cmd.name \in {"auth", "read", "write"}
    /\ Executable
    /\ authed' = TRUE
    /\ block' = IF cmd.name = "write" THEN [block EXCEPT ![target] = cmd.data] ELSE block
    /\ ChipAnswers(IF cmd.name = "read" THEN DataExchangeOK \o block[target]
                                        ELSE DataExchangeOK)
    /\ UNCHANGED target

(* 0x01 no answer of the card, 0x14 authentication error, 0x27 wrong context.*)
ChipReportsError ==
    /\ cmd.name \in {"auth", "read", "write"}
    /\ ~Executable
    /\ authed' = FALSE
    /\ \E status \in {1, 20, 39} : ChipAnswers(<<213, 65, status>>)
    /\ UNCHANGED <<block, target>>

ChipStep ==
    \/ ChipAcknowledges
    \/ cmd # None /\ (ChipConfigures \/ ChipLists \/ ChipExchanges \/ ChipReportsError)

-----------------------------------------------------------------------------
(* The calls of nfc_task: what each sends and what follows it.               *)

(* Mutant: the key is not moved behind a zero byte.                          *)
WriteCommandUnshifted == [name |-> "write", data |-> new_key \o <<0>>]

WriteCommand == [name |-> "write", data |-> BlockOf(new_key)]

Command ==
    CASE call \in {"begin", "version"}     -> [name |-> "version"]
      [] call = "sam"                      -> [name |-> "sam"]
      [] call = "list"                     -> [name |-> "list"]
      [] call \in {"auth", "write_auth"}   -> [name |-> "auth", uid |-> uid]
      [] call = "read"                     -> [name |-> "read"]
      [] call = "write"                    -> WriteCommand

Enter(next) ==
    /\ call' = next
    /\ phase' = "send"

Returned(next) ==
    /\ Enter(next)
    /\ UNCHANGED <<uid, key, new_key, accepted>>

VersionReturned(version) == Returned(IF version = 0 THEN "no_board" ELSE "sam")

ListReturned(found) ==
    /\ Enter("auth")
    /\ uid' = found
    /\ UNCHANGED <<key, new_key, accepted>>

(* The next turn of the loop, with uid and card_key of its own.              *)
NextTurn ==
    /\ Enter("list")
    /\ uid' = None
    /\ key' = None
    /\ UNCHANGED <<new_key, accepted>>

(* https_request is called if key_RW && success.                             *)
ReadReturned(found) ==
    \/ /\ found # None /\ uid # None
       /\ Enter("session")
       /\ key' = found
       /\ UNCHANGED <<uid, new_key, accepted>>
    \/ /\ found = None \/ uid = None
       /\ NextTurn

(* Mutant: the write is repeated, whether or not it has succeeded.           *)
WriteRepeated == Returned("write")

(* What WriteDataBlock returns is looked at for a log message, and           *)
(* card_write_on_block returns 0.  What is left of the session uses no card. *)
WriteReturned == NextTurn

(* What an authentication returns is not looked at.                          *)
AuthReturned == Returned(IF call = "auth" THEN "read" ELSE "write")

Fails ==
    \/ call = "begin" /\ Returned("version")
    \/ call = "version" /\ VersionReturned(0)
    \/ call = "sam" /\ Returned("list")
    \/ call = "list" /\ ListReturned(None)
    \/ call \in {"auth", "write_auth"} /\ AuthReturned
    \/ call = "read" /\ ReadReturned(None)
    \/ call = "write" /\ WriteReturned

SessionRefused ==
    /\ call = "session"
    /\ NextTurn
    /\ UNCHANGED <<card_vars, chip_vars>>

SessionAccepted ==
    /\ call = "session"
    /\ Enter("write_auth")
    /\ new_key' \in Keys
    /\ accepted' = uid
    /\ UNCHANGED <<card_vars, chip_vars, uid, key>>

-----------------------------------------------------------------------------
(* sendCommandCheckAck and readdata.                                         *)

MayOccur(fault) == disturbed /\ fault \in Faults

InCall == call \notin {"session", "no_board"}

Go(from, to) ==
    /\ InCall
    /\ phase = from
    /\ phase' = to
    /\ UNCHANGED <<call, uid, key, new_key, accepted>>

(* A new command makes the chip drop what it was doing.                      *)
writecommand ==
    /\ Go("send", "wait_ack")
    /\ \/ chip' = "got" /\ cmd' = Command
       \/ MayOccur("noise") /\ UNCHANGED <<chip, cmd>>
    /\ UNCHANGED <<card_vars, target, authed, out>>

isready == chip \in {"ack", "done"}

waitready ==
    /\ isready
    /\ Go("wait_ack", "ack") \/ Go("wait", "take")
    /\ UNCHANGED <<card_vars, chip_vars>>

(* Mutant: nothing has a timeout.                                            *)
NoTimeout == 0

(* timeout 0 is none.                                                        *)
Timeout == IF call = "list" THEN 0 ELSE 1000

TimedOut ==
    /\ InCall
    /\ phase \in {"wait_ack", "wait"}
    /\ ~isready
    /\ Timeout # 0
    /\ \/ chip = "idle"
       \/ chip = "work" /\ cmd.name = "list"
       \/ MayOccur("slow")
    /\ Fails
    /\ UNCHANGED <<card_vars, chip_vars>>

LeadOf(name) == IF name = "list" THEN 2 ELSE Lead

readdata(frame) ==
    /\ InCall
    /\ \/ frame = IF chip = "ack" THEN AckFrame ELSE Frame(LeadOf(cmd.name), out)
       \/ MayOccur("noise") /\ frame = Silence
    /\ chip' = IF chip = "ack" THEN "work" ELSE "idle"
    /\ UNCHANGED <<card_vars, target, authed, cmd, out>>

Readable == {AckFrame, Frame(1, out), Frame(2, out), Silence}

readack ==
    /\ phase = "ack"
    /\ \E frame \in Readable :
        /\ readdata(frame)
        /\ IF AckMatches(frame) THEN Go("ack", "wait") ELSE Fails

TakeVersion(frame) ==
    /\ call = "version"
    /\ VersionReturned(IF SameString(frame, pn532response_firmwarevers)
                       THEN At(frame, 6) + At(frame, 7) + At(frame, 8) + At(frame, 9)
                       ELSE 0)

(* Mutant: the number of tags is not tested.                                 *)
TakeListUnchecked(frame) ==
    /\ call = "list"
    /\ ListReturned(At(frame, 13))

TakeList(frame) ==
    /\ call = "list"
    /\ ListReturned(IF At(frame, 7) = 1 THEN At(frame, 13) ELSE None)

(* Mutant: the status byte is not tested.                                    *)
TakeReadUnchecked(frame) ==
    /\ call = "read"
    /\ ReadReturned(KeyOf([i \in 1 .. BlockBytes |-> At(frame, 7 + i)]))

TakeRead(frame) ==
    /\ call = "read"
    /\ ReadReturned(IF At(frame, 7) = 0
                    THEN KeyOf([i \in 1 .. BlockBytes |-> At(frame, 7 + i)])
                    ELSE None)

(* The response to a write is read, and not looked at.                       *)
TakeWrite ==
    /\ call = "write"
    /\ WriteReturned

TakeResponse ==
    /\ phase = "take"
    /\ call # "begin"
    /\ \E frame \in Readable :
        /\ readdata(frame)
        /\ \/ TakeVersion(frame)
           \/ call = "sam" /\ Returned("list")
           \/ TakeList(frame)
           \/ call \in {"auth", "write_auth"} /\ AuthReturned
           \/ TakeRead(frame)
           \/ TakeWrite

(* pn532_begin leaves the response of its command with the chip.             *)
BeginReturns ==
    /\ call = "begin"
    /\ phase = "take"
    /\ Returned("version")
    /\ UNCHANGED <<card_vars, chip_vars>>

TaskStep ==
    \/ writecommand \/ waitready \/ TimedOut \/ readack \/ TakeResponse \/ BeginReturns
    \/ SessionRefused \/ SessionAccepted

PN532Next == PutCard \/ TakeCard \/ DisturbanceEnds \/ ChipStep \/ TaskStep

PN532Spec == PN532Init /\ [][PN532Next]_pn532_vars

(* FreeRTOS runs nfc_task, and the chip finishes what it has begun.          *)
FairPN532Spec ==
    PN532Spec /\ WF_pn532_vars(TaskStep) /\ WF_pn532_vars(ChipStep)

-----------------------------------------------------------------------------
(* The key that goes to the server is the one on the card whose UID goes     *)
(* with it, though cards can be swapped, frames lost and responses late      *)
(* between reading the one and the other (main.c:134-188).                   *)
KeyReadIsOnCard == call = "session" => BlockOf(key) = block[uid]

(* A block is written only for the card whose key was accepted, whichever    *)
(* card lies on the reader by then and however late the chip writes it.      *)
OnlyAcceptedCardWritten ==
    [][\A u \in Uids : block'[u] # block[u] =>
            u = accepted /\ block'[u] = BlockOf(new_key)]_pn532_vars

(* The agreed write may still be executed: the task is about to send it, or  *)
(* the chip has it before it, though the task has gone on long since.        *)
WriteDue ==
    \/ call = "write_auth"
    \/ call = "write" /\ phase = "send"
    \/ chip \in {"got", "ack", "work"} /\ cmd.name = "write"

(* The frames, timeouts and late answers of a turn of nfc_task amount to one *)
(* reading and at most one writing of one card (main.c:134-188,              *)
(* card_reader.c:18-49).                                                     *)
IO == INSTANCE CardIO WITH
          Cards    <- Uids,
          Contents <- Blocks,
          read     <- IF call = "session" THEN {[card |-> uid, data |-> BlockOf(key)]} ELSE {},
          due      <- IF WriteDue THEN {[card |-> accepted, data |-> BlockOf(new_key)]} ELSE {}
CardIOSpec == IO!Spec

(* The poll's command is lost: it has no timeout, and nothing is to come.    *)
PollLost == call = "list" /\ phase \in {"wait_ack", "wait"} /\ chip = "idle"

(* A card that stays is read again and again once nothing is disturbed, from *)
(* whatever state the disturbance left driver and chip in, and whatever has  *)
(* been written to the card: the driver resynchronises, and agrees with the  *)
(* layout of the block.  Only where there was a disturbance (disturbed is    *)
(* that of the first state) can it hang, on a poll that the chip has not     *)
(* heard (main.c:134, PN532.c:1285), or on a board not found (main.c:104).   *)
TapReachesSession ==
    <>[](field # None /\ ~disturbed)
        => \/ []<>(call = "session")
           \/ disturbed /\ <>[](PollLost \/ call = "no_board")

(* No call waits for ever on a chip that does not answer, but the poll for a *)
(* card, whose timeout is 0.                                                 *)
CallsReturn == call \notin {"list", "no_board"} ~> call \in {"list", "no_board"}
=============================================================================
