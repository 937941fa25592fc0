-------------------------------- MODULE Peer --------------------------------
(* The calls of the driver (components/PN532/src/PN532.c) that the reader    *)
(* program does not use: GPIO and SAM, data exchange with a peer, the chip   *)
(* as a target itself, page reads.  A call sends its command, reads an       *)
(* acknowledgement (sendCommandCheckAck), takes the response frame from a    *)
(* place it counts in bytes from the first that is read, and tells its       *)
(* caller.  The driver does not look for the start of a frame, so the count  *)
(* is right for one number of leading zero bytes only; the calls do not      *)
(* agree on it.  Nor does it look whose frame it is: a command that is not   *)
(* heard leaves the chip with what an earlier call has not read.             *)
EXTENDS Integers, Sequences

CONSTANTS
    Payloads,     \* what a peer sends, or holds in four pages of 4 bytes
    TargetIds,    \* NFCIDs of the targets in the field
    Capacities,   \* *responseLength of the callers of inDataExchange
    PACKBUFFSIZ   \* 64

ASSUME PeerAssumption ==
    /\ Payloads \subseteq Seq(0 .. 255)
    /\ \A d \in Payloads : Len(d) <= 252
    /\ TargetIds \subseteq Seq(0 .. 255)
    /\ \A d \in TargetIds : Len(d) <= 10
    /\ Capacities \subseteq 0 .. 255
    /\ PACKBUFFSIZ \in 27 .. 64

VARIABLES
    lead,          \* zero bytes read ahead of 0xFF
    role,          \* the chip is "idle", has "listed" a peer, is a "target"
    inListedTag,   \* of pn532_t
    chip,          \* what the chip has of a command, see ChipStates
    call           \* the call under way, or the last one, see PeerCalls

peer_vars == <<lead, role, inListedTag, chip, call>>

Lists == {"inListPassiveTarget", "readPassiveTargetID"}

Pages == {"mifareultralight_ReadPage", "ntag2xx_ReadPage"}

Simple == {"SAMConfig", "writeGPIO", "readGPIO", "setPassiveActivationRetries"}

Functions == Lists \cup Pages \cup Simple
                 \cup {"inDataExchange", "AsTarget", "getDataTarget", "setDataTarget"}

Code(fn) ==
    CASE fn = "SAMConfig"                   -> 21
      [] fn = "writeGPIO"                   -> 15
      [] fn = "readGPIO"                    -> 13
      [] fn = "setPassiveActivationRetries" -> 51
      [] fn \in Lists                       -> 75
      [] fn \in Pages \cup {"inDataExchange"} -> 65
      [] fn = "AsTarget"                    -> 141
      [] fn = "getDataTarget"               -> 135
      [] fn = "setDataTarget"               -> 143

(* What a command that is executed brings back, and what the response of one *)
(* that is not has instead: no target found, no answer, or a wrong context.  *)
Results(fn) ==
    CASE fn \in Lists                               -> TargetIds
      [] fn \in Pages                               -> {d \in Payloads : Len(d) = 16}
      [] fn \in {"inDataExchange", "getDataTarget"} -> Payloads
      [] OTHER                                      -> {<< >>}

Errors(fn) ==
    CASE fn \in Lists                     -> {<<0>>}
      [] fn \in Simple \cup {"AsTarget"}  -> {}
      [] OTHER                            -> {<<1>>, <<39>>}

(* The chip has nothing to do, got a command, has an acknowledgement to be   *)
(* read, is at work, or has a response to be read.  The command is fn's, and *)
(* of the call under way (own) or of an earlier one; it was executed, with   *)
(* result d, or not.                                                         *)
ChipStates ==
    [at: {"idle", "got", "ack", "work", "done"}, fn: Functions, own: BOOLEAN,
     executed: BOOLEAN, d: Seq(0 .. 255)]

(* fn, for a caller with room for cap bytes, waits for its acknowledgement   *)
(* or its response, or has returned ok.  Its response was heard or not; data *)
(* went to the caller, and ran over the end of pn532_packetbuffer, or of the *)
(* caller's uid, or not.                                                     *)
PeerCalls ==
    [fn: Functions, cap: Capacities \cup {0}, at: {"ack", "response", "returned"},
     heard: BOOLEAN, ok: BOOLEAN, data: Seq(0 .. 255), overrun: BOOLEAN]

PeerTypeOK ==
    /\ lead \in {1, 2}
    /\ role \in {"idle", "listed", "target"}
    /\ inListedTag \in {0, 1}
    /\ chip \in ChipStates
    /\ call \in PeerCalls

-----------------------------------------------------------------------------
(* Responses.                                                                *)
Nought(n) == [i \in 1 .. n |-> 0]

Sum(payload) ==
    LET upTo[n \in 0 .. Len(payload)] == IF n = 0 THEN 0 ELSE upTo[n - 1] + payload[n]
    IN  upTo[Len(payload)]

Response(payload) ==
    Nought(lead) \o <<255, Len(payload), (256 - Len(payload)) % 256>>
                 \o payload \o <<(256 - (Sum(payload) % 256)) % 256, 0>>

NoResponse == <<255>>

(* pn532_packetbuffer[i] after readdata of enough bytes.                     *)
Buffer(f, i) == IF i < Len(f) THEN f[i + 1] ELSE 255

BufferFrom(f, first, n) == [i \in 1 .. n |-> Buffer(f, first - 1 + i)]

(* What follows the code of a command that is executed.  A target that is    *)
(* listed has number 1, SENS_RES 0x0004 and SEL_RES 8.                       *)
Outcome(fn, d) ==
    CASE fn \in Lists                                          -> <<1, 1, 0, 4, 8, Len(d)>> \o d
      [] fn \in Pages \cup {"inDataExchange", "getDataTarget"} -> <<0>> \o d
      [] fn \in {"AsTarget", "setDataTarget"}                  -> <<0>>
      [] fn = "readGPIO"                                       -> <<63, 7, 2>>
      [] OTHER                                                 -> << >>

ResponseOf(c) ==
    Response(<<213, Code(c.fn)>> \o (IF c.executed THEN Outcome(c.fn, c.d) ELSE c.d))

-----------------------------------------------------------------------------
(* What the calls make of frame f.                                           *)

HasHeader(f, fn) ==
    /\ <<Buffer(f, 0), Buffer(f, 1), Buffer(f, 2)>> = <<0, 0, 255>>
    /\ Buffer(f, 4) = (256 - Buffer(f, 3)) % 256
    /\ Buffer(f, 5) = 213 /\ Buffer(f, 6) = Code(fn)

(* Mutant: the status is not looked at.                                      *)
ExchangeOkUnchecked(f) == HasHeader(f, "inDataExchange")

inDataExchange_ok(f) == HasHeader(f, "inDataExchange") /\ Buffer(f, 7) % 64 = 0

SAMConfig_ok(f) == Buffer(f, 5) = 21

writeGPIO_ok(f) == Buffer(f, 5) = 15

inListPassiveTarget_ok(f) == HasHeader(f, "inListPassiveTarget") /\ Buffer(f, 7) = 1

readPassiveTargetID_ok(f) == Buffer(f, 7) = 1

ReadPage_ok(f) == Buffer(f, 7) = 0

(* The code compared with is that of SAMConfig, not 0x8D.                    *)
AsTarget_ok(f) == Buffer(f, 5) = 21

setDataTarget_ok(f) == Buffer(f, 5) = 21

(* readGPIO has no result but the pins; the other two return true.           *)
Ok(fn, f) ==
    CASE fn = "SAMConfig"           -> SAMConfig_ok(f)
      [] fn = "writeGPIO"           -> writeGPIO_ok(f)
      [] fn = "inListPassiveTarget" -> inListPassiveTarget_ok(f)
      [] fn = "readPassiveTargetID" -> readPassiveTargetID_ok(f)
      [] fn = "inDataExchange"      -> inDataExchange_ok(f)
      [] fn \in Pages               -> ReadPage_ok(f)
      [] fn = "AsTarget"            -> AsTarget_ok(f)
      [] fn = "setDataTarget"       -> setDataTarget_ok(f)
      [] fn \in {"getDataTarget", "readGPIO", "setPassiveActivationRetries"} -> TRUE

(* uint8_t length = pn532_packetbuffer[3] - 3.                               *)
ByteLength(f) == (Buffer(f, 3) - 3) % 256

Capped(length, cap) == IF length > cap THEN cap ELSE length

(* Mutant: no truncation.                                                    *)
inDataExchange_uncapped(f, cap) == IF inDataExchange_ok(f) THEN ByteLength(f) ELSE 0

inDataExchange_length(f, cap) ==
    IF inDataExchange_ok(f) THEN Capped(ByteLength(f), cap) ELSE 0

ReadPage_length(f) == IF ReadPage_ok(f) THEN 4 ELSE 0

(* *uidLength = pn532_packetbuffer[12].                                      *)
readPassiveTargetID_length(f) == IF readPassiveTargetID_ok(f) THEN Buffer(f, 12) ELSE 0

(* The number of bytes of pn532_packetbuffer that go to the caller, and the  *)
(* index of the first.                                                       *)
Length(fn, f, cap) ==
    CASE fn \in {"getDataTarget", "setDataTarget"} -> ByteLength(f)
      [] fn = "inDataExchange"                     -> inDataExchange_length(f, cap)
      [] fn = "readPassiveTargetID"                -> readPassiveTargetID_length(f)
      [] fn \in Pages                              -> ReadPage_length(f)
      [] OTHER                                     -> 0

First(fn) == IF fn = "readPassiveTargetID" THEN 13 ELSE 8

(* setDataTarget has read 8 bytes, and copies what was in the buffer behind  *)
(* them; that is left out.                                                   *)
Delivered(fn, f, cap) ==
    CASE fn = "readGPIO"      -> <<Buffer(f, 6)>>
      [] fn = "setDataTarget" -> << >>
      [] OTHER                -> BufferFrom(f, First(fn), Length(fn, f, cap))

(* The callers' uid has room for 7 bytes.                                    *)
Overruns(fn, f, cap) ==
    \/ First(fn) + Length(fn, f, cap) > PACKBUFFSIZ
    \/ fn = "readPassiveTargetID" /\ Length(fn, f, cap) > 7

-----------------------------------------------------------------------------
Idle ==
    [at |-> "idle", fn |-> "SAMConfig", own |-> FALSE, executed |-> FALSE, d |-> << >>]

Nothing ==
    [fn |-> "SAMConfig", cap |-> 0, at |-> "returned", heard |-> FALSE, ok |-> FALSE,
     data |-> << >>, overrun |-> FALSE]

PeerInit ==
    /\ lead \in {1, 2}
    /\ role = "idle"
    /\ inListedTag = 0
    /\ chip = Idle
    /\ call = Nothing

PeerLeaves ==
    /\ role # "idle"
    /\ role' = "idle"
    /\ UNCHANGED <<lead, inListedTag, chip, call>>

(* The page reads name target 1, inDataExchange the one that was listed.     *)
MayExecute(fn) ==
    CASE fn \in Pages                            -> role = "listed"
      [] fn = "inDataExchange"                   -> role = "listed" /\ inListedTag = 1
      [] fn \in {"getDataTarget", "setDataTarget"} -> role = "target"
      [] OTHER                                   -> TRUE

RoleAfter(fn) ==
    CASE fn \in Lists     -> "listed"
      [] fn = "AsTarget"  -> "target"
      [] OTHER            -> role

ChipAcknowledges ==
    /\ chip.at = "got"
    /\ chip' = [chip EXCEPT !.at = "ack"]
    /\ UNCHANGED <<lead, role, inListedTag, call>>

ChipExecutes ==
    /\ chip.at = "work"
    /\ MayExecute(chip.fn)
    /\ \E d \in Results(chip.fn) :
        chip' = [chip EXCEPT !.at = "done", !.executed = TRUE, !.d = d]
    /\ role' = RoleAfter(chip.fn)
    /\ UNCHANGED <<lead, inListedTag, call>>

ChipReportsError ==
    /\ chip.at = "work"
    /\ \E d \in Errors(chip.fn) :
        chip' = [chip EXCEPT !.at = "done", !.executed = FALSE, !.d = d]
    /\ UNCHANGED <<lead, role, inListedTag, call>>

-----------------------------------------------------------------------------
(* writecommand.  A command that is heard takes the place of what the chip   *)
(* had; one that is not leaves it there.                                     *)
Begin(fn, cap) ==
    /\ call.at = "returned"
    /\ fn # "inDataExchange" => cap = 0
    /\ call' = [Nothing EXCEPT !.fn = fn, !.cap = cap, !.at = "ack"]
    /\ \/ chip' = [Idle EXCEPT !.at = "got", !.fn = fn, !.own = TRUE]
       \/ chip' = IF chip.at = "idle" THEN Idle ELSE [chip EXCEPT !.own = FALSE]
    /\ UNCHANGED <<lead, role, inListedTag>>

Return == call' = [call EXCEPT !.at = "returned"]

(* waitready gives up.                                                       *)
NotReady ==
    /\ call.at # "returned"
    /\ Return
    /\ UNCHANGED <<lead, role, inListedTag, chip>>

(* readack: of a frame that begins with a zero byte, strncmp compares no     *)
(* more, so that an earlier call's response passes for an acknowledgement.   *)
(* Ones do not pass.                                                         *)
ReadAck ==
    /\ call.at = "ack"
    /\ \/ chip.at = "ack" /\ chip' = [chip EXCEPT !.at = "work"]
       \/ chip.at = "done" /\ chip' = Idle
    /\ Return \/ call' = [call EXCEPT !.at = "response"]
    /\ UNCHANGED <<lead, role, inListedTag>>

(* setPassiveActivationRetries returns without reading the response.         *)
LeaveResponse ==
    /\ call.at = "response" /\ chip.at = "done"
    /\ call.fn = "setPassiveActivationRetries"
    /\ call' = [call EXCEPT !.at = "returned", !.ok = TRUE]
    /\ UNCHANGED <<lead, role, inListedTag, chip>>

(* A frame is read: the chip's, or ones.                                     *)
Take ==
    /\ call.at = "response" /\ chip.at = "done"
    /\ call.fn # "setPassiveActivationRetries"
    /\ chip' = [chip EXCEPT !.at = "idle"]
    /\ \E f \in {ResponseOf(chip), NoResponse} :
        /\ call' = [call EXCEPT !.at = "returned",
                                !.heard   = f # NoResponse,
                                !.ok      = Ok(call.fn, f),
                                !.data    = Delivered(call.fn, f, call.cap),
                                !.overrun = Overruns(call.fn, f, call.cap)]
        /\ inListedTag' = IF call.fn = "inListPassiveTarget" /\ Ok(call.fn, f)
                           THEN Buffer(f, 8) ELSE inListedTag
    /\ UNCHANGED <<lead, role>>

PeerNext ==
    \/ PeerLeaves \/ ChipAcknowledges \/ ChipExecutes \/ ChipReportsError
    \/ NotReady \/ ReadAck \/ LeaveResponse \/ Take
    \/ \E fn \in Functions, cap \in Capacities \cup {0} : Begin(fn, cap)

PeerSpec == PeerInit /\ [][PeerNext]_peer_vars

-----------------------------------------------------------------------------
(* The calls that count right with this many leading zero bytes, and those   *)
(* among them that look whose frame they have read.                          *)
Placed == IF lead = 1 THEN {"SAMConfig", "writeGPIO"}
          ELSE Pages \cup Lists \cup {"inDataExchange"}

ChecksCode == {"SAMConfig", "writeGPIO", "inListPassiveTarget", "inDataExchange"}

Wanted(fn, d, cap) ==
    CASE fn \in Pages               -> SubSeq(d, 1, 4)
      [] fn = "inDataExchange"      -> IF Len(d) > cap THEN SubSeq(d, 1, cap) ELSE d
      [] fn = "readPassiveTargetID" -> d
      [] OTHER                      -> << >>

(* A call that reports success has the response to a command of its kind     *)
(* that was executed, and gives its caller the data of that execution: every *)
(* call whose command was heard, and also one whose command was not, if it   *)
(* looks at the command code.  One that hears the response to its own        *)
(* command reports it.  So neither an error status, nor a response that is   *)
(* lost, nor what an earlier call has left with the chip is taken for more   *)
(* (PN532.c:218, 307, 386-394, 445-480, 528-537, 918, 1047).                 *)
ReportsWhatHappened ==
    call.fn \in Placed /\ ~call.overrun =>
        /\ call.ok /\ (chip.own \/ call.fn \in ChecksCode) =>
              /\ call.heard /\ chip.executed /\ Code(chip.fn) = Code(call.fn)
              /\ call.data = Wanted(call.fn, chip.d, call.cap)
        /\ call.heard /\ chip.own /\ chip.executed => call.ok

(* No call reads behind pn532_packetbuffer or writes behind its caller's     *)
(* uid, but inDataExchange for a caller with room for more than fits in the  *)
(* buffer, and three that check nothing: the two target calls and            *)
(* readPassiveTargetID, on a frame that is not the response they expect or   *)
(* where they do not expect it, or when a target has a long NFCID            *)
(* (PN532.c:387-394, 468-478, 1383-1394, 1415-1419).                         *)
Long == Len(chip.d) + 8 > PACKBUFFSIZ

OverrunsAreThese ==
    call.overrun =>
        \/ call.fn = "inDataExchange" /\ Long /\ call.cap + 8 > PACKBUFFSIZ
        \/ /\ call.fn \in {"getDataTarget", "setDataTarget"}
           /\ lead = 1 \/ ~chip.own \/ ~chip.executed \/ ~call.heard \/ Long
        \/ /\ call.fn = "readPassiveTargetID"
           /\ lead = 1 \/ ~chip.own \/ Len(chip.d) > 7
=============================================================================
