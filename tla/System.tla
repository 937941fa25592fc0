------------------------------- MODULE System -------------------------------
(* The readers of Reader.tla and the server of Server.tla, joined by the     *)
(* links of Wire.tla; browsers post logins.                                  *)
EXTENDS Server, Reader

VARIABLES
    missed, \* auxiliary: cards that were gone when their new key was written
    late    \* auxiliary: late[r]: a read of this session has given up on an
            \* answer that was still to come

ghosts == <<missed, late>>
system_vars == <<vars, reader_vars, ghosts>>

SystemTypeOK ==
    /\ TypeOK
    /\ ReaderTypeOK
    /\ missed \subseteq Uids
    /\ late \in [Readers -> BOOLEAN]

SystemInit ==
    /\ ServerInit
    /\ ReaderInit
    /\ missed = {}
    /\ late = [r \in Readers |-> FALSE]

-----------------------------------------------------------------------------
(* generate_random_hex draws 15 random bytes: a new key is none of the keys  *)
(* that something still holds.  (A key that nothing holds may be drawn again,*)
(* which is indistinguishable from a key never drawn.)                       *)
KeysOf(request) ==
    CASE request = None                  -> {}
      [] request.type = "UID_KEY"      -> {request.OtAK}
      [] request.type = "New_Card_Key" -> {request.New_OtAK}
      [] OTHER                         -> {}

HeldKeys ==
    {card[u] : u \in Uids}
        \cup {rkey[r] : r \in Readers}
        \cup {cards[i].key_this_time : i \in DOMAIN cards}
        \cup {cards[i].key_last_time : i \in DOMAIN cards}
        \cup UNION {KeysOf(req[c]) : c \in Links}
        \cup UNION {UNION {KeysOf(up[c][i]) : i \in DOMAIN up[c]} : c \in Links}

FreshKeys == Keys \ HeldKeys

(* esp_tls_conn_read gives up 10 s after the last byte.  Without the fault   *)
(* "late_reply" the server answers sooner, and a read times out only when    *)
(* there is nothing that an answer could come from.                          *)
NothingToAnswer(c) == up[c] = << >> /\ at[c] = "idle" /\ down[c] = << >>

MayTimeOut(r) ==
    \/ ~open[link[r]]
    \/ NothingToAnswer(link[r])
    \/ "late_reply" \in Faults

(* The reader does not ask what became of its last connection: it takes a    *)
(* new one, beside which the handler of the old may still run.               *)
ConnectToServer(r) ==
    \E c \in ReaderLinks :
        /\ Spare(c)
        /\ \A q \in Readers : link[q] # c
        /\ Connect(r, c)

AnswerMayCome(c) == open[c] /\ ~NothingToAnswer(c)

ReaderStep(r) ==
    /\ \/ /\ \/ TaskStep(r)
             \/ ConnectToServer(r)
             \/ SessionStep(r)
             \/ UidAccepted(r, FreshKeys)
          /\ late' = [late EXCEPT ![r] = @ /\ link[r] # None]
       \/ /\ rpc[r] \in Waiting /\ MayTimeOut(r)
          /\ ReadReturnsNothing(r)
          /\ late' = [late EXCEPT ![r] = @ \/ AnswerMayCome(link[r])]
    /\ missed' = IF rpc[r] # "card_write" THEN missed
                 ELSE IF field[r] = ruid[r] THEN missed \ {ruid[r]}
                 ELSE missed \cup {ruid[r]}
    /\ UNCHANGED server_vars

DoorStep(r) ==
    /\ PutCard(r) \/ TakeCard(r)
    /\ UNCHANGED <<server_vars, ghosts>>

Drop(c) ==
    /\ "link_drop" \in Faults
    /\ c \in ReaderLinks
    /\ LinkHangup(c)
    /\ UNCHANGED <<reader_vars, ghosts>>

HandlerStep(c) == Handle(c) /\ UNCHANGED <<reader_vars, ghosts>>

BrowserStep(c) ==
    /\ BrowserPost(c) \/ BrowserReceive(c)
    /\ UNCHANGED <<reader_vars, ghosts>>

LeftoverStep(c) == LinkForget(c) /\ UNCHANGED <<reader_vars, ghosts>>

ServerRestarts == Crash /\ UNCHANGED <<reader_vars, ghosts>>

SystemNext ==
    \/ ServerRestarts
    \/ \E c \in Links : HandlerStep(c) \/ BrowserStep(c) \/ Drop(c) \/ LeftoverStep(c)
    \/ \E r \in Readers : ReaderStep(r) \/ DoorStep(r)

(* The Go scheduler runs every handler, FreeRTOS runs nfc_task, and a read   *)
(* ends at its timeout.  Nobody need put a card, log in or break anything.   *)
Fairness ==
    /\ \A c \in Links : WF_system_vars(HandlerStep(c))
    /\ \A r \in Readers : WF_system_vars(ReaderStep(r))

SystemSpec == SystemInit /\ [][SystemNext]_system_vars

FairSystemSpec == SystemSpec /\ Fairness

-----------------------------------------------------------------------------
(* A response the reader is about to use answers the request it sent last:   *)
(* the 200 OK that lets the door open is a 200 OK to a heartbeat             *)
(* (tls_connection.c:129-138, 191-206, 219-239).  It fails where a read gave *)
(* up on an answer that came later; RepliesInStep says that nothing else can *)
(* make it fail, whatever else breaks.                                       *)
Awaited(position) ==
    CASE position = "uid_wait"  -> "UID_KEY"
      [] position = "key_wait"  -> "New_Card_Key"
      [] position = "beat_wait" -> "OPEN"

ReplyMatchesRequest ==
    \A r \in Readers :
        rpc[r] \in Waiting /\ down[link[r]] # << >>
            => NextReply(r).to = Awaited(rpc[r])

RepliesInStep ==
    \A r \in Readers :
        rpc[r] \in Waiting /\ down[link[r]] # << >> /\ ~late[r]
            => NextReply(r).to = Awaited(rpc[r])

(* Between sessions the key of a registered card is the one the server will  *)
(* ask for: a card never locks itself out, unless it was gone when the new   *)
(* key was to be written to it.                                              *)
Reports(uid, request) ==
    request # None /\ request.type = "New_Card_Key" /\ request.UID = uid

InSession(uid) ==
    \/ \E r \in Readers : ruid[r] = uid /\ rpc[r] \notin Beating \cup {"green", "red"}
    \/ \E c \in Links : Reports(uid, req[c])
    \/ \E c \in Links : \E i \in DOMAIN up[c] : Reports(uid, up[c][i])

HoldsCurrentKey(uid) ==
    Known(cards, uid) /\ card[uid] = FirstRow(cards, uid).key_this_time

KeyInSync ==
    \A uid \in Uids \ missed :
        Known(cards, uid) /\ ~InSession(uid) => HoldsCurrentKey(uid)

(* Even of a card that was taken away too soon the server still has the key, *)
(* in one of the two columns db2.go keeps for it.                            *)
KeyRecoverable ==
    \A uid \in Uids :
        Known(cards, uid) /\ ~InSession(uid) =>
            card[uid] \in {FirstRow(cards, uid).key_this_time,
                           FirstRow(cards, uid).key_last_time}

(* Block 4 of a card is overwritten only while the server knows the key that *)
(* it held as the current one: a rejected card is left as it is.             *)
OnlyCurrentKeyRewritten ==
    [][\A uid \in Uids :
        card'[uid] # card[uid] => HoldsCurrentKey(uid)]_system_vars

(* At the only reader of a door, a session uses its card as CardIO says: it  *)
(* is read once, and written at most once, after its key was accepted        *)
(* (tls_connection.c:118-147).  PN532.tla shows that the driver keeps the    *)
(* same promise with frames, timeouts and late answers.                      *)
Door == CHOOSE r \in Readers : TRUE

IO == INSTANCE CardIO WITH
          Cards    <- Uids,
          Contents <- Keys,
          field    <- field[Door],
          block    <- card,
          read     <- IF rpc[Door] \in {"connect", "uid_send", "uid_wait"}
                      THEN {[card |-> ruid[Door], data |-> rkey[Door]]} ELSE {},
          due      <- IF rpc[Door] = "card_write"
                      THEN {[card |-> ruid[Door], data |-> rkey[Door]]} ELSE {}
SessionIOSpec == IO!Spec

(* Once a login and a card have been accepted, or two logins have failed,    *)
(* the session that polls for it ends.                                       *)
Decided == (passing /\ checker) \/ attempt_time >= 2

DecisionEndsSession ==
    \A r \in Readers : (rpc[r] \in Beating /\ Decided) ~> rpc[r] \notin Beating

(* Whatever breaks, a reader that has seen a card comes back to its loop or  *)
(* gets as far as waiting for the user's login.                              *)
SessionProceeds ==
    \A r \in Readers :
        rpc[r] \notin Beating \cup {"poll"} ~> rpc[r] \in Beating \cup {"poll"}
=============================================================================
