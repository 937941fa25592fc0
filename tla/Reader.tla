------------------------------- MODULE Reader -------------------------------
(* An ESP32 reader: nfc_task (main.c), which polls for a card for ever, and  *)
(* https_request (tls_connection.c), the session with the server that it     *)
(* runs for each card it has read.  One task does both, so a reader has one  *)
(* position, rpc[r].  Cards are MIFARE Classic tags; block 4 holds the       *)
(* one-time key, and what is written there is what is read: PN532.tla shows  *)
(* when.  Whoever stands at the door puts cards on a reader and takes them   *)
(* away.                                                                     *)
EXTENDS Wire

CONSTANT Readers

ASSUME ReaderAssumption ==
    /\ None \notin Uids
    /\ None \notin Keys
    /\ None \notin ReaderLinks

VARIABLES
    field,  \* field[r]: the card on reader r, or None
    card,   \* card[u]: the key in block 4 of the card with UID u
    rpc,    \* rpc[r]: position of nfc_task
    ruid,   \* ruid[r]: uid
    rkey,   \* rkey[r]: card_key, from the server's 200 on random_bytes
    link    \* link[r]: the connection of tls, or None

reader_vars == <<field, card, rpc, ruid, rkey, link>>

(* In these positions the card has to stay for the session to go well; the   *)
(* log tells its holder "Card can detach" after the last.                    *)
CardNeeded == {"read", "connect", "uid_send", "uid_wait", "card_write"}
Beating    == {"beat_send", "beat_wait"}
Connected  == {"uid_send", "uid_wait", "card_write", "key_send", "key_wait"} \cup Beating
Waiting    == {"uid_wait", "key_wait", "beat_wait"}
Steps      == CardNeeded \cup Beating \cup {"poll", "key_send", "key_wait", "green", "red"}

ReaderTypeOK ==
    /\ field \in [Readers -> Uids \cup {None}]
    /\ card \in [Uids -> Keys]
    /\ rpc \in [Readers -> Steps]
    /\ ruid \in [Readers -> Uids \cup {None}]
    /\ rkey \in [Readers -> Keys \cup {None}]
    /\ link \in [Readers -> ReaderLinks \cup {None}]
    /\ \A r \in Readers : link[r] # None <=> rpc[r] \in Connected

ReaderInit ==
    /\ field = [r \in Readers |-> None]
    /\ card \in [Uids -> Keys]
    /\ rpc = [r \in Readers |-> "poll"]
    /\ ruid = [r \in Readers |-> None]
    /\ rkey = [r \in Readers |-> None]
    /\ link = [r \in Readers |-> None]

Step(r, from, to) ==
    /\ rpc[r] = from
    /\ rpc' = [rpc EXCEPT ![r] = to]

(* A position reached from another that leaves everything else alone.        *)
Skip(r, from, to) ==
    /\ Step(r, from, to)
    /\ UNCHANGED <<wire_vars, field, card, ruid, rkey, link>>

-----------------------------------------------------------------------------
(* Cards at the door                                                         *)

PutCard(r) ==
    /\ field[r] = None
    /\ \E uid \in Uids :
        /\ \A q \in Readers : field[q] # uid
        /\ field' = [field EXCEPT ![r] = uid]
    /\ UNCHANGED <<wire_vars, card, rpc, ruid, rkey, link>>

TakeCard(r) ==
    /\ field[r] # None
    /\ rpc[r] \in CardNeeded => "card_leaves" \in Faults
    /\ field' = [field EXCEPT ![r] = None]
    /\ UNCHANGED <<wire_vars, card, rpc, ruid, rkey, link>>

-----------------------------------------------------------------------------
(* nfc_task: one turn of its loop                                            *)

(* pn532_readPassiveTargetID with timeout 0 waits until a card answers.      *)
Poll(r) ==
    /\ field[r] # None
    /\ Step(r, "poll", "read")
    /\ ruid' = [ruid EXCEPT ![r] = field[r]]
    /\ UNCHANGED <<wire_vars, field, card, rkey, link>>

(* It returns 0 for a card it only half saw; block 4 is then read for        *)
(* nothing and https_request is not called.                                  *)
PollFails(r) ==
    /\ "card_leaves" \in Faults
    /\ field[r] # None
    /\ Skip(r, "poll", "red")

ReadBlock(r) ==
    /\ field[r] = ruid[r]
    /\ Step(r, "read", "connect")
    /\ rkey' = [rkey EXCEPT ![r] = card[ruid[r]]]
    /\ UNCHANGED <<wire_vars, field, card, ruid, link>>

ReadBlockFails(r) ==
    /\ field[r] # ruid[r]
    /\ Skip(r, "read", "red")

(* blink_task_green or blink_task_red is started, and the loop goes on.      *)
Blink(r) ==
    /\ rpc[r] \in {"green", "red"}
    /\ rpc' = [rpc EXCEPT ![r] = "poll"]
    /\ ruid' = [ruid EXCEPT ![r] = None]
    /\ rkey' = [rkey EXCEPT ![r] = None]
    /\ UNCHANGED <<wire_vars, field, card, link>>

-----------------------------------------------------------------------------
(* https_request                                                             *)

Connect(r, c) ==
    /\ Step(r, "connect", "uid_send")
    /\ open' = [open EXCEPT ![c] = TRUE]
    /\ link' = [link EXCEPT ![r] = c]
    /\ UNCHANGED <<up, down, field, card, ruid, rkey>>

ConnectFails(r) ==
    /\ "link_drop" \in Faults
    /\ Skip(r, "connect", "red")

(* Mutant: the connection is forgotten, not destroyed.                       *)
CloseKeepsLink(r, colour) ==
    /\ rpc' = [rpc EXCEPT ![r] = colour]
    /\ UNCHANGED <<wire_vars, field, card, ruid, rkey, link>>

(* esp_tls_conn_destroy and the return of https_request.                     *)
Close(r, colour) ==
    /\ rpc' = [rpc EXCEPT ![r] = colour]
    /\ open' = [open EXCEPT ![link[r]] = FALSE]
    /\ down' = [down EXCEPT ![link[r]] = << >>]
    /\ link' = [link EXCEPT ![r] = None]
    /\ UNCHANGED <<up, field, card, ruid, rkey>>

(* esp_tls_conn_write that the connection takes.                             *)
Write(r, from, to, request) ==
    /\ Step(r, from, to)
    /\ Send(link[r], request)
    /\ UNCHANGED <<open, down, field, card, ruid, rkey, link>>

(* On a dead connection a write may still seem to succeed.                   *)
WriteLost(r, from, to) ==
    /\ Skip(r, from, to)
    /\ ~open[link[r]]

NextReply(r) == Head(down[link[r]])

Read(r, from) ==
    /\ rpc[r] = from
    /\ Receive(link[r])

IsOK(reply)      == reply.status = 200    \* strstr(buf, "200 OK")
IsLimit(reply)   == reply.status = 400    \* strstr(buf, "400 Bad")
IsRefusal(reply) == reply.body = "NO"     \* strstr(buf, "IS_OK:NO")

UidSend(r) ==
    \/ Write(r, "uid_send", "uid_wait", UidKey(ruid[r], rkey[r]))
    \/ WriteLost(r, "uid_send", "uid_wait")

UidSendFails(r) ==
    /\ rpc[r] = "uid_send"
    /\ ~open[link[r]]
    /\ Close(r, "red")

(* The read loop ends at a 200 OK; any other response is read past.          *)
UidAccepted(r, fresh) ==
    /\ Read(r, "uid_wait")
    /\ IsOK(NextReply(r))
    /\ rpc' = [rpc EXCEPT ![r] = "card_write"]
    /\ \E key \in fresh : rkey' = [rkey EXCEPT ![r] = key]
    /\ UNCHANGED <<open, up, field, card, ruid, link>>

UidReadPast(r) ==
    /\ Read(r, "uid_wait")
    /\ ~IsOK(NextReply(r))
    /\ UNCHANGED <<open, up, rpc, field, card, ruid, rkey, link>>

UidTimeout(r) ==
    /\ rpc[r] = "uid_wait"
    /\ Close(r, "red")

(* card_write_on_block returns 0 whether or not the card has been written.   *)
CardWrite(r) ==
    /\ Step(r, "card_write", "key_send")
    /\ card' = IF field[r] = ruid[r]
               THEN [card EXCEPT ![ruid[r]] = rkey[r]]
               ELSE card
    /\ UNCHANGED <<wire_vars, field, ruid, rkey, link>>

(* Mutant: the response to New_Card_Key is not read.                         *)
KeySendOnly(r) ==
    Write(r, "key_send", "beat_send", NewCardKey(ruid[r], rkey[r]))

KeySend(r) ==
    \/ Write(r, "key_send", "key_wait", NewCardKey(ruid[r], rkey[r]))
    \/ WriteLost(r, "key_send", "key_wait")

(* Here tls is not destroyed.                                                *)
KeySendFails(r) ==
    /\ Step(r, "key_send", "red")
    /\ ~open[link[r]]
    /\ link' = [link EXCEPT ![r] = None]
    /\ UNCHANGED <<wire_vars, field, card, ruid, rkey>>

KeyRefused(r) ==
    /\ rpc[r] = "key_wait"
    /\ down[link[r]] # << >>
    /\ IsRefusal(NextReply(r))
    /\ Close(r, "red")

KeyAnswered(r) ==
    /\ Read(r, "key_wait")
    /\ ~IsRefusal(NextReply(r))
    /\ Step(r, "key_wait", "beat_send")
    /\ UNCHANGED <<open, up, field, card, ruid, rkey, link>>

(* Mutant: the read is tried again.                                          *)
KeyTimeoutRetried(r) == Skip(r, "key_wait", "key_wait")

(* Mutant: the card is written again before the session goes on.             *)
KeyTimeoutRewrites(r) == Skip(r, "key_wait", "card_write")

(* Mutant: the request is sent again, as often as it takes.                  *)
KeyTimeoutResends(r) == Skip(r, "key_wait", "key_send")

(* A read that returned nothing ends the wait, not the session.              *)
KeyTimeout(r) == Skip(r, "key_wait", "beat_send")

BeatSend(r) ==
    \/ Write(r, "beat_send", "beat_wait", Heartbeat)
    \/ WriteLost(r, "beat_send", "beat_wait")

BeatPass(r) ==
    /\ rpc[r] = "beat_wait"
    /\ down[link[r]] # << >>
    /\ IsOK(NextReply(r))
    /\ Close(r, "green")

BeatLimit(r) ==
    /\ rpc[r] = "beat_wait"
    /\ down[link[r]] # << >>
    /\ IsLimit(NextReply(r))
    /\ Close(r, "red")

(* blink_task_blue, then the next heartbeat 2.5 s later.                     *)
BeatAgain(r) ==
    /\ Read(r, "beat_wait")
    /\ ~IsOK(NextReply(r)) /\ ~IsLimit(NextReply(r))
    /\ Step(r, "beat_wait", "beat_send")
    /\ UNCHANGED <<open, up, field, card, ruid, rkey, link>>

BeatTimeout(r) ==
    /\ rpc[r] = "beat_wait"
    /\ Close(r, "red")

(* A read that returns no data: its socket timeout, or a dead connection.    *)
ReadReturnsNothing(r) == UidTimeout(r) \/ KeyTimeout(r) \/ BeatTimeout(r)

SessionStep(r) ==
    \/ ConnectFails(r) \/ UidSend(r) \/ UidSendFails(r) \/ UidReadPast(r)
    \/ CardWrite(r) \/ KeySend(r) \/ KeySendFails(r) \/ KeyRefused(r) \/ KeyAnswered(r)
    \/ BeatSend(r) \/ BeatPass(r) \/ BeatLimit(r) \/ BeatAgain(r)

TaskStep(r) == Poll(r) \/ PollFails(r) \/ ReadBlock(r) \/ ReadBlockFails(r) \/ Blink(r)
=============================================================================
