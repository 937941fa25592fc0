------------------------------- MODULE Wire -------------------------------
(* What travels between the readers (tls_connection.c), the login page       *)
(* (index.html) and the Go server (https_server.go): HTTP/1.1 requests and   *)
(* responses on TLS connections.  A link is one connection: requests reach   *)
(* the server in order, responses the client in order.  A dropped connection *)
(* delivers no more responses, but the server may still read the requests    *)
(* that reached it before the drop.                                          *)
EXTENDS CardTable

CONSTANTS
    Links,       \* connections that can exist at a time
    ReaderLinks, \* those of the ESP32 readers; the others are browsers'
    Faults,      \* the faults the environment is allowed, see FaultKinds
    None

FaultKinds == {"card_leaves",   \* a card is taken away during its session
               "link_drop",     \* a connection breaks or cannot be made
               "late_reply",    \* a response takes longer than the read timeout
               "server_crash",  \* the server process ends and is started again
               "db_error"}      \* SQLite refuses an UPDATE or a SELECT (database locked)

ASSUME WireAssumption == /\ ReaderLinks \subseteq Links
                         /\ Faults \subseteq FaultKinds

VARIABLES
    open,  \* open[c]: the client holds connection c
    up,    \* up[c]: requests sent on c and not yet read by the server
    down   \* down[c]: responses sent on c and not yet read by the client

wire_vars == <<open, up, down>>

(* The fields of struct Request that a request of the type fills in.         *)
UidKey(uid, key)     == [type |-> "UID_KEY", UID |-> uid, OtAK |-> key]
NewCardKey(uid, key) == [type |-> "New_Card_Key", UID |-> uid, New_OtAK |-> key]
Heartbeat            == [type |-> "OPEN"]
Login(uid, password, code) ==
    [type |-> "Password", UID |-> uid, Password |-> password, TOTP |-> code]

UidKeyRequests     == [type: {"UID_KEY"}, UID: Uids, OtAK: Keys]
NewCardKeyRequests == [type: {"New_Card_Key"}, UID: Uids, New_OtAK: Keys]
HeartbeatRequests  == [type: {"OPEN"}]
LoginRequests      == [type: {"Password"}, UID: Uids, Password: Passwords, TOTP: Codes]

ReaderRequests == UidKeyRequests \cup NewCardKeyRequests \cup HeartbeatRequests
Requests       == ReaderRequests \cup LoginRequests

(* A response: the status line and whether its body holds "IS_OK:NO".  The   *)
(* field `to` is auxiliary, no code reads it: the type of request answered.  *)
Replies == [status: {200, 400, 401},
            body: {"OK", "NO", "empty"},
            to: {"UID_KEY", "New_Card_Key", "OPEN", "Password"}]

WireTypeOK ==
    /\ open \in [Links -> BOOLEAN]
    /\ up \in [Links -> Seq(Requests)]
    /\ down \in [Links -> Seq(Replies)]

WireInit ==
    /\ open = [c \in Links |-> FALSE]
    /\ up = [c \in Links |-> << >>]
    /\ down = [c \in Links |-> << >>]

(* esp_tls_conn_write and fetch.                                             *)
Send(c, request) ==
    /\ open[c]
    /\ up' = [up EXCEPT ![c] = Append(@, request)]

(* The server's response is flushed when its handler returns; on a           *)
(* connection that is gone it is discarded.                                  *)
Respond(c, status, body, to) ==
    down' = [down EXCEPT ![c] =
                IF open[c]
                THEN Append(@, [status |-> status, body |-> body, to |-> to])
                ELSE @]

(* esp_tls_conn_read with a response at hand.                                *)
Receive(c) ==
    /\ down[c] # << >>
    /\ down' = [down EXCEPT ![c] = Tail(@)]

(* esp_tls_conn_destroy, or the loss of the connection.                      *)
Hangup(c) ==
    /\ open[c]
    /\ open' = [open EXCEPT ![c] = FALSE]
    /\ down' = [down EXCEPT ![c] = << >>]

(* The server notices that a connection is gone before reading what was left.*)
Forget(c) ==
    /\ ~open[c]
    /\ up[c] # << >>
    /\ up' = [up EXCEPT ![c] = << >>]
    /\ UNCHANGED <<open, down>>
=============================================================================
