------------------------------- MODULE Server -------------------------------
(* GO_RFID/https_server.go.  net/http runs one goroutine per connection,     *)
(* which reads a request, runs its handler and flushes the response before   *)
(* it reads the next one.  Handlers of different connections interleave: the *)
(* globals checker, passing, attempt_time and test_once are shared by all of *)
(* them without a lock.  An action is a stretch of a handler in which it     *)
(* touches shared state once; at[c] is where the handler of connection c     *)
(* stands between two of them.                                               *)
(* The handler of a connection that its client has dropped runs on beside    *)
(* those of the connections made since.  ReaderLinks is the pool of names    *)
(* for them: a name is taken again when its last connection and handler are  *)
(* gone, so that its size bounds how many can overlap.                       *)
EXTENDS Wire

CONSTANTS
    AttemptCap,  \* bound: no browser posts while attempt_time has this value
    MaxRows,     \* bound: the server crashes only while the table is shorter
    Pipeline     \* bound on unanswered requests of a reader's connection

ASSUME BoundAssumption == /\ AttemptCap \in Nat
                          /\ MaxRows \in Nat
                          /\ Pipeline \in Nat

VARIABLES
    cards,         \* the table of testing.db, which outlives the process
    checker,       \* a tapped card has been accepted
    passing,       \* password and TOTP have been accepted
    attempt_time,  \* failed logins counted
    test_once,     \* the first UID_KEY has not registered its card yet
    at,            \* at[c]: position of the handler of connection c
    req,           \* req[c]: the request it handles
    tmp,           \* tmp[c]: the attempt_time its attempt_time++ has loaded
    bell,          \* auxiliary: flips at each 200 OK to a heartbeat
    login_after_tap \* auxiliary: a login came after the last accepted card

global_vars  == <<checker, passing, attempt_time, test_once>>
handler_vars == <<at, req, tmp>>
ghost_vars   == <<bell, login_after_tap>>
server_vars  == <<cards, global_vars, handler_vars, ghost_vars>>
vars         == <<wire_vars, server_vars>>

UidKeyPositions     == {"uid_key", "register", "registered", "key_check",
                        "key_ok", "key_bad"}
NewCardKeyPositions == {"new_card_key", "rotate"}
PasswordPositions   == {"password", "totp", "login", "fail", "fail_store"}
OpenPositions       == {"open", "open_card", "grant", "grant_card", "granted",
                        "limit", "limit_reset"}
Positions == UidKeyPositions \cup NewCardKeyPositions \cup PasswordPositions
                \cup OpenPositions \cup {"idle"}

TypeOK ==
    /\ WireTypeOK
    /\ cards \in Seq(Row)
    /\ checker \in BOOLEAN
    /\ passing \in BOOLEAN
    /\ attempt_time \in Nat
    /\ test_once \in BOOLEAN
    /\ at \in [Links -> Positions]
    /\ req \in [Links -> Requests \cup {None}]
    /\ tmp \in [Links -> Nat]
    /\ bell \in {0, 1}
    /\ login_after_tap \in BOOLEAN

ServerInit ==
    /\ WireInit
    /\ cards = << >>
    /\ checker = FALSE
    /\ passing = FALSE
    /\ attempt_time = 0
    /\ test_once = TRUE
    /\ at = [c \in Links |-> "idle"]
    /\ req = [c \in Links |-> None]
    /\ tmp = [c \in Links |-> 0]
    /\ bell = 0
    /\ login_after_tap = FALSE

-----------------------------------------------------------------------------
(* Control of a handler.                                                     *)

Goto(c, position) == at' = [at EXCEPT ![c] = position]

Finish(c, status, body) ==
    /\ Goto(c, "idle")
    /\ Respond(c, status, body, req[c].type)
    /\ req' = [req EXCEPT ![c] = None]
    /\ UNCHANGED <<open, up, tmp>>

(* A step inside a handler: nothing is read from or written to a connection. *)
Within(c, from, to) ==
    /\ at[c] = from
    /\ Goto(c, to)
    /\ UNCHANGED <<wire_vars, req>>

FirstPosition(type) ==
    CASE type = "UID_KEY"      -> "uid_key"
      [] type = "New_Card_Key" -> "new_card_key"
      [] type = "Password"     -> "password"
      [] type = "OPEN"         -> "open"

(* path_handler and handleJSON up to the first use of shared state.          *)
Accept(c) ==
    /\ at[c] = "idle"
    /\ up[c] # << >>
    /\ Goto(c, FirstPosition(Head(up[c]).type))
    /\ req' = [req EXCEPT ![c] = Head(up[c])]
    /\ up' = [up EXCEPT ![c] = Tail(@)]
    /\ UNCHANGED <<open, down, cards, global_vars, tmp, ghost_vars>>

-----------------------------------------------------------------------------
(* case "UID_KEY"                                                            *)

(* Mutant: test_once is not tested.                                          *)
TestAlways(c) ==
    /\ Within(c, "uid_key", "register")
    /\ UNCHANGED <<cards, global_vars, tmp, ghost_vars>>

TestOnce(c) ==
    /\ Within(c, "uid_key", IF test_once THEN "register" ELSE "key_check")
    /\ UNCHANGED <<cards, global_vars, tmp, ghost_vars>>

Register(c) ==
    /\ Within(c, "register", "registered")
    /\ cards' = database_register(cards, req[c].UID, Sha256(TestingPassword),
                                  req[c].OtAK)
    /\ UNCHANGED <<global_vars, tmp, ghost_vars>>

(* Mutant: test_once is not cleared.                                         *)
RegisteredAgain(c) ==
    /\ Within(c, "registered", "key_check")
    /\ UNCHANGED <<cards, global_vars, tmp, ghost_vars>>

Registered(c) ==
    /\ Within(c, "registered", "key_check")
    /\ test_once' = FALSE
    /\ UNCHANGED <<cards, checker, passing, attempt_time, tmp, ghost_vars>>

KeyCheck(c) ==
    /\ Within(c, "key_check",
              IF KeyMatches(cards, req[c].UID, req[c].OtAK)
              THEN "key_ok" ELSE "key_bad")
    /\ UNCHANGED <<cards, global_vars, tmp, ghost_vars>>

(* The second SELECT fails: the error is only logged, and the key compared   *)
(* with nothing.                                                             *)
KeyCheckFails(c) ==
    /\ "db_error" \in Faults
    /\ Within(c, "key_check", "key_bad")
    /\ UNCHANGED <<cards, global_vars, tmp, ghost_vars>>

KeyOk(c) ==
    /\ at[c] = "key_ok"
    /\ checker' = TRUE
    /\ login_after_tap' = FALSE
    /\ Finish(c, 200, "OK")
    /\ UNCHANGED <<cards, passing, attempt_time, test_once, bell>>

(* http.Error has already written status 400; the WriteHeader that follows   *)
(* it is superfluous, the body still gets "IS_OK:NO".                        *)
KeyBad(c) ==
    /\ at[c] = "key_bad"
    /\ Finish(c, 400, "NO")
    /\ UNCHANGED <<cards, global_vars, ghost_vars>>

-----------------------------------------------------------------------------
(* case "New_Card_Key": without an accepted card the handler falls through   *)
(* to its end, and net/http answers an empty 200.                            *)

(* Mutants: no test; a test that the login has come already.                 *)
MayAlwaysRotate == TRUE
MayRotateAfterLogin == checker /\ passing

MayRotate == checker

RotateCheck(c) ==
    /\ MayRotate
    /\ Within(c, "new_card_key", "rotate")
    /\ UNCHANGED <<cards, global_vars, tmp, ghost_vars>>

RotateIgnored(c) ==
    /\ ~MayRotate
    /\ at[c] = "new_card_key"
    /\ Finish(c, 200, "empty")
    /\ UNCHANGED <<cards, global_vars, ghost_vars>>

Rotate(c) ==
    /\ at[c] = "rotate"
    /\ cards' = database_updater(cards, req[c].UID, req[c].New_OtAK)
    /\ Finish(c, 200, "OK")
    /\ UNCHANGED <<global_vars, ghost_vars>>

RotateFails(c) ==
    /\ "db_error" \in Faults
    /\ at[c] = "rotate"
    /\ Finish(c, 400, "NO")
    /\ UNCHANGED <<cards, global_vars, ghost_vars>>

-----------------------------------------------------------------------------
(* case "Password": attempt_time++ is a load and a store.                    *)

PasswordCheck(c) ==
    /\ Within(c, "password",
              IF PasswordMatches(cards, req[c].UID, Sha256(req[c].Password))
              THEN "totp" ELSE "fail")
    /\ UNCHANGED <<cards, global_vars, tmp, ghost_vars>>

(* The server's code is that of its own clock's 30 s window: a code that was *)
(* right when it was typed may have expired.                                 *)
TotpAccepted(c) ==
    /\ Within(c, "totp", "login")
    /\ TOTPMatches(cards, req[c].UID, req[c].TOTP)
    /\ UNCHANGED <<cards, global_vars, tmp, ghost_vars>>

TotpRefused(c) ==
    /\ Within(c, "totp", "fail")
    /\ UNCHANGED <<cards, global_vars, tmp, ghost_vars>>

LoggedIn(c) ==
    /\ at[c] = "login"
    /\ passing' = TRUE
    /\ login_after_tap' = TRUE
    /\ Finish(c, 200, "empty")
    /\ UNCHANGED <<cards, checker, attempt_time, test_once, bell>>

FailLoad(c) ==
    /\ Within(c, "fail", "fail_store")
    /\ tmp' = [tmp EXCEPT ![c] = attempt_time]
    /\ UNCHANGED <<cards, global_vars, ghost_vars>>

FailStore(c) ==
    /\ at[c] = "fail_store"
    /\ attempt_time' = tmp[c] + 1
    /\ Finish(c, 400, "empty")
    /\ UNCHANGED <<cards, checker, passing, test_once, ghost_vars>>

-----------------------------------------------------------------------------
(* case "/OPEN", the readers' heartbeat                                      *)

OpenCheck(c) ==
    /\ Within(c, "open", IF passing THEN "open_card" ELSE "limit")
    /\ UNCHANGED <<cards, global_vars, tmp, ghost_vars>>

(* Mutant: the card is not tested.                                           *)
CardUnchecked(c) ==
    /\ Within(c, "open_card", "grant")
    /\ UNCHANGED <<cards, global_vars, tmp, ghost_vars>>

CardCheck(c) ==
    /\ Within(c, "open_card", IF checker THEN "grant" ELSE "limit")
    /\ UNCHANGED <<cards, global_vars, tmp, ghost_vars>>

Grant(c) ==
    /\ Within(c, "grant", "grant_card")
    /\ passing' = FALSE
    /\ bell' = 1 - bell
    /\ UNCHANGED <<cards, checker, attempt_time, test_once, tmp, login_after_tap>>

(* Mutant: checker is not cleared.                                           *)
GrantKeepsChecker(c) ==
    /\ Within(c, "grant_card", "granted")
    /\ UNCHANGED <<cards, global_vars, tmp, ghost_vars>>

GrantCard(c) ==
    /\ Within(c, "grant_card", "granted")
    /\ checker' = FALSE
    /\ UNCHANGED <<cards, passing, attempt_time, test_once, tmp, ghost_vars>>

Granted(c) ==
    /\ at[c] = "granted"
    /\ attempt_time' = 0
    /\ Finish(c, 200, "empty")
    /\ UNCHANGED <<cards, checker, passing, test_once, ghost_vars>>

(* Mutant: one failure more.                                                 *)
LimitExceeded == attempt_time > 2

LimitReached == attempt_time >= 2

Limit(c) ==
    /\ LimitReached
    /\ Within(c, "limit", "limit_reset")
    /\ UNCHANGED <<cards, global_vars, tmp, ghost_vars>>

LimitReset(c) ==
    /\ at[c] = "limit_reset"
    /\ attempt_time' = 0
    /\ Finish(c, 400, "empty")
    /\ UNCHANGED <<cards, checker, passing, test_once, ghost_vars>>

Unauthorized(c) ==
    /\ ~LimitReached
    /\ at[c] = "limit"
    /\ Finish(c, 401, "empty")
    /\ UNCHANGED <<cards, global_vars, ghost_vars>>

-----------------------------------------------------------------------------
(* log.Fatal in db2.go, or the end of the process for another reason, and    *)
(* its next start by main in connect.go: database_builder keeps the table.   *)
Crash ==
    /\ "server_crash" \in Faults
    /\ Len(cards) < MaxRows
    /\ checker' = FALSE
    /\ passing' = FALSE
    /\ attempt_time' = 0
    /\ test_once' = TRUE
    /\ at' = [c \in Links |-> "idle"]
    /\ req' = [c \in Links |-> None]
    /\ tmp' = [c \in Links |-> 0]
    /\ open' = [c \in Links |-> FALSE]
    /\ up' = [c \in Links |-> << >>]
    /\ down' = [c \in Links |-> << >>]
    /\ UNCHANGED <<cards, ghost_vars>>

UidKeyStep(c)     == TestOnce(c) \/ Register(c) \/ Registered(c) \/ KeyCheck(c)
                        \/ KeyCheckFails(c) \/ KeyOk(c) \/ KeyBad(c)
NewCardKeyStep(c) == RotateCheck(c) \/ RotateIgnored(c) \/ Rotate(c) \/ RotateFails(c)
PasswordStep(c)   == PasswordCheck(c) \/ TotpAccepted(c) \/ TotpRefused(c)
                        \/ LoggedIn(c) \/ FailLoad(c) \/ FailStore(c)
OpenStep(c)       == OpenCheck(c) \/ CardCheck(c) \/ Grant(c) \/ GrantCard(c)
                        \/ Granted(c) \/ Limit(c) \/ LimitReset(c) \/ Unauthorized(c)

Handle(c) == Accept(c) \/ UidKeyStep(c) \/ NewCardKeyStep(c) \/ PasswordStep(c)
                \/ OpenStep(c)

-----------------------------------------------------------------------------
(* The clients.  A browser posts one login at a time.  A reader, here, sends *)
(* any of its requests in any order; System.tla replaces it by the program.  *)

(* A name of the pool that no connection and no handler bears any more.      *)
Spare(c) == ~open[c] /\ up[c] = << >> /\ at[c] = "idle"

BrowserPost(c) ==
    /\ c \notin ReaderLinks
    /\ at[c] = "idle" /\ up[c] = << >> /\ down[c] = << >>
    /\ attempt_time < AttemptCap
    /\ open' = [open EXCEPT ![c] = TRUE]
    /\ \E uid \in Uids, password \in Passwords, code \in 0 .. Len(cards) :
        up' = [up EXCEPT ![c] = << Login(uid, password, code) >>]
    /\ UNCHANGED <<down, server_vars>>

BrowserReceive(c) ==
    /\ c \notin ReaderLinks
    /\ Receive(c)
    /\ UNCHANGED <<open, up, server_vars>>

LinkHangup(c) ==
    /\ Hangup(c)
    /\ UNCHANGED <<up, server_vars>>

LinkForget(c) ==
    /\ Forget(c)
    /\ UNCHANGED server_vars

ReaderConnect(c) ==
    /\ c \in ReaderLinks
    /\ Spare(c)
    /\ open' = [open EXCEPT ![c] = TRUE]
    /\ UNCHANGED <<up, down, server_vars>>

Unanswered(c) ==
    Len(up[c]) + Len(down[c]) + (IF at[c] = "idle" THEN 0 ELSE 1)

ReaderSend(c) ==
    /\ c \in ReaderLinks
    /\ Unanswered(c) < Pipeline
    /\ \E request \in ReaderRequests : Send(c, request)
    /\ UNCHANGED <<open, down, server_vars>>

ReaderReceive(c) ==
    /\ c \in ReaderLinks
    /\ Receive(c)
    /\ UNCHANGED <<open, up, server_vars>>

ClientStep(c) == BrowserPost(c) \/ BrowserReceive(c) \/ LinkHangup(c) \/ LinkForget(c)
                    \/ ReaderConnect(c) \/ ReaderSend(c) \/ ReaderReceive(c)

ServerNext == Crash \/ \E c \in Links : Handle(c) \/ ClientStep(c)

ServerSpec == ServerInit /\ [][ServerNext]_vars

-----------------------------------------------------------------------------
(* Which handlers a connection can run, and on what: a login page posts only *)
(* Password, so that a reader runs every other handler.                      *)
Roles ==
    /\ \A c \in Links \ ReaderLinks : up[c] \in Seq(LoginRequests)
    /\ \A c \in Links :
        /\ at[c] \in UidKeyPositions => req[c] \in UidKeyRequests
        /\ at[c] \in NewCardKeyPositions => req[c] \in NewCardKeyRequests
        /\ at[c] \in PasswordPositions => req[c] \in LoginRequests
        /\ at[c] \in OpenPositions => req[c] \in HeartbeatRequests
        /\ at[c] \notin PasswordPositions \cup {"idle"} => c \in ReaderLinks

(* /OPEN tests passing, tests checker, then clears one after the other.      *)
(* From each test to the write that relies on it the approval tested is      *)
(* there: no other handler has spent it (https_server.go:190-195).           *)
CheckStillHolds ==
    \A c \in Links :
        /\ at[c] \in {"open_card", "grant"} => passing
        /\ at[c] \in {"grant", "grant_card"} => checker

(* New_Card_Key tests checker before it calls database_updater.  When the    *)
(* UPDATE is about to run, the card's approval has not been spent by a       *)
(* heartbeat granted meanwhile (https_server.go:130-138).                    *)
RotateStillAllowed == \A c \in Links : at[c] = "rotate" => checker

(* test_once is tested at line 104 and cleared at line 110, after an INSERT: *)
(* two handlers must not both pass the test.  While the process runs it      *)
(* registers one card at most.                                               *)
RegistersOnce ==
    \A c \in Links : at[c] \in {"register", "registered"} => test_once

OneRow == Len(cards) <= 1

(* The handlers of the readers' connections run one at a time.  Nothing in   *)
(* https_server.go makes them: one reader that waits for each answer does    *)
(* (System.tla), and one that drops a connection while its handler runs, or  *)
(* a second reader, does not.                                                *)
OneHandler ==
    \A c, d \in ReaderLinks : at[c] # "idle" /\ at[d] # "idle" => c = d

SerialSpec == ServerInit /\ [][ServerNext /\ OneHandler']_vars

(* What ServerProofs.tla shows to be inductive where handlers do not overlap.*)
AccessInv == TypeOK /\ Roles /\ CheckStillHolds /\ RotateStillAllowed /\ RegistersOnce

(* The three stages of the first registration, by a server that does not     *)
(* restart.                                                                  *)
RegistrationInv ==
    \/ /\ cards = << >> /\ test_once
       /\ \A c \in Links : at[c] # "registered"
    \/ /\ Len(cards) = 1 /\ test_once
       /\ \E c \in ReaderLinks : at[c] = "registered"
    \/ /\ Len(cards) = 1 /\ ~test_once
       /\ \A c \in Links : at[c] \notin {"register", "registered"}

(* README.md:7-13 lists the steps of an access: card data, new key, login,   *)
(* OK.  A heartbeat is granted only after a login that followed the accepted *)
(* card.                                                                     *)
LoginFollowsTap == \A c \in Links : at[c] = "grant" => login_after_tap

(* The approvals of Access.tla are the globals of https_server.go; every     *)
(* 200 OK to a heartbeat is an opening that had, and uses up, both.          *)
A == INSTANCE Access WITH
         card_ok  <- checker,
         login_ok <- passing,
         opening  <- \E c \in Links : at[c] = "grant_card"
AccessSpec == A!Spec
=============================================================================
