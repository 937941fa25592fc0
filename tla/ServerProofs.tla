---------------------------- MODULE ServerProofs ----------------------------
(* Theorems about Server.tla for every number of browsers, every set of      *)
(* cards, keys and passwords, every bound and every set of faults.           *)
EXTENDS Server, SequenceTheorems, TLAPS

-----------------------------------------------------------------------------
(* The statements of db2.go keep the table a table.                          *)

LEMMA RegisterKeepsTable ==
    ASSUME NEW table \in Seq(Row), NEW uid \in Uids, NEW password \in Passwords,
           NEW key \in Keys
    PROVE  /\ database_register(table, uid, Sha256(password), key) \in Seq(Row)
           /\ Len(database_register(table, uid, Sha256(password), key)) = Len(table) + 1
<1>1. Len(table) + 1 \in Secrets
  BY LenProperties DEF Secrets
<1>2. [uid |-> uid, hashed_password |-> Sha256(password), key_this_time |-> key,
       key_last_time |-> key, totp_secret_key |-> Len(table) + 1] \in Row
  BY <1>1 DEF Row
<1> QED
  BY <1>2, AppendProperties DEF database_register, generateUniqueSecretKey

LEMMA UpdateKeepsTable ==
    ASSUME NEW table \in Seq(Row), NEW uid \in Uids, NEW key \in Keys
    PROVE  /\ database_updater(table, uid, key) \in Seq(Row)
           /\ Len(database_updater(table, uid, key)) = Len(table)
<1> DEFINE after(i) == IF table[i].uid = uid
                       THEN [table[i] EXCEPT !.key_last_time = table[i].key_this_time,
                                             !.key_this_time = key]
                       ELSE table[i]
<1>1. /\ Len(table) \in Nat
      /\ DOMAIN table = 1 .. Len(table)
      /\ \A i \in 1 .. Len(table) : table[i] \in Row
  BY LenProperties, ElementOfSeq
<1>2. \A i \in 1 .. Len(table) : after(i) \in Row
  BY <1>1 DEF Row
<1>3. database_updater(table, uid, key) = [i \in 1 .. Len(table) |-> after(i)]
  BY <1>1 DEF database_updater
<1> HIDE DEF after
<1>4. database_updater(table, uid, key) \in [1 .. Len(table) -> Row]
  BY <1>2, <1>3
<1>5. database_updater(table, uid, key) \in Seq(Row)
  BY <1>1, <1>4, SeqDef
<1>6. Len(database_updater(table, uid, key)) = Len(table)
  BY <1>1, <1>3, <1>5, LenProperties
<1> QED
  BY <1>5, <1>6
-----------------------------------------------------------------------------
(* Types and roles.                                                          *)

LEMMA RequestTypes ==
    /\ \A m \in UidKeyRequests : m.type = "UID_KEY" /\ m.UID \in Uids /\ m.OtAK \in Keys
    /\ \A m \in NewCardKeyRequests :
        m.type = "New_Card_Key" /\ m.UID \in Uids /\ m.New_OtAK \in Keys
    /\ \A m \in HeartbeatRequests : m.type = "OPEN"
    /\ \A m \in LoginRequests : m.type = "Password"
    /\ \A m \in Requests : m.type \in {"UID_KEY", "New_Card_Key", "OPEN", "Password"}
    /\ \A m \in Requests :
        /\ m.type = "UID_KEY" => m \in UidKeyRequests
        /\ m.type = "New_Card_Key" => m \in NewCardKeyRequests
        /\ m.type = "OPEN" => m \in HeartbeatRequests
        /\ m.type = "Password" => m \in LoginRequests
  BY DEF UidKeyRequests, NewCardKeyRequests, HeartbeatRequests, LoginRequests,
         ReaderRequests, Requests

(* Finish keeps the types of what it changes.                                *)
LEMMA FinishTypes ==
    ASSUME TypeOK, NEW c \in Links, req[c] \in Requests,
           NEW status \in {200, 400, 401}, NEW body \in {"OK", "NO", "empty"},
           Finish(c, status, body)
    PROVE  /\ WireTypeOK'
           /\ at' \in [Links -> Positions]
           /\ req' \in [Links -> Requests \cup {None}]
           /\ tmp' \in [Links -> Nat]
<1> DEFINE reply == [status |-> status, body |-> body, to |-> req[c].type]
<1>1. reply \in Replies
  BY RequestTypes DEF Replies
<1>2. down[c] \in Seq(Replies)
  BY DEF TypeOK, WireTypeOK
<1>3. Append(down[c], reply) \in Seq(Replies)
  BY <1>1, <1>2, AppendProperties
<1>4. down' = [down EXCEPT ![c] = IF open[c] THEN Append(@, reply) ELSE @]
  BY DEF Finish, Respond
<1> HIDE DEF reply
<1>5. down' \in [Links -> Seq(Replies)]
  BY <1>2, <1>3, <1>4 DEF TypeOK, WireTypeOK
<1> QED
  BY <1>5 DEF TypeOK, WireTypeOK, Finish, Goto, Positions

LEMMA FinishRoles ==
    ASSUME TypeOK, Roles, NEW c \in Links, NEW status, NEW body, Finish(c, status, body)
    PROVE  Roles'
  BY DEF TypeOK, WireTypeOK, Roles, Finish, Goto, Positions, UidKeyPositions,
         NewCardKeyPositions, PasswordPositions, OpenPositions

SameHandler(from, to) ==
    \/ from \in UidKeyPositions /\ to \in UidKeyPositions
    \/ from \in NewCardKeyPositions /\ to \in NewCardKeyPositions
    \/ from \in PasswordPositions /\ to \in PasswordPositions
    \/ from \in OpenPositions /\ to \in OpenPositions

(* So does a step from one position of a handler to another of the same.     *)
LEMMA WithinTypes ==
    ASSUME TypeOK, Roles, NEW c \in Links, NEW from, NEW to,
           SameHandler(from, to),
           Within(c, from, to)
    PROVE  /\ WireTypeOK'
           /\ at' \in [Links -> Positions]
           /\ req' \in [Links -> Requests \cup {None}]
           /\ Roles'
<1>1. at' \in [Links -> Positions]
  BY DEF TypeOK, Within, Goto, Positions, SameHandler
<1>2. WireTypeOK' /\ req' \in [Links -> Requests \cup {None}]
  BY DEF TypeOK, WireTypeOK, Within, wire_vars
<1>3. UNCHANGED <<up, req>> /\ at[c] = from /\ at' = [at EXCEPT ![c] = to]
  BY DEF Within, Goto, wire_vars
<1>4. at'[c] = to /\ \A d \in Links \ {c} : at'[d] = at[d]
  BY <1>3 DEF TypeOK
<1>5. ASSUME NEW d \in Links
      PROVE  /\ at'[d] \in UidKeyPositions => at[d] \in UidKeyPositions
             /\ at'[d] \in NewCardKeyPositions => at[d] \in NewCardKeyPositions
             /\ at'[d] \in PasswordPositions => at[d] \in PasswordPositions
             /\ at'[d] \in OpenPositions => at[d] \in OpenPositions
             /\ at'[d] \notin PasswordPositions \cup {"idle"} =>
                    at[d] \notin PasswordPositions \cup {"idle"}
  BY <1>3, <1>4 DEF SameHandler, UidKeyPositions, NewCardKeyPositions,
                    PasswordPositions, OpenPositions
<1>6. Roles'
  BY <1>3, <1>5 DEF Roles
<1> QED
  BY <1>1, <1>2, <1>6

LEMMA UidKeyTypes ==
    ASSUME TypeOK, Roles, NEW c \in Links, UidKeyStep(c)
    PROVE  TypeOK' /\ Roles'
<1> USE DEF SameHandler, UidKeyPositions, ghost_vars, global_vars
<1>0. /\ req[c] \in Requests \cup {None}
      /\ at[c] \in UidKeyPositions => req[c] \in UidKeyRequests /\ req[c] \in Requests
      /\ TestingPassword \in Passwords
  BY TestingPasswordAssumption DEF TypeOK, Roles, Requests, ReaderRequests
<1>1. CASE TestOnce(c)
  BY <1>1, WithinTypes DEF TypeOK, TestOnce
<1>2. CASE Register(c)
  <2>1. at[c] = "register" /\ Within(c, "register", "registered")
    BY <1>2 DEF Register, Within
  <2>2. req[c].UID \in Uids /\ req[c].OtAK \in Keys
    BY <2>1, <1>0, RequestTypes
  <2>3. cards' \in Seq(Row)
    BY <1>0, <1>2, <2>2, RegisterKeepsTable DEF TypeOK, Register
  <2> QED
    BY <1>2, <2>1, <2>3, WithinTypes DEF TypeOK, Register
<1>3. CASE Registered(c)
  BY <1>3, WithinTypes DEF TypeOK, Registered
<1>4. CASE KeyCheck(c)
  BY <1>4, WithinTypes DEF TypeOK, KeyCheck
<1>7. CASE KeyCheckFails(c)
  BY <1>7, WithinTypes DEF TypeOK, KeyCheckFails
<1>5. CASE KeyOk(c)
  <2>1. Finish(c, 200, "OK") /\ req[c] \in Requests
    BY <1>0, <1>5 DEF KeyOk
  <2>2. /\ WireTypeOK' /\ Roles'
        /\ at' \in [Links -> Positions]
        /\ req' \in [Links -> Requests \cup {None}]
        /\ tmp' \in [Links -> Nat]
    BY <2>1, FinishTypes, FinishRoles
  <2> QED
    BY <1>5, <2>2 DEF TypeOK, KeyOk
<1>6. CASE KeyBad(c)
  BY <1>0, <1>6, FinishTypes, FinishRoles DEF TypeOK, KeyBad
<1> QED
  BY <1>1, <1>2, <1>3, <1>4, <1>5, <1>6, <1>7 DEF UidKeyStep

LEMMA NewCardKeyTypes ==
    ASSUME TypeOK, Roles, NEW c \in Links, NewCardKeyStep(c)
    PROVE  TypeOK' /\ Roles'
<1> USE DEF SameHandler, NewCardKeyPositions, ghost_vars, global_vars
<1>0. at[c] \in NewCardKeyPositions => req[c] \in NewCardKeyRequests /\ req[c] \in Requests
  BY DEF TypeOK, Roles, Requests, ReaderRequests
<1>1. CASE RotateCheck(c)
  BY <1>1, WithinTypes DEF TypeOK, RotateCheck
<1>2. CASE RotateIgnored(c)
  BY <1>0, <1>2, FinishTypes, FinishRoles DEF TypeOK, RotateIgnored
<1>3. CASE Rotate(c)
  <2>1. req[c].UID \in Uids /\ req[c].New_OtAK \in Keys
    BY <1>0, <1>3, RequestTypes DEF Rotate
  <2>2. cards' \in Seq(Row)
    BY <1>3, <2>1, UpdateKeepsTable DEF TypeOK, Rotate
  <2> QED
    BY <1>0, <1>3, <2>2, FinishTypes, FinishRoles DEF TypeOK, Rotate
<1>4. CASE RotateFails(c)
  BY <1>0, <1>4, FinishTypes, FinishRoles DEF TypeOK, RotateFails
<1> QED
  BY <1>1, <1>2, <1>3, <1>4 DEF NewCardKeyStep

LEMMA PasswordTypes ==
    ASSUME TypeOK, Roles, NEW c \in Links, PasswordStep(c)
    PROVE  TypeOK' /\ Roles'
<1> USE DEF SameHandler, PasswordPositions, ghost_vars, global_vars
<1>0. at[c] \in PasswordPositions => req[c] \in LoginRequests /\ req[c] \in Requests
  BY DEF TypeOK, Roles, Requests
<1>1. CASE PasswordCheck(c)
  BY <1>1, WithinTypes DEF TypeOK, PasswordCheck
<1>2. CASE TotpAccepted(c)
  BY <1>2, WithinTypes DEF TypeOK, TotpAccepted
<1>3. CASE TotpRefused(c)
  BY <1>3, WithinTypes DEF TypeOK, TotpRefused
<1>4. CASE LoggedIn(c)
  BY <1>0, <1>4, FinishTypes, FinishRoles DEF TypeOK, LoggedIn
<1>5. CASE FailLoad(c)
  BY <1>5, WithinTypes DEF TypeOK, FailLoad
<1>6. CASE FailStore(c)
  <2>1. attempt_time' \in Nat
    BY <1>6 DEF TypeOK, FailStore
  <2> QED
    BY <1>0, <1>6, <2>1, FinishTypes, FinishRoles DEF TypeOK, FailStore
<1> QED
  BY <1>1, <1>2, <1>3, <1>4, <1>5, <1>6 DEF PasswordStep

LEMMA OpenTypes ==
    ASSUME TypeOK, Roles, NEW c \in Links, OpenStep(c)
    PROVE  TypeOK' /\ Roles'
<1> USE DEF SameHandler, OpenPositions, ghost_vars, global_vars
<1>0. at[c] \in OpenPositions => req[c] \in HeartbeatRequests /\ req[c] \in Requests
  BY DEF TypeOK, Roles, Requests, ReaderRequests
<1>1. CASE OpenCheck(c)
  BY <1>1, WithinTypes DEF TypeOK, OpenCheck
<1>7. CASE CardCheck(c) \/ GrantCard(c)
  BY <1>7, WithinTypes DEF TypeOK, CardCheck, GrantCard
<1>2. CASE Grant(c)
  <2>1. Within(c, "grant", "grant_card")
    BY <1>2 DEF Grant
  <2>2. /\ WireTypeOK' /\ Roles'
        /\ at' \in [Links -> Positions]
        /\ req' \in [Links -> Requests \cup {None}]
    BY <2>1, WithinTypes
  <2>3. bell' \in {0, 1}
    BY <1>2 DEF TypeOK, Grant
  <2> QED
    BY <1>2, <2>2, <2>3 DEF TypeOK, Grant
<1>3. CASE Granted(c)
  BY <1>0, <1>3, FinishTypes, FinishRoles DEF TypeOK, Granted
<1>4. CASE Limit(c)
  BY <1>4, WithinTypes DEF TypeOK, Limit
<1>5. CASE LimitReset(c)
  BY <1>0, <1>5, FinishTypes, FinishRoles DEF TypeOK, LimitReset
<1>6. CASE Unauthorized(c)
  BY <1>0, <1>6, FinishTypes, FinishRoles DEF TypeOK, Unauthorized
<1> QED
  BY <1>1, <1>2, <1>3, <1>4, <1>5, <1>6, <1>7 DEF OpenStep

LEMMA AcceptTypes ==
    ASSUME TypeOK, Roles, NEW c \in Links, Accept(c)
    PROVE  TypeOK' /\ Roles'
<1> DEFINE m == Head(up[c])
<1>1. up[c] \in Seq(Requests) /\ up[c] # << >> /\ at[c] = "idle"
  BY DEF Accept, TypeOK, WireTypeOK
<1>2. m \in Requests /\ Tail(up[c]) \in Seq(Requests)
  BY <1>1, HeadTailProperties
<1>3. c \notin ReaderLinks => m \in LoginRequests /\ Tail(up[c]) \in Seq(LoginRequests)
  BY <1>1, HeadTailProperties DEF Roles
<1>4. /\ m.type \in {"UID_KEY", "New_Card_Key", "OPEN", "Password"}
      /\ m.type = "UID_KEY" => m \in UidKeyRequests
      /\ m.type = "New_Card_Key" => m \in NewCardKeyRequests
      /\ m.type = "OPEN" => m \in HeartbeatRequests
      /\ m.type = "Password" => m \in LoginRequests
      /\ m \in LoginRequests => m.type = "Password"
  BY <1>2, RequestTypes
<1>5. /\ at' = [at EXCEPT ![c] = FirstPosition(m.type)]
      /\ req' = [req EXCEPT ![c] = m]
      /\ up' = [up EXCEPT ![c] = Tail(up[c])]
      /\ UNCHANGED <<open, down, cards, global_vars, tmp, ghost_vars>>
  BY DEF Accept, Goto
<1> HIDE DEF m
<1>6. /\ m.type = "UID_KEY" => FirstPosition(m.type) = "uid_key"
      /\ m.type = "New_Card_Key" => FirstPosition(m.type) = "new_card_key"
      /\ m.type = "Password" => FirstPosition(m.type) = "password"
      /\ m.type = "OPEN" => FirstPosition(m.type) = "open"
  BY <1>4 DEF FirstPosition
<1>7. FirstPosition(m.type) \in {"uid_key", "new_card_key", "password", "open"}
  BY <1>4, <1>6
<1>8. TypeOK'
  BY <1>2, <1>5, <1>7 DEF TypeOK, WireTypeOK, Positions, UidKeyPositions,
     NewCardKeyPositions, PasswordPositions, OpenPositions, global_vars, ghost_vars
<1>9. \A d \in Links \ ReaderLinks : up'[d] \in Seq(LoginRequests)
  BY <1>3, <1>5 DEF Roles, TypeOK, WireTypeOK
<1>10. \A d \in Links \ {c} : at'[d] = at[d] /\ req'[d] = req[d]
  BY <1>5 DEF TypeOK
<1>11. at'[c] = FirstPosition(m.type) /\ req'[c] = m
  BY <1>5 DEF TypeOK
<1>12. /\ at'[c] \in UidKeyPositions => req'[c] \in UidKeyRequests
       /\ at'[c] \in NewCardKeyPositions => req'[c] \in NewCardKeyRequests
       /\ at'[c] \in PasswordPositions => req'[c] \in LoginRequests
       /\ at'[c] \in OpenPositions => req'[c] \in HeartbeatRequests
       /\ at'[c] \notin PasswordPositions \cup {"idle"} => c \in ReaderLinks
  BY <1>3, <1>4, <1>6, <1>11 DEF UidKeyPositions, NewCardKeyPositions,
     PasswordPositions, OpenPositions
<1> QED
  BY <1>8, <1>9, <1>10, <1>12 DEF Roles

LEMMA ClientTypes ==
    ASSUME TypeOK, Roles, NEW c \in Links, ClientStep(c)
    PROVE  TypeOK' /\ Roles'
<1> USE DEF server_vars, global_vars, handler_vars, ghost_vars
<1>0. /\ up[c] \in Seq(Requests) /\ down[c] \in Seq(Replies)
      /\ c \notin ReaderLinks => up[c] \in Seq(LoginRequests)
  BY DEF TypeOK, WireTypeOK, Roles
<1>1. CASE BrowserPost(c)
  <2>1. PICK uid \in Uids, password \in Passwords, code \in 0 .. Len(cards) :
            up' = [up EXCEPT ![c] = << Login(uid, password, code) >>]
    BY <1>1 DEF BrowserPost
  <2>2. Len(cards) \in Nat
    BY LenProperties DEF TypeOK
  <2>3. Login(uid, password, code) \in LoginRequests
    BY <2>2 DEF Login, LoginRequests, Codes
  <2>4. /\ << Login(uid, password, code) >> \in Seq(LoginRequests)
        /\ << Login(uid, password, code) >> \in Seq(Requests)
    BY <2>3 DEF Requests
  <2> QED
    BY <1>1, <2>1, <2>4 DEF BrowserPost, TypeOK, WireTypeOK, Roles
<1>2. CASE BrowserReceive(c) \/ ReaderReceive(c)
  <2>1. down' = [down EXCEPT ![c] = Tail(@)] /\ Tail(down[c]) \in Seq(Replies)
    BY <1>0, <1>2, HeadTailProperties DEF BrowserReceive, ReaderReceive, Receive
  <2> QED
    BY <1>2, <2>1 DEF BrowserReceive, ReaderReceive, TypeOK, WireTypeOK, Roles
<1>3. CASE LinkHangup(c)
  <2>1. << >> \in Seq(Replies)
    OBVIOUS
  <2> QED
    BY <1>3, <2>1 DEF LinkHangup, Hangup, TypeOK, WireTypeOK, Roles
<1>4. CASE LinkForget(c)
  <2>1. << >> \in Seq(Requests) /\ << >> \in Seq(LoginRequests)
    OBVIOUS
  <2> QED
    BY <1>4, <2>1 DEF LinkForget, Forget, TypeOK, WireTypeOK, Roles
<1>5. CASE ReaderConnect(c)
  BY <1>5 DEF ReaderConnect, TypeOK, WireTypeOK, Roles
<1>6. CASE ReaderSend(c)
  <2>1. PICK m \in ReaderRequests : up' = [up EXCEPT ![c] = Append(@, m)]
    BY <1>6 DEF ReaderSend, Send
  <2>2. Append(up[c], m) \in Seq(Requests)
    BY <1>0, AppendProperties DEF Requests
  <2> QED
    BY <1>6, <2>1, <2>2 DEF ReaderSend, TypeOK, WireTypeOK, Roles
<1> QED
  BY <1>1, <1>2, <1>3, <1>4, <1>5, <1>6 DEF ClientStep

LEMMA CrashTypes ==
    ASSUME TypeOK, Roles, Crash
    PROVE  TypeOK' /\ Roles'
<1>1. << >> \in Seq(Requests) /\ << >> \in Seq(Replies) /\ << >> \in Seq(LoginRequests)
  OBVIOUS
<1>2. TypeOK'
  BY <1>1 DEF Crash, TypeOK, WireTypeOK, Positions, ghost_vars
<1> QED
  BY <1>1, <1>2 DEF Crash, Roles, WireTypeOK, UidKeyPositions, NewCardKeyPositions,
     PasswordPositions, OpenPositions

LEMMA HandleTypes ==
    ASSUME TypeOK, Roles, NEW c \in Links, Handle(c)
    PROVE  TypeOK' /\ Roles'
  BY AcceptTypes, UidKeyTypes, NewCardKeyTypes, PasswordTypes, OpenTypes DEF Handle

LEMMA InitTypes == ServerInit => TypeOK /\ Roles
<1> SUFFICES ASSUME ServerInit PROVE TypeOK /\ Roles
  OBVIOUS
<1>1. << >> \in Seq(Requests) /\ << >> \in Seq(Replies)
      /\ << >> \in Seq(LoginRequests) /\ << >> \in Seq(Row)
  OBVIOUS
<1> QED
  BY <1>1 DEF ServerInit, WireInit, TypeOK, WireTypeOK, Roles, Positions, UidKeyPositions,
     NewCardKeyPositions, PasswordPositions, OpenPositions

LEMMA StutterTypes == TypeOK /\ Roles /\ UNCHANGED vars => TypeOK' /\ Roles'
  BY DEF TypeOK, WireTypeOK, Roles, vars, wire_vars, server_vars, global_vars,
         handler_vars, ghost_vars

(* Every reachable state is well typed, and a browser's connection never     *)
(* runs a reader's handler.                                                  *)
THEOREM TypeCorrect == ServerSpec => [](TypeOK /\ Roles)
<1>1. TypeOK /\ Roles /\ [ServerNext]_vars => (TypeOK /\ Roles)'
  BY HandleTypes, ClientTypes, CrashTypes, StutterTypes DEF ServerNext
<1> QED
  BY InitTypes, <1>1, PTL DEF ServerSpec
-----------------------------------------------------------------------------
(* Handlers of readers that do not overlap: none spends an approval between  *)
(* another's test of it and its use.                                         *)

(* Positions between a test of a global and the step that relies on it.      *)
Critical == {"open_card", "grant", "grant_card", "rotate", "register", "registered"}

(* While a reader's handler is at work every other handler is a browser's.   *)
LEMMA OthersUncritical ==
    ASSUME OneHandler, TypeOK, Roles, NEW c \in ReaderLinks, at[c] # "idle",
           NEW d \in Links \ {c}
    PROVE  at[d] \notin Critical
  BY WireAssumption DEF OneHandler, Roles, Critical, PasswordPositions

(* Inside a handler the other connections' positions stand still.            *)
LEMMA OnlyOneMoves ==
    ASSUME TypeOK, NEW c \in Links, Handle(c)
    PROVE  \A d \in Links \ {c} : at'[d] = at[d]
<1>1. \E p : Goto(c, p)
  <2>1. CASE Accept(c)
    BY <2>1 DEF Accept
  <2>2. CASE UidKeyStep(c)
    BY <2>2 DEF UidKeyStep, TestOnce, Register, Registered, KeyCheck, KeyCheckFails, KeyOk,
       KeyBad, Within, Finish
  <2>3. CASE NewCardKeyStep(c)
    BY <2>3 DEF NewCardKeyStep, RotateCheck, RotateIgnored, Rotate, RotateFails,
                Within, Finish
  <2>4. CASE PasswordStep(c)
    BY <2>4 DEF PasswordStep, PasswordCheck, TotpAccepted, TotpRefused, LoggedIn,
                FailLoad, FailStore, Within, Finish
  <2>5. CASE OpenStep(c)
    BY <2>5 DEF OpenStep, OpenCheck, CardCheck, Grant, GrantCard, Granted, Limit,
       LimitReset, Unauthorized, Within, Finish
  <2> QED
    BY <2>1, <2>2, <2>3, <2>4, <2>5 DEF Handle
<1> QED
  BY <1>1 DEF Goto, TypeOK

Approvals == CheckStillHolds /\ RotateStillAllowed /\ RegistersOnce

LEMMA AcceptApprovals ==
    ASSUME TypeOK, Approvals, NEW c \in Links, Accept(c)
    PROVE  Approvals'
<1>1. up[c] # << >> /\ up[c] \in Seq(Requests)
  BY DEF Accept, TypeOK, WireTypeOK
<1>2. Head(up[c]).type \in {"UID_KEY", "New_Card_Key", "OPEN", "Password"}
  BY <1>1, HeadTailProperties, RequestTypes
<1>3. FirstPosition(Head(up[c]).type) \in {"uid_key", "new_card_key", "password", "open"}
  BY <1>2 DEF FirstPosition
<1>4. at'[c] \notin Critical
  BY <1>3 DEF Accept, Goto, TypeOK, Critical
<1>5. \A d \in Links \ {c} : at'[d] = at[d]
  BY OnlyOneMoves DEF Handle
<1> QED
  BY <1>4, <1>5 DEF Approvals, CheckStillHolds, RotateStillAllowed, RegistersOnce,
     Critical, Accept, global_vars

(* A login page's handler gives an approval but never takes one away.        *)
LEMMA PasswordApprovals ==
    ASSUME TypeOK, Approvals, NEW c \in Links, PasswordStep(c)
    PROVE  Approvals'
<1>1. at'[c] \notin Critical
  BY DEF PasswordStep, PasswordCheck, TotpAccepted, TotpRefused, LoggedIn, FailLoad,
         FailStore, Within, Finish, Goto, TypeOK, Critical
<1>2. /\ checker' = checker
      /\ test_once' = test_once
      /\ passing => passing'
  BY DEF PasswordStep, PasswordCheck, TotpAccepted, TotpRefused, LoggedIn, FailLoad,
         FailStore, global_vars
<1>3. \A d \in Links \ {c} : at'[d] = at[d]
  BY OnlyOneMoves DEF Handle
<1> QED
  BY <1>1, <1>2, <1>3 DEF Approvals, CheckStillHolds, RotateStillAllowed, RegistersOnce,
     Critical

(* Of a step of the reader's handler only its own position matters.          *)
LEMMA ReaderApprovals ==
    ASSUME OneHandler, TypeOK, Roles, Approvals, NEW c \in Links,
           UidKeyStep(c) \/ NewCardKeyStep(c) \/ OpenStep(c)
    PROVE  Approvals'
<1>1. c \in ReaderLinks /\ at[c] # "idle"
  BY DEF UidKeyStep, TestOnce, Register, Registered, KeyCheck, KeyCheckFails, KeyOk, KeyBad,
     NewCardKeyStep, RotateCheck, RotateIgnored, Rotate, RotateFails, OpenStep, OpenCheck,
     CardCheck, Grant, GrantCard, Granted, Limit, LimitReset, Unauthorized, Within, Roles,
     PasswordPositions
<1>2. \A d \in Links \ {c} : at'[d] \notin Critical
  BY <1>1, OthersUncritical, OnlyOneMoves DEF Handle
<1>3. /\ at'[c] \in {"open_card", "grant"} => passing'
      /\ at'[c] \in {"grant", "grant_card"} => checker'
  BY DEF UidKeyStep, TestOnce, Register, Registered, KeyCheck, KeyCheckFails, KeyOk, KeyBad,
     NewCardKeyStep, RotateCheck, RotateIgnored, Rotate, RotateFails, OpenStep, OpenCheck,
     CardCheck, Grant, GrantCard, Granted, Limit, LimitReset, Unauthorized, Within, Finish,
     Goto, TypeOK, Approvals, CheckStillHolds, global_vars
<1>4. at'[c] = "rotate" => checker'
  BY DEF UidKeyStep, TestOnce, Register, Registered, KeyCheck, KeyCheckFails, KeyOk, KeyBad,
     NewCardKeyStep, RotateCheck, RotateIgnored, Rotate, RotateFails, OpenStep, OpenCheck,
     CardCheck, Grant, GrantCard, Granted, Limit, LimitReset, Unauthorized, Within, Finish,
     Goto, TypeOK, MayRotate, global_vars
<1>5. at'[c] \in {"register", "registered"} => test_once'
  BY DEF UidKeyStep, TestOnce, Register, Registered, KeyCheck, KeyCheckFails, KeyOk, KeyBad,
     NewCardKeyStep, RotateCheck, RotateIgnored, Rotate, RotateFails, OpenStep, OpenCheck,
     CardCheck, Grant, GrantCard, Granted, Limit, LimitReset, Unauthorized, Within, Finish,
     Goto, TypeOK, Approvals, RegistersOnce, global_vars
<1> QED
  BY <1>2, <1>3, <1>4, <1>5 DEF Approvals, CheckStillHolds, RotateStillAllowed,
     RegistersOnce, Critical

LEMMA ClientApprovals ==
    ASSUME Approvals, NEW c \in Links, ClientStep(c)
    PROVE  Approvals'
<1>1. UNCHANGED server_vars
  BY DEF ClientStep, BrowserPost, BrowserReceive, LinkHangup, LinkForget, ReaderConnect,
         ReaderSend, ReaderReceive
<1> QED
  BY <1>1 DEF server_vars, global_vars, handler_vars, Approvals, CheckStillHolds,
     RotateStillAllowed, RegistersOnce

LEMMA ApprovalsStep ==
    ASSUME OneHandler, TypeOK, Roles, Approvals, [ServerNext]_vars
    PROVE  Approvals'
<1>1. CASE Crash
  BY <1>1 DEF Crash, Approvals, CheckStillHolds, RotateStillAllowed, RegistersOnce
<1>2. ASSUME NEW c \in Links, Handle(c)
      PROVE  Approvals'
  BY <1>2, AcceptApprovals, PasswordApprovals, ReaderApprovals DEF Handle
<1>3. CASE UNCHANGED vars
  BY <1>3 DEF vars, server_vars, global_vars, handler_vars, Approvals, CheckStillHolds,
     RotateStillAllowed, RegistersOnce
<1> QED
  BY <1>1, <1>2, <1>3, ClientApprovals DEF ServerNext

LEMMA SerialIsServer == SerialSpec => ServerSpec
<1>1. [ServerNext /\ OneHandler']_vars => [ServerNext]_vars
  OBVIOUS
<1> QED
  BY <1>1, PTL DEF SerialSpec, ServerSpec

(* No two readers' handlers at first, and no step makes them two.            *)
LEMMA HandlersInTurn == SerialSpec => []OneHandler
<1>1. ServerInit => OneHandler
  BY WireAssumption DEF ServerInit, OneHandler
<1>2. OneHandler /\ [ServerNext /\ OneHandler']_vars => OneHandler'
  BY DEF OneHandler, vars, server_vars, handler_vars
<1> QED
  BY <1>1, <1>2, PTL DEF SerialSpec

(* The inductive invariant where handlers do not overlap.                    *)
LEMMA AccessInvariant == SerialSpec => []AccessInv
<1>1. ServerInit => Approvals
  BY DEF ServerInit, Approvals, CheckStillHolds, RotateStillAllowed, RegistersOnce
<1>2. OneHandler /\ TypeOK /\ Roles /\ Approvals /\ [ServerNext]_vars => Approvals'
  BY ApprovalsStep
<1>3. TypeOK /\ Roles /\ Approvals => AccessInv
  BY DEF AccessInv, Approvals
<1> QED
  BY TypeCorrect, SerialIsServer, HandlersInTurn, <1>1, <1>2, <1>3, PTL
  DEF ServerSpec

(* Where the readers' handlers run one at a time, whatever the faults and    *)
(* restarts and however many browsers log in meanwhile, an approval that a   *)
(* handler has tested is still there when the handler uses it                *)
(* (https_server.go:104, 130, 190).                                          *)
THEOREM ApprovalsHold ==
    SerialSpec => [](CheckStillHolds /\ RotateStillAllowed /\ RegistersOnce)
<1>1. AccessInv => CheckStillHolds /\ RotateStillAllowed /\ RegistersOnce
  BY DEF AccessInv
<1> QED
  BY AccessInvariant, <1>1, PTL
-----------------------------------------------------------------------------
(* Refinement of Access.tla.                                                 *)

Opening == \E c \in Links : at[c] = "grant_card"

(* A handler that neither reaches nor leaves "grant_card" leaves Opening.    *)
LEMMA OpeningUnchanged ==
    ASSUME TypeOK, NEW c \in Links, Handle(c),
           at[c] # "grant_card", at'[c] # "grant_card"
    PROVE  Opening' = Opening
<1>1. \A d \in Links : at'[d] = "grant_card" <=> at[d] = "grant_card"
  BY OnlyOneMoves
<1> QED
  BY <1>1 DEF Opening

(* The only reader's handler at work is the one that opens.                  *)
LEMMA NotOpening ==
    ASSUME OneHandler, TypeOK, Roles, NEW c \in ReaderLinks, at[c] # "idle"
    PROVE  Opening <=> at[c] = "grant_card"
  BY OthersUncritical, WireAssumption DEF Opening, Critical

LEMMA OtherPositions ==
    ASSUME TypeOK, NEW c \in Links, Handle(c), ~Grant(c), ~GrantCard(c)
    PROVE  at[c] # "grant_card" /\ at'[c] # "grant_card"
<1>1. CASE Accept(c)
  <2>1. Head(up[c]).type \in {"UID_KEY", "New_Card_Key", "OPEN", "Password"}
    BY <1>1, HeadTailProperties, RequestTypes DEF Accept, TypeOK, WireTypeOK
  <2>2. FirstPosition(Head(up[c]).type) \in {"uid_key", "new_card_key", "password", "open"}
    BY <2>1 DEF FirstPosition
  <2> QED
    BY <1>1, <2>2 DEF Accept, Goto, TypeOK
<1>2. CASE UidKeyStep(c)
  BY <1>2 DEF UidKeyStep, TestOnce, Register, Registered, KeyCheck, KeyCheckFails,
              KeyOk, KeyBad, Within, Finish, Goto, TypeOK
<1>3. CASE NewCardKeyStep(c)
  BY <1>3 DEF NewCardKeyStep, RotateCheck, RotateIgnored, Rotate, RotateFails,
              Within, Finish, Goto, TypeOK
<1>4. CASE PasswordStep(c)
  BY <1>4 DEF PasswordStep, PasswordCheck, TotpAccepted, TotpRefused, LoggedIn, FailLoad,
              FailStore, Within, Finish, Goto, TypeOK
<1>5. CASE OpenStep(c)
  BY <1>5 DEF OpenStep, OpenCheck, CardCheck, Granted, Limit, LimitReset, Unauthorized,
              Within, Finish, Goto, TypeOK
<1> QED
  BY <1>1, <1>2, <1>3, <1>4, <1>5 DEF Handle

(* Every step of a handler is a step of Access or leaves its state alone.    *)
AccessStep ==
    \/ A!AcceptCard \/ A!AcceptLogin \/ A!Open \/ A!UseCard \/ A!Restart
    \/ UNCHANGED A!access_vars

LEMMA HandleOfAccess ==
    ASSUME OneHandler, AccessInv, NEW c \in Links, Handle(c)
    PROVE  AccessStep
<1> USE DEF AccessStep, A!AcceptCard, A!AcceptLogin, A!Open, A!UseCard, A!access_vars,
            global_vars, ghost_vars
<1>0. TypeOK /\ Roles /\ CheckStillHolds
  BY DEF AccessInv
<1>1. CASE Grant(c)
  <2>1. at[c] = "grant" /\ at'[c] = "grant_card" /\ c \in ReaderLinks
    BY <1>0, <1>1 DEF Grant, Within, Goto, TypeOK, Roles, PasswordPositions
  <2>2. passing /\ checker
    BY <1>0, <2>1 DEF CheckStillHolds
  <2>3. ~Opening /\ Opening'
    BY <1>0, <2>1, NotOpening DEF Opening
  <2> QED
    BY <1>1, <2>2, <2>3 DEF Grant, Opening
<1>2. CASE GrantCard(c)
  <2>1. at[c] = "grant_card" /\ at'[c] = "granted" /\ c \in ReaderLinks
    BY <1>0, <1>2 DEF GrantCard, Within, Goto, TypeOK, Roles, PasswordPositions
  <2>2. checker /\ Opening
    BY <1>0, <2>1 DEF CheckStillHolds, Opening
  <2>3. \A d \in Links : at'[d] # "grant_card"
    BY <1>0, <2>1, OthersUncritical, OnlyOneMoves DEF Critical
  <2> QED
    BY <1>2, <2>2, <2>3 DEF GrantCard, Opening
<1>3. CASE ~Grant(c) /\ ~GrantCard(c)
  <2>1. at[c] # "grant_card" /\ at'[c] # "grant_card"
    BY <1>0, <1>3, OtherPositions
  <2>2. Opening' = Opening
    BY <1>0, <2>1, OpeningUnchanged
  <2>3. CASE KeyOk(c)
    <3>1. c \in ReaderLinks /\ at[c] # "idle"
      BY <1>0, <2>3 DEF KeyOk, Roles, PasswordPositions
    <3>2. ~Opening
      BY <1>0, <2>1, <3>1, NotOpening
    <3> QED
      BY <2>2, <2>3, <3>2 DEF KeyOk, Opening
  <2>4. CASE Accept(c) \/ (UidKeyStep(c) /\ ~KeyOk(c)) \/ NewCardKeyStep(c)
    BY <2>2, <2>4 DEF Accept, UidKeyStep, TestOnce, Register, Registered, KeyCheck,
       KeyCheckFails, KeyBad, NewCardKeyStep, RotateCheck, RotateIgnored, Rotate,
       RotateFails, Opening
  <2>5. CASE PasswordStep(c)
    BY <2>2, <2>5 DEF PasswordStep, PasswordCheck, TotpAccepted, TotpRefused, LoggedIn,
                      FailLoad, FailStore, Opening
  <2>6. CASE OpenStep(c)
    BY <1>3, <2>2, <2>6 DEF OpenStep, OpenCheck, CardCheck, Granted, Limit, LimitReset,
                            Unauthorized, Opening
  <2> QED
    BY <2>3, <2>4, <2>5, <2>6 DEF Handle
<1> QED
  BY <1>1, <1>2, <1>3

LEMMA StepOfAccess ==
    ASSUME OneHandler, AccessInv, [ServerNext]_vars
    PROVE  [A!Next]_(A!access_vars)
<1>1. CASE Crash
  <2>1. \A c \in Links : at'[c] = "idle"
    BY <1>1 DEF Crash
  <2>2. A!Restart
    BY <1>1, <2>1 DEF Crash, A!Restart, ghost_vars
  <2> QED
    BY <2>2 DEF A!Next
<1>2. ASSUME NEW c \in Links, Handle(c)
      PROVE  [A!Next]_(A!access_vars)
  BY <1>2, HandleOfAccess DEF AccessStep, A!Next
<1>3. ASSUME NEW c \in Links, ClientStep(c)
      PROVE  [A!Next]_(A!access_vars)
  BY <1>3 DEF ClientStep, BrowserPost, BrowserReceive, LinkHangup, LinkForget,
              ReaderConnect, ReaderSend, ReaderReceive, server_vars, handler_vars,
              global_vars, ghost_vars, A!access_vars
<1>4. CASE UNCHANGED vars
  BY <1>4 DEF vars, server_vars, handler_vars, global_vars, ghost_vars, A!access_vars
<1> QED
  BY <1>1, <1>2, <1>3, <1>4 DEF ServerNext

(* Where the readers' handlers run one at a time every 200 OK to a heartbeat *)
(* has an accepted card and an accepted login of its own, although the two   *)
(* are taken one after the other: no two openings share either.              *)
THEOREM ServerImplementsAccess == SerialSpec => AccessSpec
<1>1. ServerInit => A!Init
  BY DEF ServerInit, A!Init
<1>2. OneHandler /\ AccessInv /\ [ServerNext /\ OneHandler']_vars =>
          [A!Next]_(A!access_vars)
  BY StepOfAccess
<1> QED
  BY AccessInvariant, HandlersInTurn, <1>1, <1>2, PTL DEF SerialSpec, AccessSpec, A!Spec
-----------------------------------------------------------------------------
(* test_once: the stages of the first registration.                          *)

LEMMA RegistrationUntouched ==
    ASSUME TypeOK, RegistrationInv, NEW c \in Links, NEW q \in Positions,
           at' = [at EXCEPT ![c] = q], at[c] # "registered", q # "registered",
           q = "register" => test_once,
           Len(cards') = Len(cards), cards' \in Seq(Row), test_once' = test_once
    PROVE  RegistrationInv'
<1>1. cards = << >> => cards' = << >>
  BY EmptySeq, LenProperties DEF TypeOK
<1>2. \A d \in Links : at'[d] = IF d = c THEN q ELSE at[d]
  BY DEF TypeOK
<1> QED
  BY <1>1, <1>2, WireAssumption DEF RegistrationInv

LEMMA RegistrationHandle ==
    ASSUME OneHandler, TypeOK, Roles, RegistrationInv, NEW c \in Links, Handle(c), TypeOK'
    PROVE  RegistrationInv'
<1> USE DEF global_vars, Positions, UidKeyPositions, NewCardKeyPositions,
            PasswordPositions, OpenPositions
<1>1. CASE Register(c)
  <2>1. at[c] = "register" /\ at' = [at EXCEPT ![c] = "registered"] /\ c \in ReaderLinks
    BY <1>1 DEF Register, Within, Goto, Roles
  <2>2. \A d \in Links \ {c} : at[d] \notin Critical
    BY <2>1, OthersUncritical
  <2>3. cards = << >> /\ test_once
    BY <2>1, <2>2, WireAssumption DEF RegistrationInv, Critical
  <2>4. req[c].UID \in Uids /\ req[c].OtAK \in Keys
    BY <2>1, RequestTypes DEF Roles
  <2>5. /\ cards' = database_register(cards, req[c].UID, Sha256(TestingPassword),
                                       req[c].OtAK)
        /\ test_once'
    BY <1>1, <2>3 DEF Register
  <2>6. Len(cards) = 0 /\ cards \in Seq(Row)
    BY <2>3 DEF TypeOK
  <2> DEFINE after == database_register(cards, req[c].UID, Sha256(TestingPassword),
                                        req[c].OtAK)
  <2>7. Len(cards') = 1
    <3>1. Len(after) = Len(cards) + 1
      BY <2>4, <2>6, RegisterKeepsTable, TestingPasswordAssumption
    <3> HIDE DEF after
    <3> QED
      BY <2>5, <2>6, <3>1 DEF after
  <2>8. at'[c] = "registered"
    BY <2>1 DEF TypeOK
  <2> QED
    BY <2>1, <2>5, <2>7, <2>8 DEF RegistrationInv
<1>2. CASE Registered(c)
  <2>1. at[c] = "registered" /\ at' = [at EXCEPT ![c] = "key_check"] /\ c \in ReaderLinks
    BY <1>2 DEF Registered, Within, Goto, Roles
  <2>2. \A d \in Links \ {c} : at[d] \notin Critical
    BY <2>1, OthersUncritical
  <2>3. Len(cards') = 1 /\ ~test_once'
    BY <1>2, <2>1 DEF RegistrationInv, Registered
  <2>4. \A d \in Links : at'[d] \notin {"register", "registered"}
    BY <2>1, <2>2 DEF TypeOK, Critical
  <2> QED
    BY <2>3, <2>4 DEF RegistrationInv
<1>3. CASE Rotate(c)
  <2>1. at[c] = "rotate" /\ at' = [at EXCEPT ![c] = "idle"]
    BY <1>3 DEF Rotate, Finish, Goto
  <2>2. req[c].UID \in Uids /\ req[c].New_OtAK \in Keys
    BY <2>1, RequestTypes DEF Roles
  <2>3. Len(cards') = Len(cards) /\ cards' \in Seq(Row)
    BY <1>3, <2>2, UpdateKeepsTable DEF TypeOK, Rotate
  <2>4. test_once' = test_once /\ "idle" \in Positions
    BY <1>3 DEF Rotate
  <2> HIDE DEF Positions
  <2> QED
    BY <2>1, <2>3, <2>4, RegistrationUntouched
<1>4. CASE ~(Register(c) \/ Registered(c) \/ Rotate(c))
  <2>1. UNCHANGED <<cards, test_once>>
    BY <1>4 DEF Handle, Accept, UidKeyStep, TestOnce, KeyCheck, KeyCheckFails, KeyOk, KeyBad,
       NewCardKeyStep, RotateCheck, RotateIgnored, RotateFails, PasswordStep,
       PasswordCheck, TotpAccepted, TotpRefused, LoggedIn, FailLoad, FailStore, OpenStep,
       OpenCheck, CardCheck, Grant, GrantCard, Granted, Limit, LimitReset, Unauthorized
  <2>2. PICK q : at' = [at EXCEPT ![c] = q]
    BY <1>4 DEF Handle, Accept, UidKeyStep, TestOnce, KeyCheck, KeyCheckFails, KeyOk,
       KeyBad, NewCardKeyStep, RotateCheck, RotateIgnored, RotateFails, PasswordStep,
       PasswordCheck, TotpAccepted, TotpRefused, LoggedIn, FailLoad, FailStore, OpenStep,
       OpenCheck, CardCheck, Grant, GrantCard, Granted, Limit, LimitReset, Unauthorized,
       Within, Finish, Goto
  <2>3. at'[c] = q
    BY <2>2 DEF TypeOK
  <2>4. /\ at[c] # "registered"
        /\ at'[c] # "registered"
        /\ at'[c] = "register" => test_once
    <3>1. CASE Accept(c)
      <4>1. Head(up[c]) \in Requests
        BY <3>1, HeadTailProperties DEF Accept, TypeOK, WireTypeOK
      <4>2. Head(up[c]).type \in {"UID_KEY", "New_Card_Key", "OPEN", "Password"}
        BY <4>1, RequestTypes
      <4>3. FirstPosition(Head(up[c]).type) \in {"uid_key", "new_card_key", "password", "open"}
        BY <4>2 DEF FirstPosition
      <4> QED
        BY <3>1, <4>3 DEF Accept, Goto, TypeOK
    <3>2. CASE UidKeyStep(c)
      BY <1>4, <3>2 DEF UidKeyStep, TestOnce, KeyCheck, KeyCheckFails, KeyOk, KeyBad,
         Within, Finish, Goto, TypeOK
    <3>3. CASE NewCardKeyStep(c)
      BY <1>4, <3>3 DEF NewCardKeyStep, RotateCheck, RotateIgnored, RotateFails, Within,
                        Finish, Goto, TypeOK
    <3>4. CASE PasswordStep(c)
      BY <3>4 DEF PasswordStep, PasswordCheck, TotpAccepted, TotpRefused, LoggedIn, FailLoad,
                  FailStore, Within, Finish, Goto, TypeOK
    <3>5. CASE OpenStep(c)
      BY <3>5 DEF OpenStep, OpenCheck, CardCheck, Grant, GrantCard, Granted, Limit,
         LimitReset, Unauthorized, Within, Finish, Goto, TypeOK
    <3> QED
      BY <3>1, <3>2, <3>3, <3>4, <3>5 DEF Handle
  <2>5. q \in Positions
    BY <2>3 DEF TypeOK
  <2> QED
    BY <2>1, <2>2, <2>3, <2>4, <2>5, RegistrationUntouched DEF TypeOK
<1> QED
  BY <1>1, <1>2, <1>3, <1>4

LEMMA RegistrationElsewhere ==
    ASSUME RegistrationInv, UNCHANGED server_vars
    PROVE  RegistrationInv'
  BY DEF RegistrationInv, server_vars, global_vars, handler_vars

LEMMA RegistrationInvariant ==
    ASSUME "server_crash" \notin Faults
    PROVE  SerialSpec => []RegistrationInv
<1>1. ServerInit => RegistrationInv
  BY DEF ServerInit, RegistrationInv
<1>2. ASSUME OneHandler, TypeOK, Roles, RegistrationInv, [ServerNext]_vars
      PROVE  RegistrationInv'
  <2>1. ASSUME NEW c \in Links, Handle(c)
        PROVE  RegistrationInv'
    BY <1>2, <2>1, HandleTypes, RegistrationHandle
  <2>2. ASSUME NEW c \in Links, ClientStep(c)
        PROVE  RegistrationInv'
    BY <1>2, <2>2, RegistrationElsewhere DEF ClientStep, BrowserPost, BrowserReceive,
       LinkHangup, LinkForget, ReaderConnect, ReaderSend, ReaderReceive
  <2>3. CASE UNCHANGED vars
    BY <1>2, <2>3, RegistrationElsewhere DEF vars
  <2> QED
    BY <1>2, <2>1, <2>2, <2>3 DEF ServerNext, Crash
<1> QED
  BY TypeCorrect, SerialIsServer, HandlersInTurn, <1>1, <1>2, PTL DEF ServerSpec

LEMMA RegistrationRows == RegistrationInv => OneRow
  BY DEF RegistrationInv, OneRow

(* While a server whose readers' handlers do not overlap runs, test_once     *)
(* registers one card and no more.                                           *)
THEOREM OneRegistration ==
    ASSUME "server_crash" \notin Faults
    PROVE  SerialSpec => []OneRow
<1> QED
  BY RegistrationInvariant, RegistrationRows, PTL
=============================================================================
