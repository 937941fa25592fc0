---------------------------- MODULE SystemProofs ----------------------------
(* Theorems about System.tla, for any numbers of readers and browsers, any   *)
(* cards and keys, and every set of faults.                                  *)
EXTENDS System, ServerProofs

OneDoor == \E r \in Readers : Readers = {r}

-----------------------------------------------------------------------------
(* The strengthening.                                                        *)

(* What a session has read from its card.                                    *)
SessionData(r) ==
    /\ rpc[r] \in Connected \cup {"connect"} => ruid[r] \in Uids /\ rkey[r] \in Keys
    /\ rpc[r] = "read" => ruid[r] \in Uids

(* A heartbeat may be sent while the answer to New_Card_Key is outstanding.  *)
Outstanding(position) ==
    CASE position = "beat_wait"                             -> 2
      [] position \in {"uid_wait", "key_wait", "beat_send"} -> 1
      [] OTHER                                              -> 0

WithinPipeline(r) == link[r] # None => Unanswered(link[r]) <= Outstanding(rpc[r])

(* All that is under way on a connection has to do with such requests.       *)
OnlyOf(c, type) ==
    /\ \A i \in DOMAIN up[c] : up[c][i].type = type
    /\ at[c] # "idle" => req[c].type = type
    /\ \A i \in DOMAIN down[c] : down[c][i].to = type

(* Before a read gives up too early, one request at a time is under way.     *)
OneAtATime(r) ==
    link[r] # None /\ open[link[r]] /\ ~late[r] =>
        IF rpc[r] \in Waiting
        THEN Unanswered(link[r]) <= 1 /\ OnlyOf(link[r], Awaited(rpc[r]))
        ELSE Unanswered(link[r]) = 0

LinksExclusive == \A r, q \in Readers : link[r] # None /\ link[r] = link[q] => r = q

ClosedIsEmpty == \A c \in Links : ~open[c] => down[c] = << >>

ReaderInv ==
    /\ ReaderTypeOK
    /\ missed \subseteq Uids
    /\ late \in [Readers -> BOOLEAN]
    /\ \A r \in Readers : SessionData(r) /\ WithinPipeline(r) /\ OneAtATime(r)
    /\ LinksExclusive
    /\ ClosedIsEmpty

LEMMA ReaderInvInit == SystemInit => ReaderInv
<1> SUFFICES ASSUME SystemInit
             PROVE  ReaderInv
  OBVIOUS
<1>1. /\ \A r \in Readers : link[r] = None /\ rpc[r] = "poll"
      /\ \A c \in Links : down[c] = << >>
  BY DEF SystemInit, ServerInit, WireInit, ReaderInit
<1>2. ReaderTypeOK
  BY DEF SystemInit, ReaderInit, ReaderTypeOK, Steps, Connected, Beating
<1> QED
  BY <1>1, <1>2 DEF SystemInit, ReaderInv, SessionData, WithinPipeline, OneAtATime,
                    LinksExclusive, ClosedIsEmpty, Connected, Beating

-----------------------------------------------------------------------------
(* What is under way on a connection.                                        *)

LEMMA UnansweredIsNat ==
    ASSUME TypeOK, NEW c \in Links
    PROVE  /\ Len(up[c]) \in Nat /\ Len(down[c]) \in Nat
           /\ Unanswered(c) \in Nat
           /\ Unanswered(c) = 0 => up[c] = << >> /\ down[c] = << >> /\ at[c] = "idle"
<1>1. up[c] \in Seq(Requests) /\ down[c] \in Seq(Replies)
  BY DEF TypeOK, WireTypeOK
<1>2. /\ Len(up[c]) \in Nat /\ Len(down[c]) \in Nat
      /\ Len(up[c]) = 0 => up[c] = << >>
      /\ Len(down[c]) = 0 => down[c] = << >>
  BY <1>1, EmptySeq, LenProperties
<1> DEFINE m == Len(up[c])
           n == Len(down[c])
           k == IF at[c] = "idle" THEN 0 ELSE 1
<1>3. Unanswered(c) = m + n + k
  BY DEF Unanswered
<1>4. /\ k \in Nat /\ m \in Nat /\ n \in Nat
      /\ k = 0 => at[c] = "idle"
      /\ m = 0 => up[c] = << >>
      /\ n = 0 => down[c] = << >>
  BY <1>2
<1> HIDE DEF k, m, n
<1>5. /\ m + n + k \in Nat
      /\ m + n + k = 0 => m = 0 /\ n = 0 /\ k = 0
  BY <1>4
<1>6. Unanswered(c) \in Nat /\ (Unanswered(c) = 0 => m = 0 /\ n = 0 /\ k = 0)
  BY <1>3, <1>5
<1> QED
  BY <1>2, <1>4, <1>6, Zenon

LEMMA UnansweredIsNatAfter ==
    ASSUME TypeOK', NEW c \in Links
    PROVE  Unanswered(c)' \in Nat
<1>1. up'[c] \in Seq(Requests) /\ down'[c] \in Seq(Replies)
  BY DEF TypeOK, WireTypeOK
<1> DEFINE m == Len(up'[c])
           n == Len(down'[c])
           k == IF at'[c] = "idle" THEN 0 ELSE 1
<1>2. m \in Nat /\ n \in Nat /\ k \in Nat
  BY <1>1, LenProperties
<1>3. Unanswered(c)' = m + n + k
  BY DEF Unanswered
<1> HIDE DEF k, m, n
<1> QED
  BY <1>2, <1>3

(* The sum changes with its parts.                                           *)
Change(c) == (Len(up'[c]) - Len(up[c])) + (Len(down'[c]) - Len(down[c]))

LEMMA UnansweredChanges ==
    ASSUME TypeOK, NEW c \in Links, Len(up'[c]) \in Nat, Len(down'[c]) \in Nat
    PROVE  /\ at'[c] = at[c] => Unanswered(c)' = Unanswered(c) + Change(c)
           /\ at[c] = "idle" /\ at'[c] # "idle" => Unanswered(c)' = Unanswered(c) + Change(c) + 1
           /\ at[c] # "idle" /\ at'[c] = "idle" => Unanswered(c)' = Unanswered(c) + Change(c) - 1
<1> DEFINE m == Len(up[c])
           n == Len(down[c])
           m1 == Len(up'[c])
           n1 == Len(down'[c])
           k == IF at[c] = "idle" THEN 0 ELSE 1
           k1 == IF at'[c] = "idle" THEN 0 ELSE 1
<1>1. m \in Nat /\ n \in Nat /\ m1 \in Nat /\ n1 \in Nat
  BY UnansweredIsNat
<1>2. Unanswered(c) = m + n + k /\ Unanswered(c)' = m1 + n1 + k1
  BY DEF Unanswered
<1> HIDE DEF m, n, m1, n1
<1>3. /\ at'[c] = at[c] => Unanswered(c)' = Unanswered(c) + ((m1 - m) + (n1 - n))
      /\ at[c] = "idle" /\ at'[c] # "idle"
            => Unanswered(c)' = Unanswered(c) + ((m1 - m) + (n1 - n)) + 1
      /\ at[c] # "idle" /\ at'[c] = "idle"
            => Unanswered(c)' = Unanswered(c) + ((m1 - m) + (n1 - n)) - 1
  BY <1>1, <1>2
<1> QED
  BY <1>3 DEF Change, m, n, m1, n1

(* What a handler does to its connection.                                    *)
Takes(c) ==
    /\ at[c] = "idle" /\ at'[c] # "idle"
    /\ up[c] # << >> /\ up'[c] = Tail(up[c])
    /\ req'[c] = Head(up[c])
    /\ down'[c] = down[c]

Computes(c) ==
    /\ at[c] # "idle" /\ at'[c] # "idle"
    /\ up'[c] = up[c] /\ req'[c] = req[c] /\ down'[c] = down[c]

Answers(c) ==
    /\ at[c] # "idle" /\ at'[c] = "idle"
    /\ up'[c] = up[c]
    /\ \E reply : /\ reply.to = req[c].type
                  /\ down'[c] = IF open[c] THEN Append(down[c], reply) ELSE down[c]

LEMMA WithinComputes ==
    ASSUME TypeOK, NEW c \in Links, NEW from, NEW to, Within(c, from, to),
           from # "idle", to # "idle"
    PROVE  Computes(c)
BY DEF Within, Goto, wire_vars, Computes, TypeOK

LEMMA FinishAnswers ==
    ASSUME TypeOK, NEW c \in Links, NEW status, NEW body, Finish(c, status, body),
           at[c] # "idle"
    PROVE  Answers(c)
<1> DEFINE reply == [status |-> status, body |-> body, to |-> req[c].type]
<1>1. at'[c] = "idle" /\ up'[c] = up[c]
  BY DEF Finish, Goto, TypeOK
<1>2. down'[c] = IF open[c] THEN Append(down[c], reply) ELSE down[c]
  BY DEF Finish, Respond, TypeOK, WireTypeOK
<1>3. reply.to = req[c].type
  OBVIOUS
<1> QED
  BY <1>1, <1>2, <1>3 DEF Answers

LEMMA HandlerServes ==
    ASSUME TypeOK, NEW c \in Links, Handle(c)
    PROVE  Takes(c) \/ Computes(c) \/ Answers(c)
<1>1. CASE Accept(c)
  <2>1. up[c] \in Seq(Requests) /\ up[c] # << >>
    BY <1>1 DEF Accept, TypeOK, WireTypeOK
  <2>2. Head(up[c]) \in Requests
    BY <2>1, HeadTailProperties
  <2>3. FirstPosition(Head(up[c]).type) # "idle"
    BY <2>2, RequestTypes DEF FirstPosition
  <2> QED
    BY <1>1, <2>1, <2>3 DEF Accept, Goto, Takes, TypeOK, WireTypeOK
<1>2. CASE UidKeyStep(c)
  <2>1. CASE TestOnce(c)
    BY <2>1, WithinComputes DEF TestOnce
  <2>2. CASE Register(c)
    BY <2>2, WithinComputes DEF Register
  <2>3. CASE Registered(c)
    BY <2>3, WithinComputes DEF Registered
  <2>4. CASE KeyCheck(c) \/ KeyCheckFails(c)
    BY <2>4, WithinComputes DEF KeyCheck, KeyCheckFails
  <2>5. CASE KeyOk(c) \/ KeyBad(c)
    BY <2>5, FinishAnswers DEF KeyOk, KeyBad
  <2> QED
    BY <1>2, <2>1, <2>2, <2>3, <2>4, <2>5 DEF UidKeyStep
<1>3. CASE NewCardKeyStep(c)
  <2>1. CASE RotateCheck(c)
    BY <2>1, WithinComputes DEF RotateCheck
  <2>2. CASE RotateIgnored(c) \/ Rotate(c) \/ RotateFails(c)
    BY <2>2, FinishAnswers DEF RotateIgnored, Rotate, RotateFails
  <2> QED
    BY <1>3, <2>1, <2>2 DEF NewCardKeyStep
<1>4. CASE PasswordStep(c)
  <2>1. CASE PasswordCheck(c)
    BY <2>1, WithinComputes DEF PasswordCheck
  <2>2. CASE TotpAccepted(c)
    BY <2>2, WithinComputes DEF TotpAccepted
  <2>3. CASE TotpRefused(c)
    BY <2>3, WithinComputes DEF TotpRefused
  <2>4. CASE FailLoad(c)
    BY <2>4, WithinComputes DEF FailLoad, Within, Goto, Computes, TypeOK, wire_vars
  <2>5. CASE LoggedIn(c) \/ FailStore(c)
    BY <2>5, FinishAnswers DEF LoggedIn, FailStore, Finish, Answers, Goto, Respond
  <2> QED
    BY <1>4, <2>1, <2>2, <2>3, <2>4, <2>5 DEF PasswordStep
<1>5. CASE OpenStep(c)
  <2>1. CASE OpenCheck(c) \/ CardCheck(c)
    BY <2>1, WithinComputes DEF OpenCheck, CardCheck
  <2>2. CASE Grant(c) \/ GrantCard(c)
    BY <2>2, WithinComputes DEF Grant, GrantCard
  <2>3. CASE Limit(c)
    BY <2>3, WithinComputes DEF Limit
  <2>4. CASE Granted(c) \/ LimitReset(c) \/ Unauthorized(c)
    BY <2>4, FinishAnswers DEF Granted, LimitReset, Unauthorized
  <2> QED
    BY <1>5, <2>1, <2>2, <2>3, <2>4 DEF OpenStep
<1> QED
  BY <1>1, <1>2, <1>3, <1>4, <1>5 DEF Handle

-----------------------------------------------------------------------------
(* The server and the network only ever reduce what is under way.            *)

LEMMA TailOf ==
    ASSUME NEW S, NEW s \in Seq(S), s # << >>
    PROVE  /\ Len(Tail(s)) = Len(s) - 1
           /\ \A i \in DOMAIN Tail(s) : i + 1 \in DOMAIN s /\ Tail(s)[i] = s[i + 1]
           /\ Head(s) = s[1] /\ 1 \in DOMAIN s
OBVIOUS

LEMMA AppendOf ==
    ASSUME NEW s, NEW S, s \in Seq(S), NEW e
    PROVE  /\ Len(Append(s, e)) = Len(s) + 1
           /\ \A i \in DOMAIN Append(s, e) :
                (i \in DOMAIN s /\ Append(s, e)[i] = s[i]) \/ Append(s, e)[i] = e
<1> DEFINE T == S \cup {e}
<1>1. s \in Seq(T) /\ e \in T
  OBVIOUS
<1> QED
  BY <1>1

(* What a connection may become without its reader.                          *)
Drains(c) ==
    /\ Unanswered(c)' <= Unanswered(c)
    /\ \A type : OnlyOf(c, type) => OnlyOf(c, type)'

LEMMA TakesDrains ==
    ASSUME TypeOK, NEW c \in Links, Takes(c)
    PROVE  Drains(c)
<1>1. up[c] \in Seq(Requests) /\ up[c] # << >> /\ Len(down[c]) \in Nat /\ Len(up[c]) \in Nat
  BY UnansweredIsNat DEF Takes, TypeOK, WireTypeOK
<1>2. /\ Len(up'[c]) = Len(up[c]) - 1
      /\ \A i \in DOMAIN up'[c] : i + 1 \in DOMAIN up[c] /\ up'[c][i] = up[c][i + 1]
      /\ req'[c] = up[c][1] /\ 1 \in DOMAIN up[c]
  BY <1>1, TailOf DEF Takes
<1>3. Unanswered(c)' <= Unanswered(c)
  <2>1. /\ Len(up'[c]) = Len(up[c]) - 1 /\ Len(down'[c]) = Len(down[c])
        /\ Len(up'[c]) \in Nat
    BY <1>1, <1>2, LenProperties DEF Takes
  <2>2. at[c] = "idle" /\ at'[c] # "idle"
    BY DEF Takes
  <2>3. Unanswered(c)' = Unanswered(c) + Change(c) + 1
    BY <1>1, <2>1, <2>2, UnansweredChanges
  <2>4. Change(c) = -1
    BY <1>1, <2>1 DEF Change
  <2> QED
    BY <2>3, <2>4, UnansweredIsNat
<1>4. ASSUME NEW type, OnlyOf(c, type)
      PROVE  OnlyOf(c, type)'
  BY <1>2, <1>4 DEF Takes, OnlyOf
<1> QED
  BY <1>3, <1>4 DEF Drains

LEMMA AnswersDrains ==
    ASSUME TypeOK, NEW c \in Links, Answers(c)
    PROVE  Drains(c)
<1>1. PICK reply : /\ reply.to = req[c].type
                   /\ down'[c] = IF open[c] THEN Append(down[c], reply) ELSE down[c]
  BY DEF Answers
<1>2. down[c] \in Seq(Replies) /\ Len(down[c]) \in Nat /\ Len(up[c]) \in Nat
  BY UnansweredIsNat DEF TypeOK, WireTypeOK
<1>3. /\ Len(down'[c]) \in {Len(down[c]), Len(down[c]) + 1}
      /\ \A i \in DOMAIN down'[c] :
            (i \in DOMAIN down[c] /\ down'[c][i] = down[c][i]) \/ down'[c][i] = reply
  BY <1>1, <1>2, AppendOf
<1>4. Unanswered(c)' <= Unanswered(c)
  <2>1. Len(down'[c]) \in Nat /\ Len(up'[c]) \in Nat
    BY <1>2, <1>3 DEF Answers
  <2>2. at[c] # "idle" /\ at'[c] = "idle" /\ Len(up'[c]) = Len(up[c])
    BY <1>2 DEF Answers
  <2>3. Unanswered(c)' = Unanswered(c) + Change(c) - 1
    BY <2>1, <2>2, UnansweredChanges
  <2>4. Change(c) \in {0, 1}
    BY <1>2, <1>3, <2>2 DEF Change
  <2> QED
    BY <2>3, <2>4, UnansweredIsNat
<1>5. ASSUME NEW type, OnlyOf(c, type)
      PROVE  OnlyOf(c, type)'
  BY <1>1, <1>3, <1>5 DEF Answers, OnlyOf
<1> QED
  BY <1>4, <1>5 DEF Drains

LEMMA SameDrains ==
    ASSUME TypeOK, NEW c \in Links, up'[c] = up[c], down'[c] = down[c],
           at'[c] = at[c], req'[c] = req[c]
    PROVE  Drains(c)
BY UnansweredIsNat DEF Drains, Unanswered, OnlyOf

LEMMA HandlerDrains ==
    ASSUME TypeOK, NEW c \in Links, Handle(c), NEW d \in Links
    PROVE  Drains(d)
<1>1. CASE d # c
  <2>1. /\ up'[d] = up[d] /\ down'[d] = down[d]
        /\ at'[d] = at[d] /\ req'[d] = req[d]
    BY <1>1 DEF Handle, Accept, UidKeyStep, TestOnce, Register, Registered, KeyCheck,
       KeyCheckFails, KeyOk, KeyBad, NewCardKeyStep, RotateCheck, RotateIgnored, Rotate,
       RotateFails, PasswordStep, PasswordCheck, TotpAccepted, TotpRefused, LoggedIn,
       FailLoad, FailStore, OpenStep, OpenCheck, CardCheck, Grant, GrantCard, Granted,
       Limit, LimitReset, Unauthorized, Within, Finish, Goto, Respond, wire_vars, TypeOK,
       WireTypeOK
  <2> QED
    BY <2>1, SameDrains
<1>2. CASE d = c
  <2>1. Computes(c) => Drains(c)
    BY UnansweredIsNat DEF Computes, Drains, Unanswered, OnlyOf
  <2> QED
    BY <1>2, <2>1, HandlerServes, TakesDrains, AnswersDrains
<1> QED
  BY <1>1, <1>2

(* The readers' invariant as far as it is about connections.                 *)
LEMMA DrainsKeep ==
    ASSUME TypeOK, TypeOK', ReaderInv, UNCHANGED <<reader_vars, ghosts>>, ClosedIsEmpty',
           \A c \in ReaderLinks : Drains(c) /\ (open'[c] => open[c])
    PROVE  ReaderInv'
<1> USE DEF reader_vars, ghosts
<1>1. ASSUME NEW r \in Readers
      PROVE  (SessionData(r) /\ WithinPipeline(r) /\ OneAtATime(r))'
  <2>1. SessionData(r)'
    BY DEF ReaderInv, SessionData
  <2>2. CASE link[r] = None
    BY <2>1, <2>2 DEF WithinPipeline, OneAtATime
  <2>3. CASE link[r] # None
    <3>1. link[r] \in ReaderLinks /\ link[r] \in Links
      BY <2>3, WireAssumption DEF ReaderInv, ReaderTypeOK
    <3>2. /\ Unanswered(link[r]) \in Nat /\ Unanswered(link[r])' \in Nat
          /\ Unanswered(link[r])' <= Unanswered(link[r])
          /\ \A type : OnlyOf(link[r], type) => OnlyOf(link[r], type)'
          /\ open'[link[r]] => open[link[r]]
      BY <3>1, UnansweredIsNat, UnansweredIsNatAfter DEF Drains
    <3>3. Outstanding(rpc[r]) \in Nat
      BY DEF Outstanding
    <3>4. WithinPipeline(r)'
      BY <3>2, <3>3 DEF ReaderInv, WithinPipeline
    <3>5. OneAtATime(r)'
      BY <3>2 DEF ReaderInv, OneAtATime
    <3> QED
      BY <2>1, <3>4, <3>5
  <2> QED
    BY <2>2, <2>3
<1>2. ReaderTypeOK' /\ missed' \subseteq Uids /\ late' \in [Readers -> BOOLEAN]
  BY DEF ReaderInv, ReaderTypeOK
<1> QED
  BY <1>1, <1>2 DEF ReaderInv, LinksExclusive

-----------------------------------------------------------------------------
(* Steps that are not a reader's.                                            *)

LEMMA ServerTypesStep ==
    ASSUME TypeOK, Roles, [ServerNext]_vars
    PROVE  TypeOK' /\ Roles'
BY HandleTypes, ClientTypes, CrashTypes, StutterTypes DEF ServerNext

LEMMA HandlerStepKeeps ==
    ASSUME TypeOK, Roles, ReaderInv, NEW c \in Links, HandlerStep(c)
    PROVE  ReaderInv' /\ ServerNext
<1>1. Handle(c) /\ UNCHANGED <<reader_vars, ghosts>>
  BY DEF HandlerStep
<1>2. ServerNext
  BY <1>1 DEF ServerNext
<1>3. TypeOK'
  BY <1>2, ServerTypesStep
<1>4. open' = open /\ \A d \in Links : ~open[d] => down'[d] = down[d]
  BY <1>1 DEF Handle, Accept, UidKeyStep, TestOnce, Register, Registered, KeyCheck,
     KeyCheckFails, KeyOk, KeyBad, NewCardKeyStep, RotateCheck, RotateIgnored, Rotate,
     RotateFails, PasswordStep, PasswordCheck, TotpAccepted, TotpRefused, LoggedIn,
     FailLoad, FailStore, OpenStep, OpenCheck, CardCheck, Grant, GrantCard, Granted, Limit,
     LimitReset, Unauthorized, Within, Finish, Goto, Respond, wire_vars, TypeOK, WireTypeOK
<1>5. ClosedIsEmpty'
  BY <1>4 DEF ReaderInv, ClosedIsEmpty
<1>6. \A d \in ReaderLinks : Drains(d) /\ (open'[d] => open[d])
  BY <1>1, <1>4, HandlerDrains, WireAssumption
<1> QED
  BY <1>1, <1>2, <1>3, <1>5, <1>6, DrainsKeep

LEMMA BrowserStepKeeps ==
    ASSUME TypeOK, Roles, ReaderInv, NEW c \in Links, BrowserStep(c)
    PROVE  ReaderInv' /\ ServerNext
<1>1. (BrowserPost(c) \/ BrowserReceive(c)) /\ UNCHANGED <<reader_vars, ghosts>>
  BY DEF BrowserStep
<1>2. ServerNext
  BY <1>1 DEF ServerNext, ClientStep
<1>3. TypeOK'
  BY <1>2, ServerTypesStep
<1>4. /\ c \notin ReaderLinks
      /\ UNCHANGED <<at, req>>
      /\ \A d \in Links \ {c} : /\ open'[d] = open[d]
                                /\ up'[d] = up[d]
                                /\ down'[d] = down[d]
      /\ ~open'[c] => ~open[c]
      /\ down'[c] = down[c] \/ down[c] # << >>
  BY <1>1 DEF BrowserPost, BrowserReceive, Receive, server_vars, handler_vars, TypeOK,
     WireTypeOK
<1>5. ClosedIsEmpty'
  BY <1>4 DEF ReaderInv, ClosedIsEmpty
<1>6. \A d \in ReaderLinks : Drains(d) /\ (open'[d] => open[d])
  BY <1>4, SameDrains, WireAssumption
<1> QED
  BY <1>1, <1>2, <1>3, <1>5, <1>6, DrainsKeep

(* A connection is emptied, in one direction or both.                        *)
LEMMA EmptiedDrains ==
    ASSUME TypeOK, NEW c \in Links, at'[c] = at[c], req'[c] = req[c],
           up'[c] \in {up[c], << >>}, down'[c] \in {down[c], << >>}
    PROVE  Drains(c)
<1>1. Len(up[c]) \in Nat /\ Len(down[c]) \in Nat /\ Unanswered(c) \in Nat
  BY UnansweredIsNat
<1>2. Len(up'[c]) \in {Len(up[c]), 0} /\ Len(down'[c]) \in {Len(down[c]), 0}
  BY EmptySeq
<1>3. Unanswered(c)' = Unanswered(c) + Change(c)
  <2>1. Len(up'[c]) \in Nat /\ Len(down'[c]) \in Nat
    BY <1>1, <1>2
  <2> QED
    BY <2>1, UnansweredChanges, Zenon
<1>4. Change(c) \in Int /\ Change(c) <= 0
  <2> DEFINE m == Len(up[c])
             n == Len(down[c])
             m1 == Len(up'[c])
             n1 == Len(down'[c])
  <2>1. m \in Nat /\ n \in Nat /\ m1 \in {m, 0} /\ n1 \in {n, 0}
    BY <1>1, <1>2
  <2>2. Change(c) = (m1 - m) + (n1 - n)
    BY DEF Change
  <2> HIDE DEF m, n, m1, n1
  <2> QED
    BY <2>1, <2>2
<1>5. Unanswered(c)' <= Unanswered(c)
  BY <1>1, <1>3, <1>4
<1>6. ASSUME NEW type, OnlyOf(c, type)
      PROVE  OnlyOf(c, type)'
  <2>1. (DOMAIN up'[c] = DOMAIN up[c] /\ up'[c] = up[c]) \/ DOMAIN up'[c] = {}
    BY EmptySeq
  <2>2. (DOMAIN down'[c] = DOMAIN down[c] /\ down'[c] = down[c]) \/ DOMAIN down'[c] = {}
    BY EmptySeq
  <2> QED
    BY <1>6, <2>1, <2>2 DEF OnlyOf
<1> QED
  BY <1>5, <1>6 DEF Drains

LEMMA NetworkKeeps ==
    ASSUME TypeOK, Roles, ReaderInv, NEW c \in Links, Drop(c) \/ LeftoverStep(c)
    PROVE  ReaderInv' /\ ServerNext
<1>1. (LinkHangup(c) \/ LinkForget(c)) /\ UNCHANGED <<reader_vars, ghosts>>
  BY DEF Drop, LeftoverStep
<1>2. ServerNext
  BY <1>1 DEF ServerNext, ClientStep
<1>3. TypeOK'
  BY <1>2, ServerTypesStep
<1>4. /\ UNCHANGED <<at, req>>
      /\ \A d \in Links \ {c} : /\ open'[d] = open[d]
                                /\ up'[d] = up[d]
                                /\ down'[d] = down[d]
      /\ open'[c] => open[c]
      /\ up'[c] \in {up[c], << >>}
      /\ \/ down'[c] = << >>
         \/ down'[c] = down[c] /\ ~open[c]
  BY <1>1 DEF LinkHangup, Hangup, LinkForget, Forget, server_vars, handler_vars, TypeOK,
     WireTypeOK
<1>5. ClosedIsEmpty'
  BY <1>4 DEF ReaderInv, ClosedIsEmpty
<1>6. Drains(c)
  BY <1>4, EmptiedDrains
<1>7. \A d \in ReaderLinks : Drains(d) /\ (open'[d] => open[d])
  BY <1>4, <1>6, SameDrains, WireAssumption
<1> QED
  BY <1>1, <1>2, <1>3, <1>5, <1>7, DrainsKeep

LEMMA RestartKeeps ==
    ASSUME TypeOK, Roles, ReaderInv, ServerRestarts
    PROVE  ReaderInv' /\ ServerNext
<1>1. Crash /\ UNCHANGED <<reader_vars, ghosts>>
  BY DEF ServerRestarts
<1>2. ServerNext
  BY <1>1 DEF ServerNext
<1>3. TypeOK'
  BY <1>2, ServerTypesStep
<1>4. \A c \in Links : /\ ~open'[c]
                       /\ up'[c] = << >> /\ down'[c] = << >>
                       /\ at'[c] = "idle"
  BY <1>1 DEF Crash
<1>5. ASSUME NEW c \in Links
      PROVE  Drains(c)
  <2>1. Len(up'[c]) = 0 /\ Len(down'[c]) = 0 /\ DOMAIN up'[c] = {} /\ DOMAIN down'[c] = {}
    BY <1>4, EmptySeq
  <2>2. Unanswered(c)' = 0
    BY <1>4, <2>1 DEF Unanswered
  <2> QED
    BY <1>4, <2>1, <2>2, UnansweredIsNat DEF Drains, OnlyOf
<1>6. ClosedIsEmpty'
  BY <1>4 DEF ClosedIsEmpty
<1> QED
  BY <1>1, <1>2, <1>3, <1>4, <1>5, <1>6, DrainsKeep, WireAssumption

-----------------------------------------------------------------------------
(* Steps of a reader.                                                        *)

Others(r) ==
    \A q \in Readers \ {r} :
        /\ rpc'[q] = rpc[q] /\ ruid'[q] = ruid[q] /\ rkey'[q] = rkey[q]
        /\ link'[q] = link[q] /\ late'[q] = late[q]

(* What a step of reader r leaves alone, and what it must show of itself.    *)
Own(r) ==
    /\ UNCHANGED server_vars
    /\ Others(r)
    /\ \A c \in Links \ {link[r], link'[r]} :
        open'[c] = open[c] /\ up'[c] = up[c] /\ down'[c] = down[c]
    /\ link'[r] # None => \A q \in Readers \ {r} : link[q] # link'[r]
    /\ missed' \subseteq Uids
    /\ late' \in [Readers -> BOOLEAN]

LEMMA OwnStep ==
    ASSUME TypeOK, ReaderInv, NEW r \in Readers, Own(r), ReaderTypeOK', ClosedIsEmpty',
           SessionData(r)', WithinPipeline(r)', OneAtATime(r)'
    PROVE  ReaderInv'
<1>1. \A q \in Readers \ {r} : /\ rpc'[q] = rpc[q] /\ ruid'[q] = ruid[q]
                              /\ rkey'[q] = rkey[q] /\ link'[q] = link[q]
                              /\ late'[q] = late[q]
  BY DEF Own, Others
<1>2. LinksExclusive'
  <2> SUFFICES ASSUME NEW p \in Readers, NEW q \in Readers,
                      link'[p] # None, link'[p] = link'[q]
               PROVE  p = q
    BY DEF LinksExclusive
  <2>1. CASE p # r /\ q # r
    BY <1>1, <2>1 DEF ReaderInv, LinksExclusive
  <2>2. CASE p = r \/ q = r
    BY <1>1, <2>2 DEF Own
  <2> QED
    BY <2>1, <2>2
<1>3. ASSUME NEW q \in Readers, q # r
      PROVE  (SessionData(q) /\ WithinPipeline(q) /\ OneAtATime(q))'
  <2>1. SessionData(q)'
    BY <1>1, <1>3 DEF ReaderInv, SessionData
  <2>2. CASE link[q] = None
    BY <1>1, <1>3, <2>1, <2>2 DEF WithinPipeline, OneAtATime
  <2>3. CASE link[q] # None
    <3>1. PICK c \in Links : c = link[q]
      BY <2>3, WireAssumption DEF ReaderInv, ReaderTypeOK
    <3>2. c # link[r] /\ c # link'[r]
      BY <1>3, <2>3, <3>1 DEF ReaderInv, LinksExclusive, Own
    <3>3. /\ open'[c] = open[c] /\ up'[c] = up[c] /\ down'[c] = down[c]
          /\ at' = at /\ req' = req
      BY <3>2 DEF Own, server_vars, handler_vars
    <3>4. /\ Unanswered(c)' = Unanswered(c)
          /\ \A type : OnlyOf(c, type) => OnlyOf(c, type)'
      BY <3>3 DEF Unanswered, OnlyOf
    <3>5. rpc'[q] = rpc[q] /\ link'[q] = c /\ late'[q] = late[q]
      BY <1>1, <1>3, <3>1
    <3>6. WithinPipeline(q) /\ OneAtATime(q)
      BY DEF ReaderInv
    <3>7. WithinPipeline(q)'
      BY <3>1, <3>4, <3>5, <3>6 DEF WithinPipeline
    <3>8. OneAtATime(q)'
      BY <3>1, <3>3, <3>4, <3>5, <3>6 DEF OneAtATime
    <3> QED
      BY <2>1, <3>7, <3>8
  <2> QED
    BY <2>2, <2>3
<1> QED
  BY <1>2, <1>3 DEF ReaderInv, Own

(* What ReaderStep does besides the step of the program.                     *)
Aside(r) ==
    /\ UNCHANGED server_vars
    /\ missed' \subseteq Uids
    /\ late' \in [Readers -> BOOLEAN]
    /\ \A q \in Readers \ {r} : late'[q] = late[q]

Ordinary(r) == Aside(r) /\ (late[r] /\ link[r] # None => late'[r])

GivesUp(r) == Aside(r) /\ (late[r] \/ AnswerMayCome(link[r]) => late'[r])

LEMMA ReaderStepAside ==
    ASSUME ReaderInv, NEW r \in Readers, ReaderStep(r)
    PROVE  \/ /\ Ordinary(r)
              /\ \/ TaskStep(r) \/ ConnectToServer(r) \/ SessionStep(r)
                 \/ UidAccepted(r, FreshKeys)
           \/ GivesUp(r) /\ MayTimeOut(r) /\ ReadReturnsNothing(r)
<1>1. late \in [Readers -> BOOLEAN] /\ missed \subseteq Uids
  BY DEF ReaderInv
<1>2. rpc[r] = "card_write" => ruid[r] \in Uids
  BY DEF ReaderInv, SessionData, Connected
<1>3. UNCHANGED server_vars /\ missed' \subseteq Uids
  BY <1>1, <1>2 DEF ReaderStep
<1>4. CASE /\ late' = [late EXCEPT ![r] = @ /\ link[r] # None]
           /\ \/ TaskStep(r) \/ ConnectToServer(r) \/ SessionStep(r)
              \/ UidAccepted(r, FreshKeys)
  <2>1. /\ late' \in [Readers -> BOOLEAN]
        /\ \A q \in Readers \ {r} : late'[q] = late[q]
        /\ late'[r] = (late[r] /\ link[r] # None)
    BY <1>1, <1>4, Zenon
  <2> QED
    BY <1>3, <1>4, <2>1, Zenon DEF Aside, Ordinary
<1>5. CASE /\ late' = [late EXCEPT ![r] = @ \/ AnswerMayCome(link[r])]
           /\ MayTimeOut(r) /\ ReadReturnsNothing(r)
  <2>1. late' = [late EXCEPT ![r] = late[r] \/ AnswerMayCome(link[r])]
    BY <1>5
  <2>2. /\ late' \in [Readers -> BOOLEAN]
        /\ \A q \in Readers \ {r} : late'[q] = late[q]
        /\ late'[r] = (late[r] \/ AnswerMayCome(link[r]))
    BY <1>1, <2>1, Zenon
  <2> QED
    BY <1>3, <1>5, <2>2, Zenon DEF Aside, GivesUp
<1> QED
  BY <1>4, <1>5, Zenon DEF ReaderStep

(* Without a connection.                                                     *)
LEMMA OfflineStep ==
    ASSUME TypeOK, ReaderInv, NEW r \in Readers, Aside(r),
           TaskStep(r) \/ ConnectFails(r)
    PROVE  ReaderInv' /\ UNCHANGED vars
<1>1. ReaderTypeOK
  BY DEF ReaderInv
<1>2. /\ UNCHANGED <<wire_vars, field, card, link>>
      /\ rpc[r] \notin Connected
      /\ rpc' = [rpc EXCEPT ![r] = rpc'[r]]
      /\ rpc'[r] \in Steps \ Connected
  BY <1>1 DEF TaskStep, Poll, PollFails, ReadBlock, ReadBlockFails, Blink, ConnectFails, Skip,
     Step, Connected, Beating, Steps, CardNeeded, ReaderTypeOK
<1>3. /\ ruid' \in [Readers -> Uids \cup {None}]
      /\ rkey' \in [Readers -> Keys \cup {None}]
      /\ \A q \in Readers \ {r} : ruid'[q] = ruid[q] /\ rkey'[q] = rkey[q]
      /\ rpc'[r] = "read" => ruid'[r] \in Uids
      /\ rpc'[r] = "connect" => ruid'[r] \in Uids /\ rkey'[r] \in Keys
  <2>1. CASE Poll(r)
    BY <1>1, <2>1 DEF Poll, Step, ReaderTypeOK
  <2>2. CASE PollFails(r) \/ ReadBlockFails(r) \/ ConnectFails(r)
    BY <1>1, <2>2 DEF PollFails, ReadBlockFails, ConnectFails, Skip, Step, ReaderTypeOK
  <2>3. CASE ReadBlock(r)
    <3>1. ruid[r] \in Uids
      BY <2>3 DEF ReadBlock, Step, ReaderInv, SessionData
    <3> QED
      BY <1>1, <2>3, <3>1 DEF ReadBlock, Step, ReaderTypeOK
  <2>4. CASE Blink(r)
    BY <1>1, <2>4 DEF Blink, ReaderTypeOK
  <2> QED
    BY <2>1, <2>2, <2>3, <2>4 DEF TaskStep
<1>4. ReaderTypeOK'
  BY <1>1, <1>2, <1>3 DEF ReaderTypeOK
<1>5. link[r] = None /\ link'[r] = None
  BY <1>1, <1>2 DEF ReaderTypeOK
<1>6. Own(r)
  BY <1>1, <1>2, <1>3, <1>5 DEF Own, Others, Aside, wire_vars, ReaderTypeOK
<1>7. SessionData(r)' /\ WithinPipeline(r)' /\ OneAtATime(r)'
  BY <1>2, <1>3, <1>5 DEF SessionData, WithinPipeline, OneAtATime
<1>8. ClosedIsEmpty'
  BY <1>2 DEF ReaderInv, ClosedIsEmpty, wire_vars
<1> QED
  BY <1>2, <1>4, <1>6, <1>7, <1>8, OwnStep DEF Aside, vars

(* With a connection that the step leaves as it is.                          *)
LEMMA SilentStep ==
    ASSUME TypeOK, ReaderInv, NEW r \in Readers,
           \/ /\ Ordinary(r)
              /\ \/ WriteLost(r, "uid_send", "uid_wait") \/ CardWrite(r)
                 \/ WriteLost(r, "key_send", "key_wait")
                 \/ WriteLost(r, "beat_send", "beat_wait")
           \/ GivesUp(r) /\ MayTimeOut(r) /\ KeyTimeout(r)
    PROVE  ReaderInv' /\ UNCHANGED vars
<1>1. ReaderTypeOK
  BY DEF ReaderInv
<1>2. /\ UNCHANGED <<wire_vars, field, ruid, rkey, link>>
      /\ rpc[r] \in Connected /\ rpc'[r] \in Connected
      /\ rpc' = [rpc EXCEPT ![r] = rpc'[r]]
      /\ Outstanding(rpc[r]) <= Outstanding(rpc'[r])
  BY <1>1 DEF WriteLost, CardWrite, KeyTimeout, Skip, Step, Connected, Beating, Outstanding,
     ReaderTypeOK
<1>3. PICK c \in ReaderLinks : c = link[r]
  BY <1>1, <1>2, ReaderAssumption DEF ReaderTypeOK
<1>4. ruid[r] \in Uids /\ rkey[r] \in Keys
  BY <1>2 DEF ReaderInv, SessionData
<1>5. card' \in [Uids -> Keys]
  BY <1>1, <1>4 DEF WriteLost, CardWrite, KeyTimeout, Skip, ReaderTypeOK
<1>6. ReaderTypeOK'
  BY <1>1, <1>2, <1>5 DEF ReaderTypeOK, Steps, Connected, CardNeeded, Beating
<1>7. Aside(r)
  BY DEF Ordinary, GivesUp
<1>8. \A q \in Readers \ {r} : link[q] # link[r]
  BY <1>3, ReaderAssumption DEF ReaderInv, LinksExclusive
<1>9. Own(r)
  BY <1>1, <1>2, <1>7, <1>8 DEF Own, Others, Aside, wire_vars, ReaderTypeOK
<1>10. Unanswered(c) \in Nat /\ Unanswered(c)' = Unanswered(c)
  BY <1>2, <1>3, <1>7, UnansweredIsNat, WireAssumption
  DEF Aside, server_vars, handler_vars, wire_vars, Unanswered
<1>11. SessionData(r)'
  BY <1>2, <1>4 DEF SessionData
<1>12. WithinPipeline(r)'
  <2>1. Unanswered(c) <= Outstanding(rpc[r])
    BY <1>3, ReaderAssumption DEF ReaderInv, WithinPipeline
  <2>2. Outstanding(rpc[r]) \in Nat /\ Outstanding(rpc'[r]) \in Nat
    BY DEF Outstanding
  <2>3. Unanswered(c)' <= Outstanding(rpc'[r])
    BY <1>2, <1>10, <2>1, <2>2
  <2> QED
    BY <1>2, <1>3, <2>3 DEF WithinPipeline
<1>13. OneAtATime(r)'
  <2> SUFFICES ASSUME open[c], ~late'[r]
               PROVE  OneAtATime(r)'
    BY <1>2, <1>3 DEF OneAtATime, wire_vars
  <2>1. OneAtATime(r)
    BY DEF ReaderInv
  <2>2. CASE Ordinary(r) /\ CardWrite(r)
    <3>1. rpc[r] \notin Waiting /\ rpc'[r] \notin Waiting
      BY <1>1, <2>2 DEF CardWrite, Step, Waiting, ReaderTypeOK
    <3>2. ~late[r]
      BY <1>3, <2>2, ReaderAssumption DEF Ordinary
    <3>3. Unanswered(c) = 0
      BY <1>3, <2>1, <3>1, <3>2, ReaderAssumption DEF OneAtATime
    <3> QED
      BY <1>2, <1>3, <1>10, <3>1, <3>3 DEF OneAtATime
  <2>3. CASE GivesUp(r) /\ KeyTimeout(r)
    <3>1. rpc'[r] \notin Waiting
      BY <1>1, <2>3 DEF KeyTimeout, Skip, Step, Waiting, ReaderTypeOK
    <3>2. NothingToAnswer(c)
      BY <1>3, <2>3 DEF GivesUp, AnswerMayCome
    <3>3. Unanswered(c) = 0
      BY <3>2, EmptySeq DEF NothingToAnswer, Unanswered
    <3> QED
      BY <1>2, <1>3, <1>10, <3>1, <3>3 DEF OneAtATime
  <2>4. CASE \E from, to \in Steps : WriteLost(r, from, to)
    BY <1>3, <2>4 DEF WriteLost
  <2> QED
    BY <2>2, <2>3, <2>4 DEF Steps, CardNeeded, Beating
<1>14. ClosedIsEmpty'
  BY <1>2 DEF ReaderInv, ClosedIsEmpty, wire_vars
<1> QED
  BY <1>2, <1>6, <1>7, <1>9, <1>11, <1>12, <1>13, <1>14, OwnStep DEF Aside, vars

(* The connection is let go of.                                              *)
LEMMA LeavingStep ==
    ASSUME TypeOK, ReaderInv, NEW r \in Readers, Aside(r),
           \/ KeySendFails(r)
           \/ rpc[r] \in Connected /\ (Close(r, "red") \/ Close(r, "green"))
    PROVE  ReaderInv' /\ [ServerNext]_vars
<1>1. ReaderTypeOK
  BY DEF ReaderInv
<1>2. /\ UNCHANGED <<up, field, card, ruid, rkey>>
      /\ rpc[r] \in Connected
      /\ rpc' = [rpc EXCEPT ![r] = rpc'[r]]
      /\ rpc'[r] \in {"red", "green"}
      /\ link' = [link EXCEPT ![r] = None]
  BY <1>1 DEF KeySendFails, Close, Step, Connected, ReaderTypeOK, wire_vars
<1>3. PICK c \in ReaderLinks : c = link[r]
  BY <1>1, <1>2, ReaderAssumption DEF ReaderTypeOK
<1>4. c \in Links /\ (~open[c] => down[c] = << >>)
  BY <1>3, WireAssumption DEF ReaderInv, ClosedIsEmpty
<1>5. \/ UNCHANGED <<open, down>>
      \/ open' = [open EXCEPT ![c] = FALSE] /\ down' = [down EXCEPT ![c] = << >>]
  BY <1>3 DEF KeySendFails, Close, wire_vars
<1>6. UNCHANGED <<open, down>> \/ Hangup(c)
  BY <1>4, <1>5 DEF Hangup, TypeOK, WireTypeOK
<1>7. UNCHANGED vars \/ LinkHangup(c)
  BY <1>2, <1>6 DEF vars, wire_vars, Aside, LinkHangup
<1>8. [ServerNext]_vars
  BY <1>4, <1>7 DEF ServerNext, ClientStep
<1>9. ReaderTypeOK'
  BY <1>1, <1>2 DEF ReaderTypeOK, Steps, Connected, CardNeeded, Beating
<1>10. Own(r)
  BY <1>1, <1>2, <1>3, <1>5 DEF Own, Others, Aside, ReaderTypeOK, TypeOK, WireTypeOK
<1>11. SessionData(r)' /\ WithinPipeline(r)' /\ OneAtATime(r)'
  BY <1>1, <1>2 DEF SessionData, WithinPipeline, OneAtATime, ReaderTypeOK, Connected, Beating
<1>12. ClosedIsEmpty'
  BY <1>4, <1>5 DEF ReaderInv, ClosedIsEmpty, TypeOK, WireTypeOK
<1> QED
  BY <1>8, <1>9, <1>10, <1>11, <1>12, OwnStep

LEMMA ConnectStep ==
    ASSUME TypeOK, ReaderInv, NEW r \in Readers, Aside(r), ConnectToServer(r)
    PROVE  ReaderInv' /\ ServerNext
<1>1. ReaderTypeOK
  BY DEF ReaderInv
<1>2. PICK c \in ReaderLinks : /\ Spare(c) /\ Connect(r, c)
                               /\ \A q \in Readers : link[q] # c
  BY DEF ConnectToServer
<1>3. c \in Links /\ c # None /\ down[c] = << >>
  BY <1>2, WireAssumption, ReaderAssumption DEF Spare, ReaderInv, ClosedIsEmpty
<1>4. /\ UNCHANGED <<up, down, field, card, ruid, rkey>>
      /\ open' = [open EXCEPT ![c] = TRUE]
      /\ link' = [link EXCEPT ![r] = c]
      /\ rpc[r] = "connect" /\ rpc' = [rpc EXCEPT ![r] = "uid_send"]
  BY <1>2 DEF Connect, Step
<1>5. ReaderConnect(c)
  BY <1>2, <1>4 DEF ReaderConnect, Aside
<1>6. ReaderTypeOK'
  BY <1>1, <1>3, <1>4 DEF ReaderTypeOK, Steps, Connected, CardNeeded, Beating
<1>7. Own(r)
  <2>1. Others(r)
    BY <1>1, <1>4 DEF Others, Aside, ReaderTypeOK
  <2>2. link'[r] = c
    BY <1>1, <1>4 DEF ReaderTypeOK
  <2>3. \A d \in Links \ {c} : open'[d] = open[d] /\ up'[d] = up[d] /\ down'[d] = down[d]
    BY <1>4 DEF TypeOK, WireTypeOK
  <2> QED
    BY <1>2, <2>1, <2>2, <2>3 DEF Own, Aside
<1>8. Unanswered(c)' = 0
  <2>1. up'[c] = << >> /\ down'[c] = << >> /\ at'[c] = "idle"
    BY <1>2, <1>3, <1>4 DEF Spare, Aside, server_vars, handler_vars
  <2>2. Len(up'[c]) = 0 /\ Len(down'[c]) = 0
    BY <2>1, EmptySeq
  <2> QED
    BY <2>1, <2>2 DEF Unanswered
<1>9. link'[r] = c /\ rpc'[r] = "uid_send" /\ ruid'[r] = ruid[r] /\ rkey'[r] = rkey[r]
  BY <1>1, <1>4 DEF ReaderTypeOK
<1>10. SessionData(r)'
  BY <1>4, <1>9 DEF ReaderInv, SessionData
<1>11. WithinPipeline(r)' /\ OneAtATime(r)'
  BY <1>8, <1>9 DEF WithinPipeline, OneAtATime, Outstanding, Waiting
<1>12. ClosedIsEmpty'
  BY <1>4 DEF ReaderInv, ClosedIsEmpty, TypeOK, WireTypeOK
<1> QED
  BY <1>3, <1>5, <1>6, <1>7, <1>10, <1>11, <1>12, OwnStep DEF ServerNext, ClientStep

(* A request is sent.                                                        *)
Sends(r) ==
    \/ Write(r, "uid_send", "uid_wait", UidKey(ruid[r], rkey[r]))
    \/ Write(r, "key_send", "key_wait", NewCardKey(ruid[r], rkey[r]))
    \/ Write(r, "beat_send", "beat_wait", Heartbeat)

LEMMA SendingStep ==
    ASSUME TypeOK, ReaderInv, Pipeline >= 2, NEW r \in Readers, Ordinary(r), Sends(r)
    PROVE  ReaderInv' /\ ServerNext
<1>1. ReaderTypeOK
  BY DEF ReaderInv
<1>2. PICK request :
        /\ Send(link[r], request)
        /\ request \in {UidKey(ruid[r], rkey[r]), NewCardKey(ruid[r], rkey[r]), Heartbeat}
        /\ request.type = Awaited(rpc'[r])
        /\ UNCHANGED <<open, down, field, card, ruid, rkey, link>>
        /\ rpc[r] \in Connected \ Waiting
        /\ rpc'[r] \in Waiting
        /\ rpc' = [rpc EXCEPT ![r] = rpc'[r]]
        /\ Outstanding(rpc[r]) <= 1
        /\ Outstanding(rpc[r]) \in Nat
        /\ Outstanding(rpc'[r]) = Outstanding(rpc[r]) + 1
  <2>1. CASE Write(r, "uid_send", "uid_wait", UidKey(ruid[r], rkey[r]))
    BY <1>1, <2>1 DEF Write, Step, UidKey, Awaited, Connected, Waiting, Outstanding, ReaderTypeOK
  <2>2. CASE Write(r, "key_send", "key_wait", NewCardKey(ruid[r], rkey[r]))
    BY <1>1, <2>2 DEF Write, Step, NewCardKey, Awaited, Connected, Waiting, Outstanding,
       ReaderTypeOK
  <2>3. CASE Write(r, "beat_send", "beat_wait", Heartbeat)
    BY <1>1, <2>3 DEF Write, Step, Heartbeat, Awaited, Connected, Beating, Waiting,
       Outstanding, ReaderTypeOK
  <2> QED
    BY <2>1, <2>2, <2>3 DEF Sends
<1>3. PICK c \in ReaderLinks : c = link[r]
  BY <1>1, <1>2, ReaderAssumption DEF ReaderTypeOK
<1>4. c \in Links /\ c # None
  BY <1>3, WireAssumption, ReaderAssumption
<1>5. request \in ReaderRequests
  <2>1. ruid[r] \in Uids /\ rkey[r] \in Keys
    BY <1>2 DEF ReaderInv, SessionData
  <2> QED
    BY <1>2, <2>1 DEF ReaderRequests, UidKeyRequests, NewCardKeyRequests, HeartbeatRequests,
       UidKey, NewCardKey, Heartbeat
<1>6. open[c] /\ up' = [up EXCEPT ![c] = Append(up[c], request)]
  BY <1>2, <1>3 DEF Send
<1>7. Unanswered(c) \in Nat /\ Unanswered(c) <= Outstanding(rpc[r])
  BY <1>3, <1>4, UnansweredIsNat DEF ReaderInv, WithinPipeline
<1>8. ReaderSend(c)
  <2>1. Unanswered(c) < Pipeline
    BY <1>2, <1>7, BoundAssumption
  <2> QED
    BY <1>2, <1>3, <1>5, <2>1 DEF ReaderSend, Ordinary, Aside
<1>9. Unanswered(c)' = Unanswered(c) + 1
  <2>1. up[c] \in Seq(Requests) /\ Len(up[c]) \in Nat /\ Len(down[c]) \in Nat
    BY <1>4, UnansweredIsNat DEF TypeOK, WireTypeOK
  <2>2. Len(up'[c]) = Len(up[c]) + 1
    BY <1>4, <1>6, <2>1, AppendOf DEF TypeOK, WireTypeOK
  <2>3. down'[c] = down[c] /\ at'[c] = at[c]
    BY <1>2 DEF Ordinary, Aside, server_vars, handler_vars
  <2>4. Len(up'[c]) \in Nat /\ Len(down'[c]) \in Nat
    BY <2>1, <2>2, <2>3
  <2>5. Unanswered(c)' = Unanswered(c) + Change(c)
    BY <1>4, <2>3, <2>4, UnansweredChanges, Zenon
  <2>6. Change(c) = 1
    BY <2>1, <2>2, <2>3 DEF Change
  <2> QED
    BY <2>5, <2>6
<1>10. ReaderTypeOK'
  BY <1>1, <1>2 DEF ReaderTypeOK, Steps, Connected, CardNeeded, Beating, Waiting
<1>11. Own(r)
  <2>1. Others(r)
    BY <1>1, <1>2 DEF Others, Ordinary, Aside, ReaderTypeOK
  <2>2. \A d \in Links \ {c} : open'[d] = open[d] /\ up'[d] = up[d] /\ down'[d] = down[d]
    BY <1>2, <1>6 DEF TypeOK, WireTypeOK
  <2>3. \A q \in Readers \ {r} : link[q] # link[r]
    BY <1>3, <1>4 DEF ReaderInv, LinksExclusive
  <2> QED
    BY <1>2, <1>3, <2>1, <2>2, <2>3 DEF Own, Ordinary, Aside
<1>12. SessionData(r)'
  BY <1>2 DEF ReaderInv, SessionData, Waiting, Connected, Beating
<1>13. WithinPipeline(r)'
  BY <1>2, <1>3, <1>7, <1>9 DEF WithinPipeline
<1>14. OneAtATime(r)'
  <2> SUFFICES ASSUME ~late'[r]
               PROVE  Unanswered(c)' <= 1 /\ OnlyOf(c, Awaited(rpc[r]))'
    BY <1>2, <1>3 DEF OneAtATime
  <2>1. Unanswered(c) = 0
    BY <1>2, <1>3, <1>4, <1>6 DEF ReaderInv, OneAtATime, Ordinary
  <2>2. up[c] = << >> /\ down[c] = << >> /\ at[c] = "idle"
    BY <1>4, <2>1, UnansweredIsNat
  <2>3. up'[c] = << request >> /\ down'[c] = << >> /\ at'[c] = "idle"
    BY <1>2, <1>4, <1>6, <2>2 DEF Ordinary, Aside, server_vars, handler_vars, TypeOK, WireTypeOK
  <2>4. OnlyOf(c, Awaited(rpc[r]))'
    BY <1>2, <2>3, EmptySeq DEF OnlyOf
  <2> QED
    BY <1>9, <2>1, <2>4
<1>15. ClosedIsEmpty'
  BY <1>2 DEF ReaderInv, ClosedIsEmpty
<1> QED
  BY <1>4, <1>8, <1>10, <1>11, <1>12, <1>13, <1>14, <1>15, OwnStep DEF ServerNext, ClientStep

(* A response is read.                                                       *)
LEMMA ReadingStep ==
    ASSUME TypeOK, Roles, ReaderInv, NEW r \in Readers, Ordinary(r),
           UidAccepted(r, FreshKeys) \/ UidReadPast(r) \/ KeyAnswered(r) \/ BeatAgain(r)
    PROVE  ReaderInv' /\ ServerNext
<1>1. ReaderTypeOK
  BY DEF ReaderInv
<1>2. /\ Receive(link[r])
      /\ UNCHANGED <<open, up, field, card, ruid, link>>
      /\ rpc[r] \in Waiting
      /\ rpc'[r] \in Connected
      /\ rpc' = [rpc EXCEPT ![r] = rpc'[r]]
      /\ Outstanding(rpc[r]) - 1 <= Outstanding(rpc'[r])
      /\ Outstanding(rpc[r]) \in Nat /\ Outstanding(rpc'[r]) \in Nat
      /\ rpc'[r] \in Waiting => rpc'[r] = rpc[r]
  <2>1. CASE UidAccepted(r, FreshKeys)
    BY <1>1, <2>1 DEF UidAccepted, Read, Connected, Waiting, Outstanding, ReaderTypeOK
  <2>2. CASE UidReadPast(r)
    BY <1>1, <2>2 DEF UidReadPast, Read, Connected, Waiting, Outstanding, ReaderTypeOK
  <2>3. CASE KeyAnswered(r) \/ BeatAgain(r)
    BY <1>1, <2>3 DEF KeyAnswered, BeatAgain, Read, Step, Connected, Beating, Waiting,
       Outstanding, ReaderTypeOK
  <2> QED
    BY <2>1, <2>2, <2>3
<1>3. /\ rkey' \in [Readers -> Keys \cup {None}]
      /\ rkey'[r] \in Keys
      /\ \A q \in Readers \ {r} : rkey'[q] = rkey[q]
  <2>1. rkey[r] \in Keys
    BY <1>2 DEF ReaderInv, SessionData, Waiting, Connected, Beating
  <2> QED
    BY <1>1, <2>1 DEF UidAccepted, UidReadPast, KeyAnswered, BeatAgain, FreshKeys, ReaderTypeOK
<1>4. PICK c \in ReaderLinks : c = link[r]
  BY <1>1, <1>2, ReaderAssumption DEF ReaderTypeOK, Waiting, Connected, Beating
<1>5. c \in Links /\ c # None
  BY <1>4, WireAssumption, ReaderAssumption
<1>6. down[c] # << >> /\ down' = [down EXCEPT ![c] = Tail(down[c])]
  BY <1>2, <1>4 DEF Receive
<1>7. UNCHANGED server_vars /\ Aside(r)
  BY DEF Ordinary, Aside
<1>8. ReaderReceive(c)
  BY <1>2, <1>4, <1>7 DEF ReaderReceive
<1>9. down[c] \in Seq(Replies) /\ Len(down[c]) \in Nat /\ Len(up[c]) \in Nat
  BY <1>5, UnansweredIsNat DEF TypeOK, WireTypeOK
<1>10. down'[c] = Tail(down[c]) /\ up'[c] = up[c] /\ at'[c] = at[c] /\ req'[c] = req[c]
  BY <1>2, <1>5, <1>6, <1>7 DEF TypeOK, WireTypeOK, server_vars, handler_vars
<1>11. /\ Len(down'[c]) = Len(down[c]) - 1
       /\ \A i \in DOMAIN down'[c] : i + 1 \in DOMAIN down[c] /\ down'[c][i] = down[c][i + 1]
  <2> DEFINE t == Tail(down[c])
  <2>1. /\ Len(t) = Len(down[c]) - 1
        /\ \A i \in DOMAIN t : i + 1 \in DOMAIN down[c] /\ t[i] = down[c][i + 1]
    BY <1>6, <1>9, TailOf, Zenon
  <2> QED
    BY <1>10, <2>1, Zenon
<1>12. Unanswered(c) \in Nat /\ Unanswered(c)' = Unanswered(c) - 1
  <2>1. Len(up'[c]) \in Nat /\ Len(down'[c]) \in Nat
    BY <1>6, <1>9, <1>10, LenProperties
  <2>2. Unanswered(c)' = Unanswered(c) + Change(c)
    BY <1>5, <1>10, <2>1, UnansweredChanges, Zenon
  <2>3. Change(c) = -1
    BY <1>9, <1>10, <1>11 DEF Change
  <2> QED
    BY <1>5, <2>2, <2>3, UnansweredIsNat
<1>13. ReaderTypeOK'
  BY <1>1, <1>2, <1>3 DEF ReaderTypeOK, Steps, Connected, CardNeeded, Beating, Waiting
<1>14. Own(r)
  <2>1. Others(r)
    BY <1>1, <1>2, <1>3, <1>7 DEF Others, Aside, ReaderTypeOK
  <2>2. \A d \in Links \ {link[r], link'[r]} :
            open'[d] = open[d] /\ up'[d] = up[d] /\ down'[d] = down[d]
    BY <1>2, <1>4, <1>6 DEF TypeOK, WireTypeOK
  <2>3. \A q \in Readers \ {r} : link[q] # link'[r]
    BY <1>2, <1>4, <1>5 DEF ReaderInv, LinksExclusive
  <2> QED
    BY <1>7, <2>1, <2>2, <2>3, Zenon DEF Own, Aside
<1>15. SessionData(r)'
  BY <1>2, <1>3 DEF ReaderInv, SessionData, Waiting, Connected, Beating
<1>16. WithinPipeline(r)'
  <2>1. Unanswered(c) <= Outstanding(rpc[r])
    BY <1>4, <1>5 DEF ReaderInv, WithinPipeline
  <2>2. Unanswered(c)' <= Outstanding(rpc'[r])
    BY <1>2, <1>12, <2>1
  <2> QED
    BY <1>2, <1>4, <2>2 DEF WithinPipeline
<1>17. OneAtATime(r)'
  <2> SUFFICES ASSUME open[c], ~late'[r]
               PROVE  OneAtATime(r)'
    BY <1>2, <1>4 DEF OneAtATime
  <2>1. Unanswered(c) <= 1 /\ OnlyOf(c, Awaited(rpc[r]))
    BY <1>2, <1>4, <1>5 DEF ReaderInv, OneAtATime, Ordinary
  <2>2. Unanswered(c)' \in Nat
    <3>1. TypeOK'
      BY <1>5, <1>8, ClientTypes DEF ServerNext, ClientStep
    <3> QED
      BY <1>5, <3>1, UnansweredIsNatAfter
  <2>3. Unanswered(c)' = 0
    BY <1>12, <2>1, <2>2
  <2>4. CASE rpc'[r] \notin Waiting
    BY <1>2, <1>4, <2>3, <2>4 DEF OneAtATime
  <2>5. CASE rpc'[r] = rpc[r]
    <3>1. OnlyOf(c, Awaited(rpc[r]))'
      BY <1>10, <1>11, <2>1, <2>5 DEF OnlyOf
    <3> QED
      BY <1>2, <1>4, <2>3, <2>5, <3>1 DEF OneAtATime
  <2> QED
    BY <1>2, <2>4, <2>5
<1>18. ClosedIsEmpty'
  BY <1>2, <1>6, <1>5 DEF ReaderInv, ClosedIsEmpty, TypeOK, WireTypeOK
<1> QED
  BY <1>5, <1>8, <1>13, <1>14, <1>15, <1>16, <1>17, <1>18, OwnStep DEF ServerNext, ClientStep

LEMMA ReaderStepKeeps ==
    ASSUME TypeOK, Roles, ReaderInv, Pipeline >= 2, NEW r \in Readers, ReaderStep(r)
    PROVE  ReaderInv' /\ [ServerNext]_vars
<1>1. CASE /\ Ordinary(r)
           /\ \/ TaskStep(r) \/ ConnectToServer(r) \/ SessionStep(r)
              \/ UidAccepted(r, FreshKeys)
  <2>1. CASE TaskStep(r) \/ ConnectFails(r)
    BY <1>1, <2>1, OfflineStep DEF Ordinary
  <2>2. CASE ConnectToServer(r)
    BY <1>1, <2>2, ConnectStep DEF Ordinary
  <2>3. CASE Sends(r)
    BY <1>1, <2>3, SendingStep
  <2>4. CASE \/ WriteLost(r, "uid_send", "uid_wait") \/ CardWrite(r)
             \/ WriteLost(r, "key_send", "key_wait")
             \/ WriteLost(r, "beat_send", "beat_wait")
    BY <1>1, <2>4, SilentStep
  <2>5. CASE UidAccepted(r, FreshKeys) \/ UidReadPast(r) \/ KeyAnswered(r) \/ BeatAgain(r)
    BY <1>1, <2>5, ReadingStep
  <2>6. CASE UidSendFails(r) \/ KeySendFails(r) \/ KeyRefused(r) \/ BeatPass(r) \/ BeatLimit(r)
    BY <1>1, <2>6, LeavingStep
    DEF Ordinary, UidSendFails, KeyRefused, BeatPass, BeatLimit, Connected, Beating
  <2> QED
    BY <1>1, <2>1, <2>2, <2>3, <2>4, <2>5, <2>6
    DEF SessionStep, UidSend, KeySend, BeatSend, Sends
<1>2. CASE GivesUp(r) /\ MayTimeOut(r) /\ ReadReturnsNothing(r)
  <2>1. CASE KeyTimeout(r)
    BY <1>2, <2>1, SilentStep
  <2>2. CASE UidTimeout(r) \/ BeatTimeout(r)
    BY <1>2, <2>2, LeavingStep DEF GivesUp, UidTimeout, BeatTimeout, Connected, Beating
  <2> QED
    BY <1>2, <2>1, <2>2 DEF ReadReturnsNothing
<1> QED
  BY <1>1, <1>2, ReaderStepAside

LEMMA DoorStepKeeps ==
    ASSUME TypeOK, ReaderInv, NEW r \in Readers, DoorStep(r)
    PROVE  ReaderInv' /\ UNCHANGED vars
<1>1. /\ UNCHANGED <<wire_vars, server_vars, card, rpc, ruid, rkey, link, ghosts>>
      /\ field' \in [Readers -> Uids \cup {None}]
  BY DEF DoorStep, PutCard, TakeCard, ReaderInv, ReaderTypeOK
<1> QED
  BY <1>1 DEF ReaderInv, ReaderTypeOK, SessionData, WithinPipeline, OneAtATime, OnlyOf,
     LinksExclusive, ClosedIsEmpty, Unanswered, wire_vars, server_vars, handler_vars, ghosts,
     vars

(* Every step of the system is one that the server's model allows.           *)
LEMMA SystemStepKeeps ==
    ASSUME TypeOK, Roles, ReaderInv, Pipeline >= 2, [SystemNext]_system_vars
    PROVE  ReaderInv' /\ [ServerNext]_vars
<1>1. CASE SystemNext
  <2>1. CASE ServerRestarts
    BY <2>1, RestartKeeps
  <2>2. ASSUME NEW c \in Links, HandlerStep(c) \/ BrowserStep(c) \/ Drop(c) \/ LeftoverStep(c)
        PROVE  ReaderInv' /\ [ServerNext]_vars
    BY <2>2, HandlerStepKeeps, BrowserStepKeeps, NetworkKeeps
  <2>3. ASSUME NEW r \in Readers, ReaderStep(r) \/ DoorStep(r)
        PROVE  ReaderInv' /\ [ServerNext]_vars
    BY <2>3, ReaderStepKeeps, DoorStepKeeps
  <2> QED
    BY <1>1, <2>1, <2>2, <2>3 DEF SystemNext
<1>2. CASE UNCHANGED system_vars
  BY <1>2 DEF system_vars, reader_vars, ghosts, ReaderInv, ReaderTypeOK, SessionData,
     WithinPipeline, OneAtATime, OnlyOf, LinksExclusive, ClosedIsEmpty, Unanswered, vars,
     wire_vars, server_vars, handler_vars
<1> QED
  BY <1>1, <1>2

-----------------------------------------------------------------------------
(* The theorems.                                                             *)

(* tls_connection.c has two requests unanswered at the most, and only when a *)
(* heartbeat follows a New_Card_Key it has given up on: each step of readers *)
(* that run it is a step, or no step, of the readers Server.tla makes up,    *)
(* which send what they like.  All that is proved of ServerSpec is therefore *)
(* true of the system.                                                       *)
THEOREM SystemImplementsServer ==
    ASSUME Pipeline >= 2
    PROVE  SystemSpec => ServerSpec
<1> DEFINE Inv == TypeOK /\ Roles /\ ReaderInv
<1>1. SystemInit => ServerInit /\ Inv
  BY InitTypes, ReaderInvInit DEF SystemInit
<1>2. Inv /\ [SystemNext]_system_vars => Inv' /\ [ServerNext]_vars
  BY SystemStepKeeps, ServerTypesStep
<1> QED
  BY <1>1, <1>2, PTL DEF SystemSpec, ServerSpec

LEMMA SystemInvariant ==
    ASSUME Pipeline >= 2
    PROVE  SystemSpec => [](TypeOK /\ ReaderInv)
<1> DEFINE Inv == TypeOK /\ Roles /\ ReaderInv
<1>1. SystemInit => Inv
  BY InitTypes, ReaderInvInit DEF SystemInit
<1>2. Inv /\ [SystemNext]_system_vars => Inv'
  BY SystemStepKeeps, ServerTypesStep
<1> QED
  BY <1>1, <1>2, PTL DEF SystemSpec

(* Readers, server and wires are well typed in every reachable state.        *)
THEOREM SystemWellTyped ==
    ASSUME Pipeline >= 2
    PROVE  SystemSpec => []SystemTypeOK
<1>1. TypeOK /\ ReaderInv => SystemTypeOK
  BY DEF ReaderInv, SystemTypeOK
<1> QED
  BY SystemInvariant, <1>1, PTL

(* Any number of readers, every fault: until a read gives up on an answer    *)
(* that is still to come, the response that a reader takes for the answer to *)
(* its request is that answer (tls_connection.c:129-138, 191-206, 219-239).  *)
THEOREM AnswersInStep ==
    ASSUME Pipeline >= 2
    PROVE  SystemSpec => []RepliesInStep
<1>1. ASSUME TypeOK, ReaderInv
      PROVE  RepliesInStep
  <2> SUFFICES ASSUME NEW r \in Readers, rpc[r] \in Waiting, down[link[r]] # << >>, ~late[r]
               PROVE  NextReply(r).to = Awaited(rpc[r])
    BY DEF RepliesInStep
  <2>1. link[r] \in ReaderLinks /\ link[r] \in Links /\ link[r] # None
    BY <1>1, WireAssumption, ReaderAssumption
    DEF ReaderInv, ReaderTypeOK, Waiting, Connected, Beating
  <2>2. open[link[r]]
    BY <1>1, <2>1 DEF ReaderInv, ClosedIsEmpty
  <2>3. \A i \in DOMAIN down[link[r]] : down[link[r]][i].to = Awaited(rpc[r])
    BY <1>1, <2>1, <2>2 DEF ReaderInv, OneAtATime, OnlyOf
  <2>4. down[link[r]] \in Seq(Replies)
    BY <1>1, <2>1 DEF TypeOK, WireTypeOK
  <2>5. NextReply(r) = down[link[r]][1] /\ 1 \in DOMAIN down[link[r]]
    BY <2>4, TailOf DEF NextReply
  <2> QED
    BY <2>3, <2>5
<1> QED
  BY SystemInvariant, <1>1, PTL

-----------------------------------------------------------------------------
(* One reader whose connections are not lost on it, and which never gives up *)
(* on an answer: whatever is under way is under way on its present link.     *)

Steady == "link_drop" \notin Faults /\ "late_reply" \notin Faults

SteadyInv ==
    /\ \A r \in Readers :
        ~late[r] /\ (link[r] # None => open[link[r]] \/ Unanswered(link[r]) = 0)
    /\ \A c \in ReaderLinks : (\A r \in Readers : link[r] # c) => Unanswered(c) = 0

BaseInv == TypeOK /\ Roles /\ ReaderInv

LEMMA NothingUnderWay ==
    ASSUME NEW c, up[c] = << >>, down[c] = << >>, at[c] = "idle"
    PROVE  Unanswered(c) = 0
BY EmptySeq DEF Unanswered

LEMMA NothingUnderWayAfter ==
    ASSUME NEW c, up'[c] = << >>, down'[c] = << >>, at'[c] = "idle"
    PROVE  Unanswered(c)' = 0
BY EmptySeq DEF Unanswered

LEMMA SteadyInvInit == SystemInit => SteadyInv
<1> SUFFICES ASSUME SystemInit
             PROVE  SteadyInv
  OBVIOUS
<1>1. \A r \in Readers : ~late[r] /\ link[r] = None
  BY DEF SystemInit, ReaderInit
<1>2. ASSUME NEW c \in ReaderLinks
      PROVE  Unanswered(c) = 0
  BY NothingUnderWay, WireAssumption DEF SystemInit, ServerInit, WireInit
<1> QED
  BY <1>1, <1>2 DEF SteadyInv

LEMMA LinkOf ==
    ASSUME ReaderInv, NEW r \in Readers, rpc[r] \in Connected
    PROVE  link[r] \in ReaderLinks /\ link[r] \in Links /\ link[r] # None
BY WireAssumption, ReaderAssumption DEF ReaderInv, ReaderTypeOK

LEMMA OneUnderWay ==
    ASSUME TypeOK, NEW c \in Links, Unanswered(c) <= 1
    PROVE  /\ at[c] # "idle" => up[c] = << >> /\ down[c] = << >>
           /\ up[c] # << >> => at[c] = "idle" /\ down[c] = << >>
<1>1. /\ Len(up[c]) \in Nat /\ Len(down[c]) \in Nat
      /\ up[c] \in Seq(Requests) /\ down[c] \in Seq(Replies)
  BY UnansweredIsNat DEF TypeOK, WireTypeOK
<1>2. /\ Len(up[c]) = 0 => up[c] = << >>
      /\ Len(down[c]) = 0 => down[c] = << >>
  BY <1>1, EmptySeq
<1> DEFINE m == Len(up[c])
           n == Len(down[c])
           k == IF at[c] = "idle" THEN 0 ELSE 1
<1>3. /\ m \in Nat /\ n \in Nat /\ k \in Nat /\ m + n + k <= 1
      /\ m = 0 => up[c] = << >>
      /\ n = 0 => down[c] = << >>
      /\ at[c] # "idle" => k = 1
      /\ at[c] = "idle" => k = 0
  BY <1>1, <1>2 DEF Unanswered
<1> HIDE DEF m, n, k
<1> QED
  BY <1>3

(* A session in lock-step.                                                   *)
LEMMA LockStep ==
    ASSUME BaseInv, SteadyInv, NEW r \in Readers, NEW c \in Links, c = link[r], c # None
    PROVE  /\ rpc[r] \notin Waiting => Unanswered(c) = 0
           /\ rpc[r] \in Waiting => Unanswered(c) <= 1 /\ OnlyOf(c, Awaited(rpc[r]))
<1>1. CASE open[c]
  BY <1>1 DEF BaseInv, ReaderInv, SteadyInv, OneAtATime
<1>2. CASE ~open[c]
  <2>1. Unanswered(c) = 0
    BY <1>2 DEF SteadyInv
  <2>2. up[c] = << >> /\ down[c] = << >> /\ at[c] = "idle"
    BY <2>1, UnansweredIsNat DEF BaseInv
  <2> QED
    BY <2>1, <2>2, EmptySeq DEF OnlyOf
<1> QED
  BY <1>1, <1>2

(* Only the reader's own link has something under way.                       *)
LEMMA OthersEmpty ==
    ASSUME OneDoor, BaseInv, SteadyInv, NEW r \in Readers, NEW c \in ReaderLinks, c # link[r]
    PROVE  up[c] = << >> /\ down[c] = << >> /\ at[c] = "idle"
<1>1. Unanswered(c) = 0 /\ c \in Links
  BY WireAssumption DEF OneDoor, SteadyInv
<1> QED
  BY <1>1, UnansweredIsNat DEF BaseInv

LEMMA SteadyIsSerial ==
    ASSUME OneDoor, BaseInv, SteadyInv
    PROVE  OneHandler
<1>1. PICK r \in Readers : TRUE
  BY DEF OneDoor
<1>2. \A c \in ReaderLinks : at[c] # "idle" => c = link[r]
  BY OthersEmpty
<1> QED
  BY <1>2 DEF OneHandler

LEMMA SteadyElsewhere ==
    ASSUME BaseInv, TypeOK', SteadyInv, UNCHANGED <<reader_vars, ghosts>>,
           \A c \in ReaderLinks : Drains(c) /\ (open'[c] = open[c] \/ Unanswered(c)' = 0)
    PROVE  SteadyInv'
<1>1. UNCHANGED <<link, late>> /\ ReaderTypeOK
  BY DEF reader_vars, ghosts, BaseInv, ReaderInv
<1>2. ASSUME NEW c \in ReaderLinks, Unanswered(c) = 0
      PROVE  Unanswered(c)' = 0
  <2>1. Unanswered(c)' <= Unanswered(c)
    BY DEF Drains
  <2>2. Unanswered(c)' \in Nat
    BY UnansweredIsNatAfter, WireAssumption
  <2> QED
    BY <1>2, <2>1, <2>2
<1>3. \A r \in Readers : link[r] # None => link[r] \in ReaderLinks
  BY <1>1 DEF ReaderTypeOK
<1> QED
  BY <1>1, <1>2, <1>3 DEF SteadyInv

LEMMA SteadyOtherStep ==
    ASSUME Steady, BaseInv, TypeOK', SteadyInv,
           \/ ServerRestarts
           \/ \E c \in Links : HandlerStep(c) \/ BrowserStep(c) \/ Drop(c) \/ LeftoverStep(c)
           \/ \E r \in Readers : DoorStep(r)
           \/ UNCHANGED system_vars
    PROVE  SteadyInv'
<1> USE DEF BaseInv
<1>1. CASE ServerRestarts
  <2>1. Crash /\ UNCHANGED <<reader_vars, ghosts>>
    BY <1>1 DEF ServerRestarts
  <2>2. \A c \in Links : up'[c] = << >> /\ down'[c] = << >> /\ at'[c] = "idle"
    BY <2>1 DEF Crash
  <2>3. \A c \in Links : Unanswered(c)' = 0
    BY <2>2, NothingUnderWayAfter
  <2>4. \A c \in Links : Drains(c)
    BY <2>2, <2>3, UnansweredIsNat, EmptySeq DEF Drains, OnlyOf
  <2> QED
    BY <2>1, <2>3, <2>4, SteadyElsewhere, WireAssumption
<1>2. ASSUME NEW c \in Links, HandlerStep(c)
      PROVE  SteadyInv'
  <2>1. Handle(c) /\ UNCHANGED <<reader_vars, ghosts>>
    BY <1>2 DEF HandlerStep
  <2>2. open' = open
    BY <2>1 DEF Handle, Accept, UidKeyStep, TestOnce, Register, Registered, KeyCheck,
       KeyCheckFails, KeyOk, KeyBad, NewCardKeyStep, RotateCheck, RotateIgnored, Rotate,
       RotateFails, PasswordStep, PasswordCheck, TotpAccepted, TotpRefused, LoggedIn, FailLoad,
       FailStore, OpenStep, OpenCheck, CardCheck, Grant, GrantCard, Granted, Limit, LimitReset,
       Unauthorized, Within, Finish, wire_vars
  <2>3. \A d \in ReaderLinks : Drains(d) /\ open'[d] = open[d]
    BY <2>1, <2>2, HandlerDrains, WireAssumption
  <2> QED
    BY <2>1, <2>3, SteadyElsewhere
<1>3. ASSUME NEW c \in Links, BrowserStep(c)
      PROVE  SteadyInv'
  <2>1. /\ UNCHANGED <<reader_vars, ghosts>> /\ c \notin ReaderLinks
        /\ UNCHANGED <<at, req>>
        /\ \A d \in Links \ {c} : open'[d] = open[d] /\ up'[d] = up[d] /\ down'[d] = down[d]
    BY <1>3 DEF BrowserStep, BrowserPost, BrowserReceive, Receive, server_vars, handler_vars,
       TypeOK, WireTypeOK
  <2>2. \A d \in ReaderLinks : Drains(d) /\ open'[d] = open[d]
    BY <2>1, SameDrains, WireAssumption
  <2> QED
    BY <2>1, <2>2, SteadyElsewhere
<1>4. ASSUME NEW c \in Links, LeftoverStep(c)
      PROVE  SteadyInv'
  <2>1. /\ UNCHANGED <<reader_vars, ghosts, open, down, at, req>>
        /\ up' = [up EXCEPT ![c] = << >>]
    BY <1>4 DEF LeftoverStep, LinkForget, Forget, server_vars, handler_vars
  <2>2. Drains(c)
    BY <2>1, EmptiedDrains DEF TypeOK, WireTypeOK
  <2>3. \A d \in Links \ {c} : Drains(d)
    BY <2>1, SameDrains DEF TypeOK, WireTypeOK
  <2>4. \A d \in ReaderLinks : Drains(d) /\ open'[d] = open[d]
    BY <2>1, <2>2, <2>3, WireAssumption
  <2> QED
    BY <2>1, <2>4, SteadyElsewhere
<1>5. CASE (\E r \in Readers : DoorStep(r)) \/ UNCHANGED system_vars
  <2>1. UNCHANGED <<wire_vars, server_vars, ghosts, link>>
    BY <1>5 DEF DoorStep, PutCard, TakeCard, system_vars, vars, reader_vars
  <2> QED
    BY <2>1 DEF wire_vars, server_vars, handler_vars, ghosts, SteadyInv, Unanswered
<1> QED
  BY <1>1, <1>2, <1>3, <1>4, <1>5 DEF Steady, Drop

LEMMA SteadyTimeouts ==
    ASSUME Steady, BaseInv, SteadyInv, NEW r \in Readers, rpc[r] \in Connected, MayTimeOut(r)
    PROVE  NothingToAnswer(link[r])
<1>1. link[r] \in Links /\ link[r] # None
  BY LinkOf DEF BaseInv
<1>2. CASE ~open[link[r]]
  <2>1. Unanswered(link[r]) = 0
    BY <1>1, <1>2 DEF SteadyInv
  <2> QED
    BY <1>1, <2>1, UnansweredIsNat DEF BaseInv, NothingToAnswer
<1> QED
  BY <1>2 DEF Steady, MayTimeOut

LEMMA SteadyLate ==
    ASSUME Steady, BaseInv, SteadyInv, NEW r \in Readers, ReaderStep(r)
    PROVE  ~late'[r]
<1>1. ~late[r] /\ late \in [Readers -> BOOLEAN]
  BY DEF SteadyInv, BaseInv, ReaderInv
<1>2. CASE late' = [late EXCEPT ![r] = @ /\ link[r] # None]
  BY <1>1, <1>2, Zenon
<1>3. CASE /\ late' = [late EXCEPT ![r] = @ \/ AnswerMayCome(link[r])]
           /\ rpc[r] \in Waiting /\ MayTimeOut(r)
  <2>1. rpc[r] \in Connected
    BY <1>3 DEF Waiting, Connected, Beating
  <2>2. ~AnswerMayCome(link[r])
    BY <1>3, <2>1, SteadyTimeouts DEF AnswerMayCome
  <2>3. late' = [late EXCEPT ![r] = late[r] \/ AnswerMayCome(link[r])]
    BY <1>3
  <2> QED
    BY <1>1, <2>2, <2>3, Zenon
<1> QED
  BY <1>2, <1>3, Zenon DEF ReaderStep

Leaves(r) ==
    rpc[r] \in Connected /\ (KeySendFails(r) \/ Close(r, "red") \/ Close(r, "green"))

(* A session ends with nothing under way.                                    *)
LEMMA SteadyLeaving ==
    ASSUME Steady, BaseInv, SteadyInv, NEW r \in Readers, ReaderStep(r), Leaves(r)
    PROVE  link'[r] = None /\ \A c \in ReaderLinks : c = link[r] => Unanswered(c)' = 0
<1> USE DEF BaseInv, Leaves
<1>1. PICK c \in ReaderLinks : c = link[r] /\ c \in Links /\ c # None
  BY LinkOf
<1>2. at' = at /\ link \in [Readers -> ReaderLinks \cup {None}]
  BY DEF ReaderStep, server_vars, handler_vars, ReaderInv, ReaderTypeOK
<1>3. CASE KeySendFails(r)
  <2>1. ~open[c] /\ link'[r] = None /\ UNCHANGED <<up, down>>
    BY <1>1, <1>2, <1>3 DEF KeySendFails, wire_vars
  <2>2. up[c] = << >> /\ down[c] = << >> /\ at[c] = "idle"
    BY <1>1, <2>1, UnansweredIsNat DEF SteadyInv
  <2> QED
    BY <1>1, <1>2, <2>1, <2>2, NothingUnderWayAfter, Zenon
<1>4. CASE Close(r, "red") \/ Close(r, "green")
  <2>1. down'[c] = << >> /\ up' = up /\ link'[r] = None
    BY <1>1, <1>2, <1>4 DEF Close, TypeOK, WireTypeOK
  <2>2. up[c] = << >> /\ at[c] = "idle"
    <3>1. CASE rpc[r] \in Waiting /\ down[c] # << >>
      BY <1>1, <3>1, LockStep, OneUnderWay
    <3>2. CASE NothingToAnswer(c)
      BY <3>2 DEF NothingToAnswer
    <3>3. CASE rpc[r] \notin Waiting
      BY <1>1, <3>3, LockStep, UnansweredIsNat
    <3>4. ASSUME rpc[r] \in Waiting, down[c] = << >>
          PROVE  NothingToAnswer(c)
      <4>1. MayTimeOut(r)
        BY <1>1, <1>4, <2>1, <3>4 DEF ReaderStep, TaskStep, Poll, PollFails, ReadBlock,
           ReadBlockFails, Blink, ConnectToServer, Connect, SessionStep, ConnectFails, UidSend,
           UidSendFails, UidAccepted, UidReadPast, CardWrite, KeySend, KeySendFails, KeyRefused,
           KeyAnswered, BeatSend, BeatPass, BeatLimit, BeatAgain, Write, WriteLost, Skip, Step,
           Read, Receive, Waiting
      <4> QED
        BY <1>1, <4>1, SteadyTimeouts
    <3> QED
      BY <3>1, <3>2, <3>3, <3>4
  <2> QED
    BY <1>1, <1>2, <2>1, <2>2, NothingUnderWayAfter, Zenon
<1> QED
  BY <1>3, <1>4

(* A session that goes on keeps its link, and a dead link stays empty.       *)
LEMMA SteadyStaying ==
    ASSUME BaseInv, SteadyInv, NEW r \in Readers, ReaderStep(r), ~Leaves(r),
           ~TaskStep(r), ~ConnectToServer(r), ~ConnectFails(r)
    PROVE  /\ UNCHANGED <<open, link>>
           /\ rpc[r] \in Connected
           /\ ~open[link[r]] => UNCHANGED <<up, down>>
<1> USE DEF BaseInv
<1>1. \/ SessionStep(r) \/ UidAccepted(r, FreshKeys) \/ ReadReturnsNothing(r)
  BY DEF ReaderStep
<1>2. CASE UidSend(r) \/ KeySend(r) \/ BeatSend(r)
  BY <1>2 DEF UidSend, KeySend, BeatSend, Write, WriteLost, Send, Skip, Step, wire_vars,
     Connected, Beating
<1>3. CASE UidAccepted(r, FreshKeys) \/ UidReadPast(r) \/ KeyAnswered(r) \/ BeatAgain(r)
  <2>1. /\ UNCHANGED <<open, link>> /\ rpc[r] \in Connected /\ down[link[r]] # << >>
    BY <1>3 DEF UidAccepted, UidReadPast, KeyAnswered, BeatAgain, Read, Receive, Connected,
       Beating
  <2> QED
    BY <2>1, LinkOf DEF ReaderInv, ClosedIsEmpty
<1>4. ~UidSendFails(r) /\ ~KeyRefused(r) /\ ~BeatPass(r) /\ ~BeatLimit(r)
  BY DEF Leaves, UidSendFails, KeyRefused, BeatPass, BeatLimit, Connected, Beating
<1>5. ~UidTimeout(r) /\ ~BeatTimeout(r) /\ ~KeySendFails(r)
  BY DEF Leaves, UidTimeout, BeatTimeout, KeySendFails, Step, Connected, Beating
<1>6. CASE CardWrite(r) \/ KeyTimeout(r)
  BY <1>6 DEF CardWrite, KeyTimeout, Skip, Step, wire_vars, Connected, Beating
<1> QED
  BY <1>1, <1>2, <1>3, <1>4, <1>5, <1>6 DEF SessionStep, ReadReturnsNothing

(* No step of a reader touches what is under way elsewhere.                  *)
LEMMA ReaderStepElsewhere ==
    ASSUME BaseInv, NEW r \in Readers, ReaderStep(r), NEW c \in Links, c # link[r]
    PROVE  Unanswered(c)' = Unanswered(c)
<1> USE DEF BaseInv
<1>1. at' = at
  BY DEF ReaderStep, server_vars, handler_vars
<1>2. up'[c] = up[c] /\ down'[c] = down[c]
  BY DEF ReaderStep, TaskStep, Poll, PollFails, ReadBlock, ReadBlockFails, Blink,
     ConnectToServer, Connect, SessionStep, ConnectFails, UidSend, UidSendFails, UidAccepted,
     UidReadPast, CardWrite, KeySend, KeySendFails, KeyRefused, KeyAnswered, BeatSend, BeatPass,
     BeatLimit, BeatAgain, ReadReturnsNothing, UidTimeout, KeyTimeout, BeatTimeout, Write,
     WriteLost, Send, Skip, Read, Receive, Close, wire_vars, TypeOK, WireTypeOK
<1> QED
  BY <1>1, <1>2 DEF Unanswered

LEMMA SteadyReaderStep ==
    ASSUME Steady, OneDoor, BaseInv, SteadyInv, NEW r \in Readers, ReaderStep(r)
    PROVE  SteadyInv'
<1> USE DEF BaseInv
<1>1. ~late'[r] /\ ReaderTypeOK /\ at' = at
  BY SteadyLate DEF ReaderStep, ReaderInv, server_vars, handler_vars
<1>2. ASSUME NEW c \in ReaderLinks, c # link[r]
      PROVE  Unanswered(c)' = 0
  <2>1. c \in Links /\ Unanswered(c) = 0
    BY <1>2, OthersEmpty, NothingUnderWay, WireAssumption
  <2> QED
    BY <1>2, <2>1, ReaderStepElsewhere
<1>3. \A q \in Readers : q = r
  BY DEF OneDoor
<1>4. CASE Leaves(r)
  BY <1>1, <1>2, <1>3, <1>4, SteadyLeaving DEF SteadyInv
<1>5. CASE ConnectToServer(r)
  <2>1. PICK c \in ReaderLinks : Connect(r, c)
    BY <1>5 DEF ConnectToServer
  <2>2. link'[r] = c /\ open'[c] /\ c \in Links
    BY <1>1, <2>1, WireAssumption DEF Connect, ReaderTypeOK, TypeOK, WireTypeOK
  <2>3. link[r] = None
    BY <1>1, <2>1 DEF Connect, Step, ReaderTypeOK, Connected, Beating
  <2>4. \A d \in ReaderLinks : Unanswered(d)' = 0
    BY <1>2, <2>3, ReaderAssumption
  <2> QED
    BY <1>1, <1>3, <2>2, <2>4 DEF SteadyInv
<1>6. CASE TaskStep(r) \/ ConnectFails(r)
  <2>1. UNCHANGED <<open, up, down, link>>
    BY <1>6 DEF TaskStep, Poll, PollFails, ReadBlock, ReadBlockFails, Blink, ConnectFails, Skip,
       wire_vars
  <2> QED
    BY <1>1, <1>3, <2>1 DEF SteadyInv, Unanswered
<1>7. CASE ~Leaves(r) /\ ~TaskStep(r) /\ ~ConnectToServer(r) /\ ~ConnectFails(r)
  <2>1. /\ UNCHANGED <<open, link>> /\ rpc[r] \in Connected
        /\ ~open[link[r]] => UNCHANGED <<up, down>>
    BY <1>7, SteadyStaying
  <2>2. link[r] \in ReaderLinks /\ link[r] # None
    BY <2>1, LinkOf
  <2>3. open'[link[r]] \/ Unanswered(link[r])' = 0
    BY <1>1, <2>1, <2>2 DEF SteadyInv, Unanswered
  <2> QED
    BY <1>1, <1>2, <1>3, <2>1, <2>2, <2>3 DEF SteadyInv
<1> QED
  BY <1>4, <1>5, <1>6, <1>7

LEMMA SteadyStep ==
    ASSUME Steady, OneDoor, Pipeline >= 2, BaseInv, SteadyInv, [SystemNext]_system_vars
    PROVE  BaseInv' /\ SteadyInv'
<1>1. BaseInv' /\ TypeOK'
  BY SystemStepKeeps, ServerTypesStep DEF BaseInv
<1>2. SteadyInv'
  BY <1>1, SteadyOtherStep, SteadyReaderStep DEF SystemNext
<1> QED
  BY <1>1, <1>2

(* One reader, a server that may crash, a database that may refuse, cards    *)
(* that may leave: as long as no connection is lost and no read gives up     *)
(* early, the handlers of its requests never overlap, though nothing in      *)
(* https_server.go orders them.  All that is proved of SerialSpec is         *)
(* therefore true of it.                                                     *)
THEOREM SystemImplementsSerial ==
    ASSUME OneDoor, Steady, Pipeline >= 2
    PROVE  SystemSpec => SerialSpec
<1> DEFINE Inv == BaseInv /\ SteadyInv
<1>1. SystemInit => ServerInit /\ Inv
  BY InitTypes, ReaderInvInit, SteadyInvInit DEF SystemInit, BaseInv
<1>2. Inv /\ [SystemNext]_system_vars => Inv' /\ [ServerNext /\ OneHandler']_vars
  <2> SUFFICES ASSUME Inv, [SystemNext]_system_vars
               PROVE  Inv' /\ [ServerNext /\ OneHandler']_vars
    OBVIOUS
  <2>1. Inv' /\ [ServerNext]_vars
    BY SteadyStep, SystemStepKeeps DEF BaseInv
  <2>2. OneHandler'
    BY <2>1, SteadyIsSerial, PTL
  <2> QED
    BY <2>1, <2>2
<1> QED
  BY <1>1, <1>2, PTL DEF SystemSpec, SerialSpec

(* There every opening of the door that the reader is told of has an         *)
(* accepted card and an accepted login of its own.                           *)
THEOREM SystemImplementsAccess ==
    ASSUME OneDoor, Steady, Pipeline >= 2
    PROVE  SystemSpec => AccessSpec
BY SystemImplementsSerial, ServerImplementsAccess, PTL

(* There no handler relies on an approval that another has used up, neither  *)
(* for an opening nor for the key it stores (https_server.go:130, 190-195).  *)
THEOREM SystemApprovalsHold ==
    ASSUME OneDoor, Steady, Pipeline >= 2
    PROVE  SystemSpec => [](CheckStillHolds /\ RotateStillAllowed)
BY SystemImplementsSerial, ApprovalsHold, PTL

(* There two cards are never registered by one start of the server: the flag *)
(* tested is still set where the row is inserted (https_server.go:98-111).   *)
THEOREM SystemRegistersOnce ==
    ASSUME OneDoor, Steady, Pipeline >= 2
    PROVE  SystemSpec => []RegistersOnce
BY SystemImplementsSerial, ApprovalsHold, PTL

(* That reader and the browsers register one card and no more while the      *)
(* server runs.                                                              *)
THEOREM SystemOneRow ==
    ASSUME OneDoor, Steady, Pipeline >= 2, "server_crash" \notin Faults
    PROVE  SystemSpec => []OneRow
<1> QED
  BY SystemImplementsSerial, OneRegistration, PTL

-----------------------------------------------------------------------------
(* A session and its card.                                                   *)

LEMMA TheDoor ==
    ASSUME OneDoor
    PROVE  Door \in Readers /\ \A r \in Readers : r = Door
BY DEF OneDoor, Door

(* What a step that is not nfc_task's leaves alone.                          *)
Bystander == UNCHANGED <<card, rpc, ruid, rkey>>

LEMMA CardComesAndGoes ==
    ASSUME OneDoor, ReaderInv, NEW r \in Readers, DoorStep(r)
    PROVE  IO!Move
<1>1. Door = r
  BY TheDoor
<1>2. field \in [Readers -> Uids \cup {None}] /\ None \notin Uids
  BY ReaderAssumption DEF ReaderInv, ReaderTypeOK
<1>3. Bystander
  BY DEF DoorStep, PutCard, TakeCard, Bystander
<1>4. CASE PutCard(r)
  <2>1. field[r] = None /\ field'[r] \in Uids
    BY <1>2, <1>4 DEF PutCard
  <2> QED
    BY <1>1, <1>3, <2>1 DEF IO!Move, Bystander
<1>5. CASE TakeCard(r)
  <2>1. field[r] # None /\ field'[r] = None
    BY <1>2, <1>5 DEF TakeCard
  <2> QED
    BY <1>1, <1>3, <2>1 DEF IO!Move, Bystander
<1> QED
  BY <1>4, <1>5 DEF DoorStep

(* The positions in which the card read, and the key to be written, count.   *)
Unused == Steps \ {"connect", "uid_send", "uid_wait", "card_write"}

LEMMA ReaderUsesCard ==
    ASSUME OneDoor, ReaderInv, NEW r \in Readers, ReaderStep(r)
    PROVE  IO!Next \/ UNCHANGED IO!cardio_vars
<1>1. Door = r
  BY TheDoor
<1>2. ReaderTypeOK /\ SessionData(r)
  BY DEF ReaderInv
<1>3. CASE ReadBlock(r)
  <2>1. ruid[r] \in Uids
    BY <1>2, <1>3 DEF ReadBlock, Step, SessionData
  <2>2. /\ rpc[r] = "read" /\ rpc'[r] = "connect"
        /\ ruid'[r] = ruid[r] /\ rkey'[r] = card[ruid[r]]
        /\ UNCHANGED <<card, field>>
    BY <1>2, <1>3 DEF ReadBlock, Step, ReaderTypeOK
  <2>3. IO!Tap(ruid[r])
    BY <1>1, <2>2 DEF IO!Tap
  <2> QED
    BY <2>1, <2>3 DEF IO!Next
<1>4. CASE UidAccepted(r, FreshKeys)
  <2>1. PICK key \in FreshKeys : rkey' = [rkey EXCEPT ![r] = key]
    BY <1>4 DEF UidAccepted
  <2>2. key \in Keys
    BY DEF FreshKeys
  <2>3. /\ rpc[r] = "uid_wait" /\ rpc'[r] = "card_write"
        /\ ruid'[r] = ruid[r] /\ rkey'[r] = key
        /\ UNCHANGED <<card, field>>
    BY <1>2, <1>4, <2>1 DEF UidAccepted, Read, ReaderTypeOK
  <2>4. IO!Accept(key)
    BY <1>1, <2>3 DEF IO!Accept
  <2> QED
    BY <2>2, <2>4 DEF IO!Next
<1>5. CASE CardWrite(r)
  <2>1. ruid[r] \in Uids /\ rkey[r] \in Keys
    BY <1>2, <1>5 DEF CardWrite, Step, SessionData, Connected
  <2>2. /\ rpc[r] = "card_write" /\ rpc'[r] = "key_send"
        /\ ruid'[r] = ruid[r] /\ rkey'[r] = rkey[r]
        /\ UNCHANGED field
    BY <1>2, <1>5 DEF CardWrite, Step, ReaderTypeOK
  <2>3. CASE field[r] = ruid[r]
    <3>1. card' = [card EXCEPT ![ruid[r]] = rkey[r]]
      BY <1>5, <2>3 DEF CardWrite
    <3>2. IO!Write([card |-> ruid[r], data |-> rkey[r]])
      BY <1>1, <2>2, <2>3, <3>1 DEF IO!Write
    <3> QED
      BY <1>1, <2>2, <3>2 DEF IO!Next
  <2>4. CASE field[r] # ruid[r]
    <3>1. card' = card
      BY <1>5, <2>4 DEF CardWrite
    <3>2. IO!Lose
      BY <1>1, <2>2, <3>1 DEF IO!Lose
    <3> QED
      BY <3>2 DEF IO!Next
  <2> QED
    BY <2>3, <2>4
<1>6. CASE ConnectFails(r) \/ UidSendFails(r) \/ UidTimeout(r)
  <2>1. /\ rpc[r] \in {"connect", "uid_send", "uid_wait"} /\ rpc'[r] = "red"
        /\ UNCHANGED <<card, field>>
    BY <1>2, <1>6 DEF ConnectFails, UidSendFails, UidTimeout, Skip, Step, Close, ReaderTypeOK
  <2>2. IO!Refuse
    BY <1>1, <2>1 DEF IO!Refuse
  <2> QED
    BY <2>2 DEF IO!Next
<1>7. CASE ConnectToServer(r) \/ UidSend(r) \/ UidReadPast(r)
  <2>1. /\ rpc[r] \in {"connect", "uid_send", "uid_wait"}
        /\ rpc'[r] \in {"connect", "uid_send", "uid_wait"}
        /\ UNCHANGED <<card, field, ruid, rkey>>
    BY <1>2, <1>7 DEF ConnectToServer, Connect, UidSend, UidReadPast, Write, WriteLost, Read,
       Skip, Step, ReaderTypeOK
  <2> QED
    BY <1>1, <2>1 DEF IO!cardio_vars
<1>8. CASE \/ Poll(r) \/ PollFails(r) \/ ReadBlockFails(r) \/ Blink(r)
           \/ KeySend(r) \/ KeySendFails(r) \/ KeyRefused(r) \/ KeyAnswered(r) \/ KeyTimeout(r)
           \/ BeatSend(r) \/ BeatPass(r) \/ BeatLimit(r) \/ BeatAgain(r) \/ BeatTimeout(r)
  <2>1. rpc[r] \in Unused /\ rpc'[r] \in Unused /\ UNCHANGED <<card, field>>
    <3>1. CASE \/ Poll(r) \/ PollFails(r) \/ ReadBlockFails(r) \/ Blink(r)
               \/ KeySendFails(r) \/ KeyTimeout(r)
      BY <1>2, <3>1 DEF Poll, PollFails, ReadBlockFails, Blink, KeySendFails, KeyTimeout, Skip,
         Step, Unused, Steps, CardNeeded, Beating, ReaderTypeOK
    <3>2. CASE KeySend(r) \/ KeyAnswered(r) \/ BeatSend(r) \/ BeatAgain(r)
      BY <1>2, <3>2 DEF KeySend, KeyAnswered, BeatSend, BeatAgain, Write, WriteLost, Skip, Step,
         Unused, Steps, CardNeeded, Beating, ReaderTypeOK
    <3>3. CASE KeyRefused(r) \/ BeatPass(r) \/ BeatLimit(r) \/ BeatTimeout(r)
      BY <1>2, <3>3 DEF KeyRefused, BeatPass, BeatLimit, BeatTimeout, Close, Unused, Steps,
         CardNeeded, Beating, ReaderTypeOK
    <3> QED
      BY <1>8, <3>1, <3>2, <3>3
  <2> QED
    BY <1>1, <2>1 DEF IO!cardio_vars, Unused
<1>9. \/ TaskStep(r) \/ ConnectToServer(r) \/ SessionStep(r) \/ UidAccepted(r, FreshKeys)
      \/ ReadReturnsNothing(r)
  BY DEF ReaderStep
<1> QED
  BY <1>3, <1>4, <1>5, <1>6, <1>7, <1>8, <1>9 DEF TaskStep, SessionStep, ReadReturnsNothing

(* One reader, every fault: whatever the server answers or does not, a card  *)
(* is read once in a session, and written at most once, with the key that    *)
(* will be reported, while it lies on the reader (tls_connection.c:118-147). *)
THEOREM SystemImplementsCardIO ==
    ASSUME OneDoor, Pipeline >= 2
    PROVE  SystemSpec => SessionIOSpec
<1>1. SystemInit => IO!Init
  BY TheDoor DEF SystemInit, ReaderInit, IO!Init
<1>2. ASSUME ReaderInv, [SystemNext]_system_vars
      PROVE  [IO!Next]_IO!cardio_vars
  <2>1. CASE \E r \in Readers : ReaderStep(r) \/ DoorStep(r)
    BY <1>2, <2>1, CardComesAndGoes, ReaderUsesCard DEF IO!Next
  <2>2. CASE \/ ServerRestarts
             \/ \E c \in Links : HandlerStep(c) \/ BrowserStep(c) \/ Drop(c) \/ LeftoverStep(c)
             \/ UNCHANGED system_vars
    <3>1. UNCHANGED reader_vars
      BY <2>2 DEF ServerRestarts, HandlerStep, BrowserStep, Drop, LeftoverStep, system_vars
    <3> QED
      BY <3>1 DEF reader_vars, IO!cardio_vars
  <2> QED
    BY <1>2, <2>1, <2>2 DEF SystemNext
<1> QED
  BY <1>1, <1>2, SystemInvariant, PTL DEF SystemSpec, SessionIOSpec, IO!Spec
=============================================================================
