----------------------------- MODULE KeyProofs -----------------------------
(* Theorems about the keys of the cards in System.tla, for a deployment with *)
(* one reader: any number of browsers, any cards and keys.                   *)
EXTENDS SystemProofs

-----------------------------------------------------------------------------
(* The strengthening.                                                        *)

(* The UID_KEY of reader r on connection c carries what is on its card, and  *)
(* is answered 200 only while the server expects that.                       *)
CheckOf(r, c) ==
    /\ \A i \in DOMAIN up[c] : up[c][i] = UidKey(ruid[r], rkey[r])
    /\ at[c] # "idle" => req[c] = UidKey(ruid[r], rkey[r])
    /\ at[c] = "key_ok" => HoldsCurrentKey(ruid[r])
    /\ \A i \in DOMAIN down[c] : IsOK(down[c][i]) => HoldsCurrentKey(ruid[r])

KeyAtHand(r) ==
    /\ rpc[r] \in {"connect", "uid_send", "uid_wait"} => rkey[r] = card[ruid[r]]
    /\ rpc[r] = "uid_wait" => CheckOf(r, link[r])
    /\ rpc[r] = "card_write" => HoldsCurrentKey(ruid[r])

KeyInv == \A r \in Readers : KeyAtHand(r)

AllInv == TypeOK /\ Roles /\ ReaderInv /\ SteadyInv /\ KeyInv

LEMMA AllIsBase == AllInv => BaseInv
BY DEF AllInv, BaseInv

LEMMA KeyInvInit == SystemInit => KeyInv
BY DEF SystemInit, ReaderInit, KeyInv, KeyAtHand

-----------------------------------------------------------------------------
(* The handlers of other connections are then a login page's.                *)
LEMMA OtherHandlers ==
    ASSUME OneDoor, AllInv, NEW r \in Readers, NEW c \in ReaderLinks, c = link[r],
           NEW d \in Links \ {c}, Handle(d)
    PROVE  /\ cards' = cards
           /\ up'[c] = up[c] /\ down'[c] = down[c] /\ at'[c] = at[c] /\ req'[c] = req[c]
<1> USE DEF AllInv
<1>1. c \in Links /\ d \notin ReaderLinks
  <2>1. ASSUME d \in ReaderLinks
        PROVE  FALSE
    <3>1. up[d] = << >> /\ at[d] = "idle"
      BY <2>1, AllIsBase, OthersEmpty
    <3> QED
      BY <3>1, HandlerServes DEF Takes, Computes, Answers
  <2> QED
    BY <2>1, WireAssumption
<1>2. at[d] \in PasswordPositions \cup {"idle"}
  BY <1>1 DEF Roles
<1>3. Accept(d) \/ PasswordStep(d)
  BY <1>2 DEF Handle, UidKeyStep, TestOnce, Register, Registered, KeyCheck, KeyCheckFails,
     KeyOk, KeyBad, NewCardKeyStep, RotateCheck, RotateIgnored, Rotate, RotateFails, OpenStep,
     OpenCheck, CardCheck, Grant, GrantCard, Granted, Limit, LimitReset, Unauthorized, Within,
     PasswordPositions
<1> QED
  BY <1>1, <1>3 DEF Accept, PasswordStep, PasswordCheck, TotpAccepted, TotpRefused, LoggedIn,
     FailLoad, FailStore, Within, Finish, Goto, Respond, wire_vars, TypeOK, WireTypeOK

(* The handler of a UID_KEY.                                                 *)
LEMMA CheckingHandler ==
    ASSUME TypeOK, Roles, NEW r \in Readers, NEW c \in Links, UNCHANGED reader_vars,
           Unanswered(c) <= 1, CheckOf(r, c), rkey[r] = card[ruid[r]], Handle(c)
    PROVE  CheckOf(r, c)'
<1> DEFINE m == UidKey(ruid[r], rkey[r])
<1>1. m.type = "UID_KEY" /\ m.UID = ruid[r] /\ m.OtAK = card[ruid[r]]
  BY DEF UidKey
<1>2. ruid' = ruid /\ rkey' = rkey /\ card' = card
  BY DEF reader_vars
<1>3. cards' = cards => (HoldsCurrentKey(ruid[r])' <=> HoldsCurrentKey(ruid[r]))
  BY <1>2 DEF HoldsCurrentKey
<1>4. CASE Accept(c)
  <2>1. up[c] \in Seq(Requests) /\ up[c] # << >>
    BY <1>4 DEF Accept, TypeOK, WireTypeOK
  <2>2. /\ up'[c] = Tail(up[c]) /\ req'[c] = Head(up[c]) /\ down'[c] = down[c]
        /\ cards' = cards /\ at'[c] = FirstPosition(Head(up[c]).type)
    BY <1>4 DEF Accept, Goto, TypeOK, WireTypeOK
  <2>3. /\ \A i \in DOMAIN Tail(up[c]) : i + 1 \in DOMAIN up[c] /\ Tail(up[c])[i] = up[c][i + 1]
        /\ Head(up[c]) = up[c][1] /\ 1 \in DOMAIN up[c]
    BY <2>1, TailOf, Zenon
  <2>4. Head(up[c]) = m /\ \A i \in DOMAIN Tail(up[c]) : Tail(up[c])[i] = m
    BY <2>3 DEF CheckOf
  <2>5. at'[c] = "uid_key"
    BY <1>1, <2>2, <2>4 DEF FirstPosition
  <2> QED
    BY <1>2, <1>3, <2>2, <2>4, <2>5 DEF CheckOf
<1>5. CASE at[c] # "idle"
  <2>1. /\ up[c] = << >> /\ down[c] = << >>
        /\ DOMAIN up[c] = {} /\ DOMAIN down[c] = {}
    BY <1>5, OneUnderWay, EmptySeq
  <2>2. req[c] = m
    BY <1>5 DEF CheckOf
  <2>3. at[c] \in UidKeyPositions
    BY <1>1, <1>5, <2>2, RequestTypes DEF Roles, TypeOK, Positions
  <2>4. CASE TestOnce(c) \/ Register(c) \/ Registered(c)
    BY <1>2, <2>1, <2>2, <2>4 DEF TestOnce, Register, Registered, Within, Goto, wire_vars,
       CheckOf, TypeOK
  <2>5. CASE KeyCheck(c)
    <3>1. /\ cards' = cards /\ up'[c] = up[c] /\ down'[c] = down[c] /\ req'[c] = req[c]
          /\ at'[c] = IF KeyMatches(cards, ruid[r], card[ruid[r]]) THEN "key_ok" ELSE "key_bad"
      BY <1>1, <2>2, <2>5 DEF KeyCheck, Within, Goto, wire_vars, TypeOK
    <3>2. at'[c] = "key_ok" => HoldsCurrentKey(ruid[r])
      BY <3>1 DEF KeyMatches, HoldsCurrentKey
    <3> QED
      BY <1>2, <1>3, <2>1, <2>2, <3>1, <3>2 DEF CheckOf
  <2>9. CASE KeyCheckFails(c)
    BY <1>2, <2>1, <2>2, <2>9 DEF KeyCheckFails, Within, Goto, wire_vars, CheckOf, TypeOK
  <2>6. CASE KeyOk(c)
    <3>1. HoldsCurrentKey(ruid[r])' /\ at'[c] = "idle" /\ up'[c] = up[c]
      BY <1>3, <2>6 DEF KeyOk, Finish, Goto, CheckOf, TypeOK
    <3> QED
      BY <1>2, <2>1, <3>1 DEF CheckOf
  <2>7. CASE KeyBad(c)
    <3> DEFINE reply == [status |-> 400, body |-> "NO", to |-> req[c].type]
    <3>1. /\ at'[c] = "idle" /\ up'[c] = up[c]
          /\ down'[c] = << >> \/ down'[c] = << reply >>
      BY <2>1, <2>7 DEF KeyBad, Finish, Goto, Respond, TypeOK, WireTypeOK
    <3>2. \A i \in DOMAIN down'[c] : ~IsOK(down'[c][i])
      <4>1. ~IsOK(reply)
        BY DEF IsOK
      <4> QED
        BY <3>1, <4>1
    <3> QED
      BY <1>2, <2>1, <3>1, <3>2 DEF CheckOf, IsOK
  <2>8. UidKeyStep(c)
    BY <1>5, <2>3 DEF Handle, Accept, NewCardKeyStep, RotateCheck, RotateIgnored, Rotate,
       RotateFails, PasswordStep, PasswordCheck, TotpAccepted, TotpRefused, LoggedIn,
       FailLoad, FailStore, OpenStep, OpenCheck, CardCheck, Grant, GrantCard, Granted,
       Limit, LimitReset, Unauthorized, Within, UidKeyPositions
  <2> QED
    BY <2>4, <2>5, <2>6, <2>7, <2>8, <2>9 DEF UidKeyStep
<1>6. Accept(c) \/ at[c] # "idle"
  BY HandlerServes DEF Handle, Takes, Computes, Answers, UidKeyStep, TestOnce, Register,
     Registered, KeyCheck, KeyCheckFails, KeyOk, KeyBad, NewCardKeyStep, RotateCheck,
     RotateIgnored, Rotate, RotateFails, PasswordStep, PasswordCheck, TotpAccepted,
     TotpRefused, LoggedIn, FailLoad, FailStore, OpenStep, OpenCheck, CardCheck, Grant,
     GrantCard, Granted, Limit, LimitReset, Unauthorized, Within
<1> QED
  BY <1>4, <1>5, <1>6

-----------------------------------------------------------------------------
(* Steps that are not a reader's.                                            *)

LEMMA KeyHandlerStep ==
    ASSUME OneDoor, AllInv, NEW d \in Links, HandlerStep(d)
    PROVE  KeyInv'
<1> SUFFICES ASSUME NEW r \in Readers
             PROVE  KeyAtHand(r)'
  BY DEF KeyInv
<1> USE DEF AllInv
<1>1. Handle(d) /\ UNCHANGED reader_vars
  BY DEF HandlerStep
<1>2. UNCHANGED <<card, rpc, ruid, rkey, link>>
  BY <1>1 DEF reader_vars
<1>3. KeyAtHand(r) /\ WithinPipeline(r)
  BY DEF KeyInv, ReaderInv
<1>4. CASE rpc[r] \notin {"uid_wait", "card_write"}
  BY <1>2, <1>3, <1>4 DEF KeyAtHand
<1>5. CASE rpc[r] \in {"uid_wait", "card_write"}
  <2>1. PICK c \in ReaderLinks : c = link[r] /\ c \in Links /\ c # None
    BY <1>5, LinkOf DEF Connected
  <2>2. Unanswered(c) <= Outstanding(rpc[r])
    BY <1>3, <2>1 DEF WithinPipeline
  <2>3. CASE d # c
    <3>1. /\ cards' = cards
          /\ up'[c] = up[c] /\ down'[c] = down[c] /\ at'[c] = at[c] /\ req'[c] = req[c]
      BY <1>1, <2>1, <2>3, OtherHandlers
    <3> QED
      BY <1>2, <1>3, <2>1, <3>1 DEF KeyAtHand, CheckOf, HoldsCurrentKey
  <2>4. CASE d = c /\ rpc[r] = "uid_wait"
    <3>1. Unanswered(c) <= 1
      BY <2>2, <2>4 DEF Outstanding
    <3>2. CheckOf(r, c) /\ rkey[r] = card[ruid[r]]
      BY <1>3, <2>1, <2>4 DEF KeyAtHand
    <3>3. CheckOf(r, c)'
      BY <1>1, <2>1, <2>4, <3>1, <3>2, CheckingHandler
    <3> QED
      BY <1>2, <2>1, <2>4, <3>2, <3>3 DEF KeyAtHand
  <2>5. CASE d = c /\ rpc[r] = "card_write"
    <3>1. Unanswered(c) <= 0
      BY <2>2, <2>5 DEF Outstanding
    <3>2. Unanswered(c) = 0
      BY <2>1, <3>1, UnansweredIsNat
    <3>3. up[c] = << >> /\ at[c] = "idle"
      BY <2>1, <3>2, UnansweredIsNat
    <3> QED
      BY <1>1, <2>5, <3>3, HandlerServes DEF Takes, Computes, Answers
  <2> QED
    BY <1>5, <2>3, <2>4, <2>5
<1> QED
  BY <1>4, <1>5

(* Connections lose what is under way on them, or keep it.                   *)
LEMMA KeysKept ==
    ASSUME AllInv, UNCHANGED reader_vars, cards' = cards,
           \A c \in ReaderLinks :
                /\ up'[c] = up[c] \/ up'[c] = << >>
                /\ down'[c] = down[c] \/ down'[c] = << >>
                /\ at'[c] = "idle" \/ (at'[c] = at[c] /\ req'[c] = req[c])
    PROVE  KeyInv'
<1> SUFFICES ASSUME NEW r \in Readers
             PROVE  KeyAtHand(r)'
  BY DEF KeyInv
<1>1. UNCHANGED <<card, rpc, ruid, rkey, link>>
  BY DEF reader_vars
<1>2. KeyAtHand(r)
  BY DEF AllInv, KeyInv
<1>3. CASE rpc[r] # "uid_wait"
  BY <1>1, <1>2, <1>3 DEF KeyAtHand, HoldsCurrentKey
<1>4. CASE rpc[r] = "uid_wait"
  <2>1. PICK c \in ReaderLinks : c = link[r]
    BY <1>4, LinkOf DEF Connected, AllInv
  <2>2. CheckOf(r, c)
    BY <1>2, <1>4, <2>1 DEF KeyAtHand
  <2>3. /\ DOMAIN up'[c] = {} \/ up'[c] = up[c]
        /\ DOMAIN down'[c] = {} \/ down'[c] = down[c]
        /\ at'[c] = "idle" \/ (at'[c] = at[c] /\ req'[c] = req[c])
    BY EmptySeq
  <2>4. CheckOf(r, c)'
    BY <1>1, <2>2, <2>3 DEF CheckOf, HoldsCurrentKey
  <2> QED
    BY <1>1, <1>2, <1>4, <2>1, <2>4 DEF KeyAtHand
<1> QED
  BY <1>3, <1>4

LEMMA KeyOtherStep ==
    ASSUME AllInv,
           \/ ServerRestarts
           \/ \E c \in Links : BrowserStep(c) \/ Drop(c) \/ LeftoverStep(c)
           \/ \E r \in Readers : DoorStep(r)
           \/ UNCHANGED system_vars
    PROVE  KeyInv'
<1> USE DEF AllInv
<1>1. CASE ServerRestarts
  <2>1. /\ UNCHANGED reader_vars /\ cards' = cards
        /\ \A c \in Links : up'[c] = << >> /\ down'[c] = << >> /\ at'[c] = "idle"
    <3>1. Crash /\ UNCHANGED reader_vars
      BY <1>1 DEF ServerRestarts
    <3>2. cards' = cards
      BY <3>1 DEF Crash
    <3>3. \A c \in Links : up'[c] = << >> /\ down'[c] = << >> /\ at'[c] = "idle"
      BY <3>1 DEF Crash
    <3> QED
      BY <3>1, <3>2, <3>3
  <2>2. \A c \in ReaderLinks :
            /\ up'[c] = up[c] \/ up'[c] = << >>
            /\ down'[c] = down[c] \/ down'[c] = << >>
            /\ at'[c] = "idle" \/ (at'[c] = at[c] /\ req'[c] = req[c])
    BY <2>1, WireAssumption, Zenon
  <2> QED
    BY <2>1, <2>2, KeysKept, Zenon
<1>2. ASSUME NEW c \in Links, BrowserStep(c)
      PROVE  KeyInv'
  <2>1. /\ UNCHANGED <<reader_vars, cards, at, req>> /\ c \notin ReaderLinks
        /\ \A d \in Links \ {c} : up'[d] = up[d] /\ down'[d] = down[d]
    BY <1>2 DEF BrowserStep, BrowserPost, BrowserReceive, Receive, server_vars, handler_vars,
       TypeOK, WireTypeOK
  <2> QED
    BY <2>1, KeysKept, WireAssumption
<1>3. ASSUME NEW c \in Links, Drop(c) \/ LeftoverStep(c)
      PROVE  KeyInv'
  <2>1. /\ UNCHANGED <<reader_vars, cards, at, req>>
        /\ \A d \in Links : up'[d] = up[d] \/ up'[d] = << >>
        /\ \A d \in Links : down'[d] = down[d] \/ down'[d] = << >>
    BY <1>3 DEF Drop, LeftoverStep, LinkHangup, LinkForget, Hangup, Forget, server_vars,
       handler_vars, TypeOK, WireTypeOK
  <2> QED
    BY <2>1, KeysKept, WireAssumption
<1>4. CASE (\E r \in Readers : DoorStep(r)) \/ UNCHANGED system_vars
  <2>1. UNCHANGED <<wire_vars, server_vars, card, rpc, ruid, rkey, link>>
    BY <1>4 DEF DoorStep, PutCard, TakeCard, system_vars, vars, reader_vars
  <2> QED
    BY <2>1 DEF wire_vars, server_vars, handler_vars, KeyInv, KeyAtHand, CheckOf, HoldsCurrentKey
<1> QED
  BY <1>1, <1>2, <1>3, <1>4

-----------------------------------------------------------------------------
(* Steps of the reader.                                                      *)

LEMMA KeyReaderStep ==
    ASSUME OneDoor, AllInv, NEW r \in Readers, ReaderStep(r)
    PROVE  KeyInv'
<1> SUFFICES KeyAtHand(r)'
  BY DEF KeyInv, OneDoor
<1> USE DEF AllInv
<1>1. KeyAtHand(r) /\ ReaderTypeOK /\ WithinPipeline(r) /\ SessionData(r)
  BY DEF KeyInv, ReaderInv
<1>2. UNCHANGED server_vars
  BY DEF ReaderStep
<1>3. cards' = cards /\ at' = at /\ req' = req
  BY <1>2 DEF server_vars, handler_vars
<1>4. \/ TaskStep(r) \/ ConnectToServer(r) \/ SessionStep(r) \/ UidAccepted(r, FreshKeys)
      \/ ReadReturnsNothing(r)
  BY DEF ReaderStep
<1>5. CASE rpc'[r] \notin {"connect", "uid_send", "uid_wait", "card_write"}
  BY <1>5 DEF KeyAtHand
<1>6. CASE ReadBlock(r)
  <2>1. rkey'[r] = card'[ruid'[r]] /\ rpc'[r] = "connect"
    BY <1>1, <1>6 DEF ReadBlock, Step, ReaderTypeOK
  <2> QED
    BY <2>1 DEF KeyAtHand
<1>7. CASE ConnectToServer(r)
  <2>1. rpc[r] = "connect" /\ rpc'[r] = "uid_send" /\ UNCHANGED <<card, ruid, rkey>>
    BY <1>1, <1>7 DEF ConnectToServer, Connect, Step, ReaderTypeOK
  <2> QED
    BY <1>1, <2>1 DEF KeyAtHand
<1>8. CASE UidSend(r)
  <2>1. /\ rpc[r] = "uid_send" /\ rpc'[r] = "uid_wait"
        /\ UNCHANGED <<down, card, ruid, rkey, link>>
    BY <1>1, <1>8 DEF UidSend, Write, WriteLost, Skip, Step, wire_vars, ReaderTypeOK
  <2>2. PICK c \in Links : c = link[r] /\ c # None
    BY <2>1, LinkOf DEF Connected
  <2>3. Unanswered(c) <= 0
    BY <1>1, <2>1, <2>2 DEF WithinPipeline, Outstanding
  <2>4. Unanswered(c) = 0
    BY <2>2, <2>3, UnansweredIsNat
  <2>5. up[c] = << >> /\ down[c] = << >> /\ at[c] = "idle"
    BY <2>2, <2>4, UnansweredIsNat
  <2>6. up'[c] = << >> \/ up'[c] = << UidKey(ruid[r], rkey[r]) >>
    BY <1>8, <2>2, <2>5 DEF UidSend, Write, WriteLost, Skip, Send, wire_vars, TypeOK, WireTypeOK
  <2>7. \A i \in DOMAIN up'[c] : up'[c][i] = UidKey(ruid[r], rkey[r])
    BY <2>6
  <2>8. CheckOf(r, c)'
    BY <1>3, <2>1, <2>5, <2>7, EmptySeq DEF CheckOf
  <2> QED
    BY <1>1, <2>1, <2>2, <2>8 DEF KeyAtHand
<1>9. CASE UidAccepted(r, FreshKeys) \/ UidReadPast(r)
  <2>1. rpc[r] = "uid_wait" /\ UNCHANGED <<up, card, ruid, link>>
    BY <1>9 DEF UidAccepted, UidReadPast, Read
  <2>2. PICK c \in Links : c = link[r] /\ c # None
    BY <2>1, LinkOf DEF Connected
  <2>3. CheckOf(r, c) /\ rkey[r] = card[ruid[r]]
    BY <1>1, <2>1, <2>2 DEF KeyAtHand
  <2>4. down[c] # << >> /\ down[c] \in Seq(Replies) /\ down'[c] = Tail(down[c])
    BY <1>9, <2>2 DEF UidAccepted, UidReadPast, Read, Receive, TypeOK, WireTypeOK
  <2>5. /\ \A i \in DOMAIN Tail(down[c]) :
                i + 1 \in DOMAIN down[c] /\ Tail(down[c])[i] = down[c][i + 1]
        /\ Head(down[c]) = down[c][1] /\ 1 \in DOMAIN down[c]
    BY <2>4, TailOf, Zenon
  <2>6. CASE UidAccepted(r, FreshKeys)
    <3>1. IsOK(down[c][1]) /\ rpc'[r] = "card_write"
      BY <1>1, <2>2, <2>5, <2>6 DEF UidAccepted, NextReply, ReaderTypeOK
    <3>2. HoldsCurrentKey(ruid[r])
      BY <2>3, <2>5, <3>1 DEF CheckOf
    <3> QED
      BY <1>3, <2>1, <3>1, <3>2 DEF KeyAtHand, HoldsCurrentKey
  <2>7. CASE UidReadPast(r)
    <3>1. rpc' = rpc /\ rkey' = rkey
      BY <2>7 DEF UidReadPast
    <3>2. CheckOf(r, c)'
      BY <1>3, <2>1, <2>3, <2>4, <2>5, <3>1 DEF CheckOf, HoldsCurrentKey
    <3> QED
      BY <1>3, <2>1, <2>2, <2>3, <3>1, <3>2 DEF KeyAtHand
  <2> QED
    BY <1>9, <2>6, <2>7
<1>10. ASSUME ~ReadBlock(r), ~ConnectToServer(r), ~UidSend(r), ~UidAccepted(r, FreshKeys),
              ~UidReadPast(r)
       PROVE  rpc'[r] \notin {"connect", "uid_send", "uid_wait", "card_write"}
  BY <1>1, <1>4, <1>10 DEF TaskStep, Poll, PollFails, ReadBlockFails, Blink, SessionStep,
     ConnectFails, UidSendFails, CardWrite, KeySend, KeySendFails, KeyRefused, KeyAnswered,
     BeatSend, BeatPass, BeatLimit, BeatAgain, ReadReturnsNothing, UidTimeout, KeyTimeout,
     BeatTimeout, Write, WriteLost, Skip, Step, Close, ReaderTypeOK
<1> QED
  BY <1>5, <1>6, <1>7, <1>8, <1>9, <1>10

-----------------------------------------------------------------------------
(* The theorem.                                                              *)

LEMMA KeyStep ==
    ASSUME Steady, OneDoor, Pipeline >= 2, AllInv, [SystemNext]_system_vars
    PROVE  AllInv'
<1>1. BaseInv' /\ SteadyInv'
  BY AllIsBase, SteadyStep DEF AllInv
<1>2. KeyInv'
  BY KeyHandlerStep, KeyReaderStep, KeyOtherStep DEF SystemNext
<1> QED
  BY <1>1, <1>2 DEF AllInv, BaseInv

(* Block 4 of a card is overwritten only while the server knows the key that *)
(* it held as the current one, though the server may crash, the database     *)
(* refuse and the card leave: a rejected card is left as it is (main.c:      *)
(* 126-146, tls_connection.c:129-164).  Where a connection is lost on the    *)
(* reader, or a read gives up early, the handler of an old New_Card_Key may  *)
(* change the current key after the next session's key has been accepted.    *)
THEOREM RejectedCardsUntouched ==
    ASSUME Steady, OneDoor, Pipeline >= 2
    PROVE  SystemSpec => OnlyCurrentKeyRewritten
<1>1. SystemInit => AllInv
  BY InitTypes, ReaderInvInit, SteadyInvInit, KeyInvInit DEF SystemInit, AllInv
<1>2. AllInv /\ [SystemNext]_system_vars => AllInv'
  BY KeyStep
<1>3. AllInv /\ [SystemNext]_system_vars
        => [\A uid \in Uids : card'[uid] # card[uid] => HoldsCurrentKey(uid)]_system_vars
  <2> SUFFICES ASSUME AllInv, SystemNext, NEW uid \in Uids, card'[uid] # card[uid]
               PROVE  HoldsCurrentKey(uid)
    OBVIOUS
  <2>1. PICK r \in Readers : CardWrite(r)
    BY DEF SystemNext, ServerRestarts, HandlerStep, BrowserStep, Drop, LeftoverStep, DoorStep,
       PutCard, TakeCard, ReaderStep, ReadReturnsNothing, UidTimeout, KeyTimeout, BeatTimeout,
       TaskStep, Poll, PollFails, ReadBlock, ReadBlockFails, Blink, ConnectToServer, Connect,
       SessionStep, ConnectFails, UidSend, UidSendFails, UidAccepted, UidReadPast, KeySend,
       KeySendFails, KeyRefused, KeyAnswered, BeatSend, BeatPass, BeatLimit, BeatAgain, Write,
       WriteLost, Skip, Close, reader_vars
  <2>2. rpc[r] = "card_write" /\ uid = ruid[r]
    BY <2>1 DEF CardWrite, Step, AllInv, ReaderInv, ReaderTypeOK
  <2> QED
    BY <2>2 DEF AllInv, KeyInv, KeyAtHand
<1> QED
  BY <1>1, <1>2, <1>3, PTL DEF SystemSpec, OnlyCurrentKeyRewritten

-----------------------------------------------------------------------------
(* Reader and server in lock-step: nothing fails, but cards may be taken     *)
(* away too soon.                                                            *)

Calm == Faults \subseteq {"card_leaves"}

CalmInv == \A r \in Readers : link[r] # None => open[link[r]]

LEMMA CalmIsSteady == Calm => Steady
BY DEF Calm, Steady

LEMMA CalmInvInit == SystemInit => CalmInv
BY DEF SystemInit, ReaderInit, CalmInv

LEMMA CalmOtherStep ==
    ASSUME Calm, AllInv, CalmInv,
           \/ ServerRestarts
           \/ \E c \in Links : HandlerStep(c) \/ BrowserStep(c) \/ Drop(c) \/ LeftoverStep(c)
           \/ \E r \in Readers : DoorStep(r)
           \/ UNCHANGED system_vars
    PROVE  CalmInv'
<1> SUFFICES link' = link /\ \A d \in ReaderLinks : open'[d] = open[d]
  BY DEF CalmInv, AllInv, ReaderInv, ReaderTypeOK
<1>1. ASSUME NEW c \in Links, HandlerStep(c)
      PROVE  UNCHANGED <<open, link>>
  BY <1>1 DEF HandlerStep, reader_vars, Handle, Accept, UidKeyStep, TestOnce, Register,
     Registered, KeyCheck, KeyCheckFails, KeyOk, KeyBad, NewCardKeyStep, RotateCheck,
     RotateIgnored, Rotate, RotateFails, PasswordStep, PasswordCheck, TotpAccepted, TotpRefused,
     LoggedIn, FailLoad, FailStore, OpenStep, OpenCheck, CardCheck, Grant, GrantCard, Granted,
     Limit, LimitReset, Unauthorized, Within, Finish, wire_vars
<1>2. ASSUME NEW c \in Links, BrowserStep(c)
      PROVE  link' = link /\ \A d \in ReaderLinks : open'[d] = open[d]
  BY <1>2, WireAssumption DEF BrowserStep, BrowserPost, BrowserReceive, reader_vars, AllInv,
     TypeOK, WireTypeOK
<1>3. ASSUME NEW c \in Links, LeftoverStep(c)
      PROVE  UNCHANGED <<open, link>>
  BY <1>3 DEF LeftoverStep, LinkForget, Forget, reader_vars
<1>4. CASE (\E r \in Readers : DoorStep(r)) \/ UNCHANGED system_vars
  BY <1>4 DEF DoorStep, PutCard, TakeCard, system_vars, vars, reader_vars, wire_vars
<1> QED
  BY <1>1, <1>2, <1>3, <1>4 DEF Calm, ServerRestarts, Crash, Drop

LEMMA CalmReaderStep ==
    ASSUME Calm, OneDoor, AllInv, CalmInv, NEW r \in Readers, ReaderStep(r)
    PROVE  CalmInv'
<1>1. BaseInv /\ SteadyInv /\ Steady /\ ReaderTypeOK /\ \A q \in Readers : q = r
  BY AllIsBase, CalmIsSteady DEF AllInv, OneDoor, ReaderInv
<1>2. CASE Leaves(r)
  BY <1>1, <1>2, SteadyLeaving DEF CalmInv
<1>3. CASE ConnectToServer(r)
  <2>1. PICK c \in ReaderLinks : Connect(r, c)
    BY <1>3 DEF ConnectToServer
  <2>2. link'[r] = c /\ open'[c]
    BY <1>1, <2>1, WireAssumption DEF Connect, ReaderTypeOK, AllInv, TypeOK, WireTypeOK
  <2> QED
    BY <1>1, <2>2 DEF CalmInv
<1>4. CASE TaskStep(r) \/ ConnectFails(r)
  <2>1. UNCHANGED <<open, link>>
    BY <1>4 DEF TaskStep, Poll, PollFails, ReadBlock, ReadBlockFails, Blink, ConnectFails, Skip,
       wire_vars
  <2> QED
    BY <1>1, <2>1 DEF CalmInv
<1>5. CASE ~Leaves(r) /\ ~TaskStep(r) /\ ~ConnectToServer(r) /\ ~ConnectFails(r)
  BY <1>1, <1>5, SteadyStaying DEF CalmInv
<1> QED
  BY <1>2, <1>3, <1>4, <1>5

(* A session in lock-step on an open connection.                             *)
LEMMA CalmLockStep ==
    ASSUME AllInv, CalmInv, NEW r \in Readers, NEW c \in Links, c = link[r], c # None
    PROVE  /\ open[c]
           /\ rpc[r] \notin Waiting => Unanswered(c) = 0
           /\ rpc[r] \in Waiting => Unanswered(c) <= 1 /\ OnlyOf(c, Awaited(rpc[r]))
BY AllIsBase, LockStep DEF AllInv, CalmInv

-----------------------------------------------------------------------------
(* A table of one row.                                                       *)

LEMMA OnlyRow ==
    ASSUME NEW table \in Seq(Row), Len(table) = 1, NEW uid
    PROVE  /\ Known(table, uid) <=> table[1].uid = uid
           /\ Known(table, uid) => FirstRow(table, uid) = table[1]
<1>1. DOMAIN table = {1}
  BY LenProperties
<1>2. RowsOf(table, uid) = IF table[1].uid = uid THEN {1} ELSE {}
  BY <1>1 DEF RowsOf
<1>3. (CHOOSE i \in {1} : \A j \in {1} : i <= j) = 1
  OBVIOUS
<1> QED
  BY <1>2, <1>3 DEF Known, FirstRow

LEMMA FirstRegistration ==
    ASSUME NEW uid \in Uids, NEW key \in Keys, NEW other, NEW password \in Passwords,
           Known(database_register(<< >>, uid, Sha256(password), key), other)
    PROVE  /\ other = uid
           /\ FirstRow(database_register(<< >>, uid, Sha256(password), key), uid).key_this_time
                = key
<1> DEFINE after == database_register(<< >>, uid, Sha256(password), key)
<1>1. << >> \in Seq(Row) /\ Len(<< >>) = 0
  OBVIOUS
<1>2. after \in Seq(Row) /\ Len(after) = 1
  <2>1. after \in Seq(Row) /\ Len(after) = Len(<< >>) + 1
    BY <1>1, RegisterKeepsTable, Zenon
  <2> QED
    BY <1>1, <2>1
<1>3. after[1].uid = uid /\ after[1].key_this_time = key
  BY DEF database_register
<1> HIDE DEF after
<1>4. Known(after, other) => other = uid
  BY <1>2, <1>3, OnlyRow
<1>5. FirstRow(after, uid).key_this_time = key
  BY <1>2, <1>3, OnlyRow
<1> QED
  BY <1>4, <1>5 DEF after

LEMMA OnlyRowUpdated ==
    ASSUME NEW table \in Seq(Row), Len(table) = 1, NEW uid \in Uids, NEW key \in Keys,
           Known(table, uid), NEW other
    PROVE  /\ Known(database_updater(table, uid, key), other) => other = uid
           /\ Known(database_updater(table, uid, key), uid)
           /\ FirstRow(database_updater(table, uid, key), uid).key_this_time = key
           /\ FirstRow(database_updater(table, uid, key), uid).key_last_time
                = FirstRow(table, uid).key_this_time
<1> DEFINE after == database_updater(table, uid, key)
<1>1. after \in Seq(Row) /\ Len(after) = 1
  BY UpdateKeepsTable
<1>2. DOMAIN table = {1} /\ table[1] \in Row
  BY LenProperties, ElementOfSeq
<1>3. table[1].uid = uid /\ FirstRow(table, uid) = table[1]
  BY OnlyRow
<1>4. /\ after[1].uid = uid /\ after[1].key_this_time = key
      /\ after[1].key_last_time = table[1].key_this_time
  BY <1>2, <1>3 DEF database_updater, Row
<1> HIDE DEF after
<1>5. Known(after, other) => other = uid
  BY <1>1, <1>4, OnlyRow
<1>6. Known(after, uid) /\ FirstRow(after, uid) = after[1]
  BY <1>1, <1>4, OnlyRow
<1> QED
  BY <1>3, <1>4, <1>5, <1>6 DEF after

-----------------------------------------------------------------------------
(* The keys of the cards and of the server.                                  *)

(* The new key is on the card and the server is still to be told.            *)
Reporting(r) ==
    \/ rpc[r] = "key_send"
    \/ rpc[r] = "key_wait" /\ (up[link[r]] # << >> \/ at[link[r]] # "idle")

Synced(uid) ==
    /\ uid \notin missed => HoldsCurrentKey(uid)
    /\ card[uid] \in {FirstRow(cards, uid).key_this_time,
                      FirstRow(cards, uid).key_last_time}

SyncedBut(r) ==
    \A uid \in Uids :
        Known(cards, uid) /\ ~(Reporting(r) /\ ruid[r] = uid) => Synced(uid)

ReportOf(r, c) ==
    /\ \A i \in DOMAIN up[c] : up[c][i] = NewCardKey(ruid[r], rkey[r])
    /\ at[c] # "idle" => req[c] = NewCardKey(ruid[r], rkey[r])

(* What the server will have to accept the report.                           *)
Reportable(r) ==
    /\ checker
    /\ Known(cards, ruid[r])
    /\ IF ruid[r] \in missed THEN HoldsCurrentKey(ruid[r]) ELSE card[ruid[r]] = rkey[r]

ReportOK(r) ==
    /\ rpc[r] = "uid_wait" => \A i \in DOMAIN down[link[r]] : IsOK(down[link[r]][i]) => checker
    /\ rpc[r] = "card_write" => checker
    /\ Reporting(r) => Reportable(r)
    /\ rpc[r] = "key_wait" => ReportOf(r, link[r])

SyncInv == \A r \in Readers : SyncedBut(r) /\ ReportOK(r)

LEMMA SyncInvInit == SystemInit => SyncInv
<1> SUFFICES ASSUME SystemInit, NEW r \in Readers
             PROVE  SyncedBut(r) /\ ReportOK(r)
  BY DEF SyncInv
<1>1. rpc[r] = "poll" /\ cards = << >>
  BY DEF SystemInit, ServerInit, ReaderInit
<1>2. \A uid : ~Known(cards, uid)
  BY <1>1, EmptySeq DEF Known, RowsOf
<1> QED
  BY <1>1, <1>2 DEF SyncedBut, ReportOK, Reporting

LEMMA SyncedSame ==
    ASSUME UNCHANGED <<cards, card, missed>>, NEW uid
    PROVE  (Synced(uid)' <=> Synced(uid)) /\ (Known(cards, uid)' <=> Known(cards, uid))
BY DEF Synced, HoldsCurrentKey

(* Nothing of it changes where the table, the connection and its session do  *)
(* not.                                                                      *)
LEMMA SyncKept ==
    ASSUME NEW r \in Readers, SyncedBut(r), ReportOK(r),
           UNCHANGED <<cards, checker, card, missed, rpc, ruid, rkey, link>>,
           rpc[r] \in {"uid_wait", "key_wait"} =>
                /\ up'[link[r]] = up[link[r]] /\ down'[link[r]] = down[link[r]]
                /\ at'[link[r]] = at[link[r]] /\ req'[link[r]] = req[link[r]]
    PROVE  SyncedBut(r)' /\ ReportOK(r)'
<1>1. Reporting(r)' <=> Reporting(r)
  BY DEF Reporting
<1>2. SyncedBut(r)'
  BY <1>1, SyncedSame DEF SyncedBut
<1>3. Reportable(r)' <=> Reportable(r)
  BY DEF Reportable, HoldsCurrentKey
<1>4. ReportOK(r)'
  BY <1>1, <1>3 DEF ReportOK, ReportOf
<1> QED
  BY <1>2, <1>4

-----------------------------------------------------------------------------
(* The handlers.                                                             *)

LEMMA SyncUidKey ==
    ASSUME OneDoor, AllInv, RegistrationInv, NEW r \in Readers, NEW c \in ReaderLinks,
           c = link[r], rpc[r] = "uid_wait", Unanswered(c) <= 1, Handle(c),
           SyncedBut(r), ReportOK(r), UNCHANGED <<reader_vars, ghosts>>
    PROVE  SyncedBut(r)' /\ ReportOK(r)'
<1> USE DEF AllInv
<1> DEFINE m == UidKey(ruid[r], rkey[r])
<1>1. /\ UNCHANGED <<card, missed, rpc, ruid, rkey, link>>
      /\ c \in Links
  BY WireAssumption DEF reader_vars, ghosts
<1>2. CheckOf(r, c) /\ rkey[r] = card[ruid[r]]
  BY DEF KeyInv, KeyAtHand
<1>3. ruid[r] \in Uids /\ rkey[r] \in Keys
  BY DEF ReaderInv, SessionData, Connected
<1>4. m.type = "UID_KEY" /\ m.UID = ruid[r] /\ m.OtAK = card[ruid[r]]
  BY <1>2 DEF UidKey
<1>5. ~Reporting(r) /\ ~Reporting(r)'
  BY <1>1 DEF Reporting
<1>6. cards' = cards => SyncedBut(r)'
  BY <1>1, <1>5, SyncedSame DEF SyncedBut
<1>7. (\A i \in DOMAIN down'[c] : IsOK(down'[c][i]) => checker') => ReportOK(r)'
  BY <1>1, <1>5 DEF ReportOK
<1>8. \A i \in DOMAIN down[c] : IsOK(down[c][i]) => checker
  BY DEF ReportOK
<1>9. CASE cards' = cards /\ checker' = checker /\ down'[c] = down[c]
  BY <1>6, <1>7, <1>8, <1>9
<1>10. CASE Register(c)
  <2>1. /\ at[c] = "register" /\ down'[c] = down[c] /\ checker' = checker
        /\ cards' = database_register(cards, req[c].UID, Sha256(TestingPassword), req[c].OtAK)
    BY <1>10 DEF Register, Within, wire_vars, global_vars
  <2>2. req[c] = m
    BY <1>2, <2>1 DEF CheckOf
  <2>3. cards = << >>
    BY <1>1, <2>1, AllIsBase, SteadyIsSerial DEF RegistrationInv, OneHandler
  <2>4. cards' = database_register(<< >>, ruid[r], Sha256(TestingPassword), card[ruid[r]])
    BY <1>4, <2>1, <2>2, <2>3
  <2>5. ASSUME NEW uid \in Uids, Known(cards', uid)
        PROVE  Synced(uid)'
    <3>1. uid = ruid[r] /\ FirstRow(cards', ruid[r]).key_this_time = card[ruid[r]]
      BY <1>2, <1>3, <2>4, <2>5, FirstRegistration, TestingPasswordAssumption
    <3> QED
      BY <1>1, <2>5, <3>1 DEF Synced, HoldsCurrentKey
  <2>6. SyncedBut(r)'
    BY <2>5 DEF SyncedBut
  <2>7. ReportOK(r)'
    BY <1>7, <1>8, <2>1
  <2> QED
    BY <2>6, <2>7
<1>11. CASE KeyOk(c)
  <2>1. cards' = cards /\ checker' = TRUE
    BY <1>11 DEF KeyOk
  <2> QED
    BY <1>6, <1>7, <2>1
<1>12. CASE KeyBad(c)
  <2> DEFINE reply == [status |-> 400, body |-> "NO", to |-> req[c].type]
  <2>1. at[c] # "idle" /\ cards' = cards
    BY <1>12 DEF KeyBad
  <2>2. down[c] = << >>
    BY <1>1, <2>1, OneUnderWay
  <2>3. down'[c] = << >> \/ down'[c] = << reply >>
    BY <1>1, <1>12, <2>2 DEF KeyBad, Finish, Respond, TypeOK, WireTypeOK
  <2>4. ~IsOK(reply)
    BY DEF IsOK
  <2>5. \A i \in DOMAIN down'[c] : ~IsOK(down'[c][i])
    BY <2>3, <2>4
  <2> QED
    BY <1>6, <1>7, <2>1, <2>5
<1>13. CASE Accept(c)
  BY <1>9, <1>13 DEF Accept, global_vars
<1>14. CASE ~Accept(c)
  <2>1. at[c] # "idle"
    BY <1>14 DEF Handle, UidKeyStep, TestOnce, Register, Registered, KeyCheck,
       KeyCheckFails, KeyOk, KeyBad, NewCardKeyStep, RotateCheck, RotateIgnored, Rotate,
       RotateFails, PasswordStep, PasswordCheck, TotpAccepted, TotpRefused, LoggedIn,
       FailLoad, FailStore, OpenStep, OpenCheck, CardCheck, Grant, GrantCard, Granted,
       Limit, LimitReset, Unauthorized, Within
  <2>2. req[c] = m
    BY <1>2, <2>1 DEF CheckOf
  <2>3. at[c] \in UidKeyPositions
    BY <1>1, <1>4, <2>1, <2>2, RequestTypes DEF Roles, TypeOK, Positions
  <2>4. UidKeyStep(c)
    BY <1>14, <2>3 DEF Handle, NewCardKeyStep, RotateCheck, RotateIgnored, Rotate,
       RotateFails, PasswordStep, PasswordCheck, TotpAccepted, TotpRefused, LoggedIn,
       FailLoad, FailStore, OpenStep, OpenCheck, CardCheck, Grant, GrantCard, Granted,
       Limit, LimitReset, Unauthorized, Within, UidKeyPositions
  <2>5. CASE TestOnce(c) \/ Registered(c) \/ KeyCheck(c) \/ KeyCheckFails(c)
    BY <1>9, <2>5 DEF TestOnce, Registered, KeyCheck, KeyCheckFails, Within, wire_vars,
       global_vars
  <2> QED
    BY <1>10, <1>11, <1>12, <2>4, <2>5 DEF UidKeyStep
<1> QED
  BY <1>13, <1>14

LEMMA SyncNewKey ==
    ASSUME Calm, AllInv, RegistrationInv, NEW r \in Readers, NEW c \in ReaderLinks,
           c = link[r], rpc[r] = "key_wait", Unanswered(c) <= 1, Handle(c),
           SyncedBut(r), ReportOK(r), UNCHANGED <<reader_vars, ghosts>>
    PROVE  SyncedBut(r)' /\ ReportOK(r)'
<1> USE DEF AllInv
<1> DEFINE m == NewCardKey(ruid[r], rkey[r])
<1>1. /\ UNCHANGED <<card, missed, rpc, ruid, rkey, link>>
      /\ c \in Links
  BY WireAssumption DEF reader_vars, ghosts
<1>2. m.type = "New_Card_Key" /\ m.UID = ruid[r] /\ m.New_OtAK = rkey[r]
  BY DEF NewCardKey
<1>3. ruid[r] \in Uids /\ rkey[r] \in Keys
  BY DEF ReaderInv, SessionData, Connected
<1>4. ReportOf(r, c)
  BY DEF ReportOK
<1>5. up[c] # << >> \/ at[c] # "idle"
  BY <1>1, HandlerServes DEF Takes, Computes, Answers
<1>6. Reporting(r) /\ Reportable(r)
  BY <1>5 DEF Reporting, ReportOK
<1>7. ASSUME UNCHANGED <<cards, checker>>, at'[c] # "idle", ReportOf(r, c)'
      PROVE  SyncedBut(r)' /\ ReportOK(r)'
  <2>1. Reporting(r)'
    BY <1>1, <1>7 DEF Reporting
  <2>2. SyncedBut(r)'
    BY <1>1, <1>6, <1>7, <2>1, SyncedSame DEF SyncedBut
  <2>3. Reportable(r)'
    BY <1>1, <1>6, <1>7 DEF Reportable, HoldsCurrentKey
  <2>4. ReportOK(r)'
    BY <1>1, <1>7, <2>1, <2>3 DEF ReportOK
  <2> QED
    BY <2>2, <2>4
<1>8. CASE Accept(c)
  <2>1. up[c] \in Seq(Requests) /\ up[c] # << >>
    BY <1>1, <1>8 DEF Accept, TypeOK, WireTypeOK
  <2>2. /\ up'[c] = Tail(up[c]) /\ req'[c] = Head(up[c])
        /\ UNCHANGED <<cards, checker>> /\ at'[c] = FirstPosition(Head(up[c]).type)
    BY <1>1, <1>8 DEF Accept, Goto, TypeOK, WireTypeOK, global_vars
  <2>3. /\ \A i \in DOMAIN Tail(up[c]) : i + 1 \in DOMAIN up[c] /\ Tail(up[c])[i] = up[c][i + 1]
        /\ Head(up[c]) = up[c][1] /\ 1 \in DOMAIN up[c]
    BY <2>1, TailOf, Zenon
  <2>4. Head(up[c]) = m /\ \A i \in DOMAIN Tail(up[c]) : Tail(up[c])[i] = m
    BY <1>4, <2>3 DEF ReportOf
  <2>5. at'[c] = "new_card_key"
    BY <1>2, <2>2, <2>4 DEF FirstPosition
  <2>6. ReportOf(r, c)'
    BY <1>1, <2>2, <2>4 DEF ReportOf
  <2> QED
    BY <1>7, <2>2, <2>5, <2>6
<1>9. CASE ~Accept(c)
  <2>1. at[c] # "idle"
    BY <1>9 DEF Handle, UidKeyStep, TestOnce, Register, Registered, KeyCheck, KeyCheckFails,
       KeyOk, KeyBad, NewCardKeyStep, RotateCheck, RotateIgnored, Rotate, RotateFails,
       PasswordStep, PasswordCheck, TotpAccepted, TotpRefused, LoggedIn, FailLoad,
       FailStore, OpenStep, OpenCheck, CardCheck, Grant, GrantCard, Granted, Limit,
       LimitReset, Unauthorized, Within
  <2>2. req[c] = m
    BY <1>4, <2>1 DEF ReportOf
  <2>3. at[c] \in NewCardKeyPositions
    BY <1>1, <1>2, <2>1, <2>2, RequestTypes DEF Roles, TypeOK, Positions
  <2>4. NewCardKeyStep(c)
    BY <1>9, <2>3 DEF Handle, UidKeyStep, TestOnce, Register, Registered, KeyCheck,
       KeyCheckFails, KeyOk, KeyBad, PasswordStep, PasswordCheck, TotpAccepted, TotpRefused,
       LoggedIn, FailLoad, FailStore, OpenStep, OpenCheck, CardCheck, Grant, GrantCard,
       Granted, Limit, LimitReset, Unauthorized, Within, NewCardKeyPositions
  <2>5. CASE RotateCheck(c)
    <3>1. /\ UNCHANGED <<cards, checker>> /\ at'[c] = "rotate"
          /\ up'[c] = up[c] /\ req'[c] = req[c]
      BY <1>1, <2>5 DEF RotateCheck, Within, Goto, wire_vars, global_vars, TypeOK
    <3>2. ReportOf(r, c)'
      BY <1>1, <1>4, <2>2, <3>1 DEF ReportOf
    <3> QED
      BY <1>7, <3>1, <3>2
  <2>6. CASE Rotate(c)
    <3>1. /\ cards' = database_updater(cards, ruid[r], rkey[r])
          /\ at'[c] = "idle" /\ up'[c] = up[c] /\ checker' = checker
      BY <1>1, <1>2, <2>2, <2>6 DEF Rotate, Finish, Goto, global_vars, TypeOK
    <3>2. up'[c] = << >>
      BY <1>1, <2>1, <3>1, OneUnderWay
    <3>3. ~Reporting(r)'
      BY <1>1, <3>1, <3>2 DEF Reporting
    <3>4. ReportOK(r)'
      BY <1>1, <3>1, <3>2, <3>3, EmptySeq DEF ReportOK, ReportOf
    <3>5. Known(cards, ruid[r])
      BY <1>6 DEF Reportable
    <3>6. cards \in Seq(Row) /\ Len(cards) = 1
      <4>1. cards # << >>
        BY <3>5, EmptySeq DEF Known, RowsOf
      <4> QED
        BY <4>1 DEF RegistrationInv, TypeOK
    <3>7. ASSUME NEW uid \in Uids, Known(cards', uid)
          PROVE  Synced(uid)'
      <4>1. /\ uid = ruid[r]
            /\ Known(cards', uid)
            /\ FirstRow(cards', uid).key_this_time = rkey[r]
            /\ FirstRow(cards', uid).key_last_time = FirstRow(cards, uid).key_this_time
        BY <1>3, <3>1, <3>5, <3>6, <3>7, OnlyRowUpdated
      <4>2. IF uid \in missed THEN HoldsCurrentKey(uid) ELSE card[uid] = rkey[r]
        BY <1>6, <4>1 DEF Reportable
      <4> QED
        BY <1>1, <4>1, <4>2 DEF Synced, HoldsCurrentKey
    <3>8. SyncedBut(r)'
      BY <3>7 DEF SyncedBut
    <3> QED
      BY <3>4, <3>8
  <2>7. ~RotateIgnored(c) /\ ~RotateFails(c)
    BY <1>6 DEF RotateIgnored, RotateFails, MayRotate, Reportable, Calm
  <2> QED
    BY <2>4, <2>5, <2>6, <2>7 DEF NewCardKeyStep
<1> QED
  BY <1>8, <1>9

LEMMA SyncHeartbeat ==
    ASSUME AllInv, NEW r \in Readers, NEW c \in ReaderLinks, c = link[r],
           rpc[r] = "beat_wait", OnlyOf(c, "OPEN"), Handle(c),
           SyncedBut(r), UNCHANGED <<reader_vars, ghosts>>
    PROVE  SyncedBut(r)' /\ ReportOK(r)'
<1> USE DEF AllInv
<1>1. /\ UNCHANGED <<card, missed, rpc, ruid, rkey, link>>
      /\ c \in Links
  BY WireAssumption DEF reader_vars, ghosts
<1>2. ~Reporting(r) /\ ~Reporting(r)'
  BY <1>1 DEF Reporting
<1>3. cards' = cards
  <2>1. CASE Accept(c)
    BY <2>1 DEF Accept
  <2>2. CASE at[c] # "idle"
    <3>1. req[c].type = "OPEN"
      BY <2>2 DEF OnlyOf
    <3>2. at[c] \in OpenPositions
      BY <1>1, <2>2, <3>1, RequestTypes DEF Roles, TypeOK, Positions
    <3>3. OpenStep(c)
      BY <2>2, <3>2 DEF Handle, Accept, UidKeyStep, TestOnce, Register, Registered,
         KeyCheck, KeyCheckFails, KeyOk, KeyBad, NewCardKeyStep, RotateCheck, RotateIgnored,
         Rotate, RotateFails, PasswordStep, PasswordCheck, TotpAccepted, TotpRefused,
         LoggedIn, FailLoad, FailStore, Within, OpenPositions
    <3> QED
      BY <3>3 DEF OpenStep, OpenCheck, CardCheck, Grant, GrantCard, Granted, Limit,
         LimitReset, Unauthorized
  <2>3. CASE ~Accept(c) /\ at[c] = "idle"
    BY <2>3 DEF Handle, UidKeyStep, TestOnce, Register, Registered, KeyCheck, KeyCheckFails,
       KeyOk, KeyBad, NewCardKeyStep, RotateCheck, RotateIgnored, Rotate, RotateFails,
       PasswordStep, PasswordCheck, TotpAccepted, TotpRefused, LoggedIn, FailLoad,
       FailStore, OpenStep, OpenCheck, CardCheck, Grant, GrantCard, Granted, Limit,
       LimitReset, Unauthorized, Within
  <2> QED
    BY <2>1, <2>2, <2>3
<1>4. SyncedBut(r)'
  BY <1>1, <1>2, <1>3, SyncedSame DEF SyncedBut
<1>5. ReportOK(r)'
  BY <1>1, <1>2 DEF ReportOK
<1> QED
  BY <1>4, <1>5

LEMMA SyncHandlerStep ==
    ASSUME Calm, OneDoor, AllInv, CalmInv, RegistrationInv, SyncInv,
           NEW d \in Links, HandlerStep(d)
    PROVE  SyncInv'
<1> USE DEF AllInv
<1>1. Handle(d) /\ UNCHANGED <<reader_vars, ghosts>>
  BY DEF HandlerStep
<1> SUFFICES ASSUME NEW r \in Readers
             PROVE  SyncedBut(r)' /\ ReportOK(r)'
  BY DEF SyncInv
<1>2. SyncedBut(r) /\ ReportOK(r)
  BY DEF SyncInv
<1>3. UNCHANGED <<card, missed, rpc, ruid, rkey, link>>
  BY <1>1 DEF reader_vars, ghosts
<1>4. \A e \in Readers : e = r
  BY DEF OneDoor
<1>5. rpc[r] \in Connected => link[r] \in ReaderLinks /\ link[r] \in Links /\ link[r] # None
  BY LinkOf
<1>6. CASE d \notin ReaderLinks
  <2>1. Accept(d) \/ PasswordStep(d)
    <3>1. at[d] \in PasswordPositions \cup {"idle"}
      BY <1>6 DEF Roles
    <3> QED
      BY <1>1, <3>1 DEF Handle, UidKeyStep, TestOnce, Register, Registered, KeyCheck,
         KeyCheckFails, KeyOk, KeyBad, NewCardKeyStep, RotateCheck, RotateIgnored, Rotate,
         RotateFails, OpenStep, OpenCheck, CardCheck, Grant, GrantCard, Granted, Limit,
         LimitReset, Unauthorized, Within, PasswordPositions
  <2>2. UNCHANGED <<cards, checker>>
    BY <2>1 DEF Accept, PasswordStep, PasswordCheck, TotpAccepted, TotpRefused, LoggedIn,
       FailLoad, FailStore, global_vars
  <2>3. \A c \in Links \ {d} : /\ up'[c] = up[c] /\ down'[c] = down[c]
                              /\ at'[c] = at[c] /\ req'[c] = req[c]
    BY <2>1 DEF Accept, PasswordStep, PasswordCheck, TotpAccepted, TotpRefused, LoggedIn,
       FailLoad, FailStore, Within, Finish, Goto, Respond, wire_vars, TypeOK, WireTypeOK
  <2> QED
    BY <1>2, <1>3, <1>5, <1>6, <2>2, <2>3, SyncKept DEF Connected
<1>7. CASE d \in ReaderLinks
  <2>1. Unanswered(d) # 0
    <3> SUFFICES ASSUME Unanswered(d) = 0
                 PROVE  FALSE
      OBVIOUS
    <3>1. up[d] = << >> /\ at[d] = "idle"
      BY UnansweredIsNat
    <3> QED
      BY <1>1, <3>1, HandlerServes DEF Takes, Computes, Answers
  <2>2. link[r] = d /\ d # None
    BY <1>4, <1>7, <2>1, ReaderAssumption DEF SteadyInv
  <2>3. rpc[r] \in Waiting /\ Unanswered(d) <= 1 /\ OnlyOf(d, Awaited(rpc[r]))
    BY <2>1, <2>2, CalmLockStep
  <2>4. CASE rpc[r] = "uid_wait"
    BY <1>1, <1>2, <1>7, <2>2, <2>3, <2>4, SyncUidKey
  <2>5. CASE rpc[r] = "key_wait"
    BY <1>1, <1>2, <1>7, <2>2, <2>3, <2>5, SyncNewKey
  <2>6. CASE rpc[r] = "beat_wait"
    BY <1>1, <1>2, <1>7, <2>2, <2>3, <2>6, SyncHeartbeat DEF Awaited
  <2> QED
    BY <2>3, <2>4, <2>5, <2>6 DEF Waiting
<1> QED
  BY <1>6, <1>7

LEMMA SyncOtherStep ==
    ASSUME Calm, OneDoor, AllInv, CalmInv, SyncInv,
           \/ ServerRestarts
           \/ \E c \in Links : BrowserStep(c) \/ Drop(c) \/ LeftoverStep(c)
           \/ \E r \in Readers : DoorStep(r)
           \/ UNCHANGED system_vars
    PROVE  SyncInv'
<1> USE DEF AllInv
<1> SUFFICES ASSUME NEW r \in Readers
             PROVE  SyncedBut(r)' /\ ReportOK(r)'
  BY DEF SyncInv
<1>1. SyncedBut(r) /\ ReportOK(r)
  BY DEF SyncInv
<1>2. rpc[r] \in Connected => /\ link[r] \in ReaderLinks /\ link[r] \in Links
                              /\ open[link[r]]
  BY LinkOf DEF CalmInv
<1>3. ASSUME NEW c \in Links, BrowserStep(c) \/ LeftoverStep(c)
      PROVE  SyncedBut(r)' /\ ReportOK(r)'
  <2>1. /\ UNCHANGED <<reader_vars, ghosts, server_vars>>
        /\ c \notin ReaderLinks \/ ~open[c]
        /\ \A d \in Links \ {c} : up'[d] = up[d] /\ down'[d] = down[d]
    BY <1>3 DEF BrowserStep, BrowserPost, BrowserReceive, Receive, LeftoverStep, LinkForget,
       Forget, TypeOK, WireTypeOK
  <2>2. UNCHANGED <<cards, checker, card, missed, rpc, ruid, rkey, link, at, req>>
    BY <2>1 DEF reader_vars, ghosts, server_vars, global_vars, handler_vars
  <2>3. rpc[r] \in Connected => up'[link[r]] = up[link[r]] /\ down'[link[r]] = down[link[r]]
    BY <1>2, <2>1
  <2> QED
    BY <1>1, <2>2, <2>3, SyncKept DEF Connected
<1>4. CASE (\E q \in Readers : DoorStep(q)) \/ UNCHANGED system_vars
  <2>1. UNCHANGED <<wire_vars, server_vars, card, rpc, ruid, rkey, link, ghosts>>
    BY <1>4 DEF DoorStep, PutCard, TakeCard, system_vars, vars, reader_vars
  <2>2. UNCHANGED <<cards, checker, card, missed, rpc, ruid, rkey, link, at, req, up, down>>
    BY <2>1 DEF wire_vars, ghosts, server_vars, global_vars, handler_vars
  <2> QED
    BY <1>1, <2>2, SyncKept
<1> QED
  BY <1>3, <1>4 DEF Calm, ServerRestarts, Crash, Drop

-----------------------------------------------------------------------------
(* The reader.                                                               *)

LEMMA SyncCardWrite ==
    ASSUME AllInv, NEW r \in Readers, ReaderStep(r), CardWrite(r), SyncedBut(r), ReportOK(r)
    PROVE  SyncedBut(r)' /\ ReportOK(r)'
<1> USE DEF AllInv
<1>1. /\ rpc[r] = "card_write" /\ rpc'[r] = "key_send"
      /\ UNCHANGED <<ruid, rkey, cards, checker>>
      /\ ruid[r] \in Uids /\ card \in [Uids -> Keys]
  BY DEF CardWrite, Step, ReaderStep, server_vars, global_vars, ReaderInv, ReaderTypeOK,
     SessionData, Connected
<1>2. HoldsCurrentKey(ruid[r]) /\ checker
  BY <1>1 DEF KeyInv, KeyAtHand, ReportOK
<1>3. \/ /\ card' = [card EXCEPT ![ruid[r]] = rkey[r]]
         /\ missed' = missed \ {ruid[r]}
      \/ /\ card' = card
         /\ missed' = missed \cup {ruid[r]}
  BY <1>1 DEF CardWrite, ReaderStep
<1>4. ~Reporting(r) /\ Reporting(r)'
  BY <1>1 DEF Reporting
<1>5. ASSUME NEW uid \in Uids, Known(cards', uid), uid # ruid[r]
      PROVE  Synced(uid)'
  <2>1. Synced(uid)
    BY <1>1, <1>4, <1>5 DEF SyncedBut
  <2>2. card'[uid] = card[uid] /\ (uid \in missed' <=> uid \in missed)
    BY <1>1, <1>3, <1>5
  <2> QED
    BY <1>1, <2>1, <2>2 DEF Synced, HoldsCurrentKey
<1>6. SyncedBut(r)'
  BY <1>1, <1>4, <1>5 DEF SyncedBut
<1>7. Reportable(r)'
  BY <1>1, <1>2, <1>3 DEF Reportable, HoldsCurrentKey
<1>8. ReportOK(r)'
  BY <1>1, <1>7 DEF ReportOK
<1> QED
  BY <1>6, <1>8

LEMMA SyncReaderStep ==
    ASSUME Calm, OneDoor, AllInv, CalmInv, SyncInv, NEW r \in Readers, ReaderStep(r)
    PROVE  SyncInv'
<1> SUFFICES SyncedBut(r)' /\ ReportOK(r)'
  BY DEF SyncInv, OneDoor
<1> USE DEF AllInv
<1>1. SyncedBut(r) /\ ReportOK(r) /\ ReaderTypeOK
  BY DEF SyncInv, ReaderInv
<1>2. UNCHANGED <<cards, checker, at, req>>
  BY DEF ReaderStep, server_vars, global_vars, handler_vars
<1>3. \/ TaskStep(r) \/ ConnectToServer(r) \/ SessionStep(r) \/ UidAccepted(r, FreshKeys)
      \/ MayTimeOut(r) /\ ReadReturnsNothing(r)
  BY DEF ReaderStep
<1>4. rpc[r] # "card_write" => missed' = missed
  BY DEF ReaderStep
<1>5. ASSUME card' = card, missed' = missed,
             ~Reporting(r) \/ (Reporting(r)' /\ ruid'[r] = ruid[r])
      PROVE  SyncedBut(r)'
  BY <1>1, <1>2, <1>5, SyncedSame DEF SyncedBut
<1>6. CASE CardWrite(r)
  BY <1>1, <1>6, SyncCardWrite
<1>7. CASE UidSend(r)
  <2>1. /\ rpc[r] = "uid_send" /\ rpc'[r] = "uid_wait"
        /\ UNCHANGED <<down, card, link>>
    BY <1>1, <1>7 DEF UidSend, Write, WriteLost, Skip, Step, wire_vars, ReaderTypeOK
  <2>2. PICK c \in Links : c = link[r] /\ c # None
    BY <2>1, LinkOf DEF Connected
  <2>3. Unanswered(c) = 0
    BY <2>1, <2>2, CalmLockStep DEF Waiting
  <2>4. down'[link'[r]] = << >>
    BY <2>1, <2>2, <2>3, UnansweredIsNat
  <2>5. ~Reporting(r) /\ ~Reporting(r)'
    BY <2>1 DEF Reporting
  <2> QED
    BY <1>4, <1>5, <2>1, <2>4, <2>5, EmptySeq DEF ReportOK
<1>8. CASE UidAccepted(r, FreshKeys) \/ UidReadPast(r)
  <2>1. rpc[r] = "uid_wait" /\ UNCHANGED <<card, link>>
    BY <1>8 DEF UidAccepted, UidReadPast, Read
  <2>2. PICK c \in Links : c = link[r] /\ c # None
    BY <2>1, LinkOf DEF Connected
  <2>3. \A i \in DOMAIN down[c] : IsOK(down[c][i]) => checker
    BY <1>1, <2>1, <2>2 DEF ReportOK
  <2>4. down[c] # << >> /\ down[c] \in Seq(Replies) /\ down'[c] = Tail(down[c])
    BY <1>8, <2>2 DEF UidAccepted, UidReadPast, Read, Receive, TypeOK, WireTypeOK
  <2>5. /\ \A i \in DOMAIN Tail(down[c]) :
                i + 1 \in DOMAIN down[c] /\ Tail(down[c])[i] = down[c][i + 1]
        /\ Head(down[c]) = down[c][1] /\ 1 \in DOMAIN down[c]
    BY <2>4, TailOf, Zenon
  <2>6. \/ rpc'[r] = "card_write" /\ IsOK(down[c][1])
        \/ rpc'[r] = "uid_wait"
    BY <1>1, <1>8, <2>1, <2>2, <2>5 DEF UidAccepted, UidReadPast, NextReply, ReaderTypeOK
  <2>7. ~Reporting(r) /\ ~Reporting(r)'
    BY <2>1, <2>6 DEF Reporting
  <2>8. ReportOK(r)'
    BY <1>2, <2>1, <2>2, <2>3, <2>4, <2>5, <2>6, <2>7 DEF ReportOK
  <2> QED
    BY <1>4, <1>5, <2>1, <2>7, <2>8
<1>9. CASE KeySend(r)
  <2> DEFINE m == NewCardKey(ruid[r], rkey[r])
  <2>1. rpc[r] = "key_send" /\ rpc'[r] = "key_wait" /\ UNCHANGED <<card, link, ruid, rkey>>
    BY <1>1, <1>9 DEF KeySend, Write, WriteLost, Skip, Step, ReaderTypeOK
  <2>2. PICK c \in Links : c = link[r] /\ c # None
    BY <2>1, LinkOf DEF Connected
  <2>3. open[c] /\ Unanswered(c) = 0
    BY <2>1, <2>2, CalmLockStep DEF Waiting
  <2>4. up[c] = << >> /\ at[c] = "idle"
    BY <2>2, <2>3, UnansweredIsNat
  <2>5. up'[c] = << m >>
    BY <1>9, <2>2, <2>3, <2>4 DEF KeySend, Write, WriteLost, Send, TypeOK, WireTypeOK
  <2>6. Reporting(r) /\ Reporting(r)'
    <3>1. << m >> # << >>
      OBVIOUS
    <3> QED
      BY <2>1, <2>2, <2>5, <3>1 DEF Reporting
  <2>7. Reportable(r)'
    BY <1>1, <1>2, <1>4, <2>1, <2>6 DEF ReportOK, Reportable, HoldsCurrentKey
  <2>8. ReportOf(r, c)'
    BY <1>2, <2>1, <2>4, <2>5 DEF ReportOf
  <2>9. ReportOK(r)'
    BY <2>1, <2>2, <2>7, <2>8 DEF ReportOK
  <2> QED
    BY <1>4, <1>5, <2>1, <2>6, <2>9
<1>10. ~KeySendFails(r)
  <2> SUFFICES ASSUME KeySendFails(r)
               PROVE  FALSE
    OBVIOUS
  <2>1. rpc[r] = "key_send" /\ ~open[link[r]]
    BY DEF KeySendFails, Step
  <2> QED
    BY <2>1, LinkOf DEF Connected, CalmInv
<1>11. CASE KeyRefused(r) \/ KeyAnswered(r) \/ (MayTimeOut(r) /\ KeyTimeout(r))
  <2>1. /\ rpc[r] = "key_wait" /\ rpc'[r] \in {"red", "beat_send"} /\ card' = card
    BY <1>1, <1>11 DEF KeyRefused, KeyAnswered, KeyTimeout, Close, Skip, Step, Read, ReaderTypeOK
  <2>2. PICK c \in Links : c = link[r] /\ c # None
    BY <2>1, LinkOf DEF Connected
  <2>3. up[c] = << >> /\ at[c] = "idle"
    <3>1. CASE down[c] # << >>
      <4>1. Unanswered(c) <= 1
        BY <2>1, <2>2, CalmLockStep DEF Waiting
      <4> QED
        BY <2>2, <3>1, <4>1, OneUnderWay
    <3>2. CASE MayTimeOut(r)
      BY <2>1, <2>2, <3>2, CalmIsSteady, AllIsBase, SteadyTimeouts DEF NothingToAnswer,
         Connected
    <3> QED
      BY <1>11, <2>2, <3>1, <3>2 DEF KeyRefused, KeyAnswered, Read, Receive
  <2>4. ~Reporting(r) /\ ~Reporting(r)'
    BY <2>1, <2>2, <2>3 DEF Reporting
  <2> QED
    BY <1>4, <1>5, <2>1, <2>4 DEF ReportOK
<1>12. CASE /\ rpc[r] \notin {"card_write", "key_send", "key_wait"}
            /\ rpc'[r] \notin {"uid_wait", "card_write", "key_send", "key_wait"}
            /\ card' = card
  <2>1. ~Reporting(r) /\ ~Reporting(r)'
    BY <1>12 DEF Reporting
  <2> QED
    BY <1>4, <1>5, <1>12, <2>1 DEF ReportOK
<1>13. ASSUME ~CardWrite(r), ~UidSend(r), ~UidAccepted(r, FreshKeys), ~UidReadPast(r),
              ~KeySend(r), ~KeyRefused(r), ~KeyAnswered(r),
              ~(MayTimeOut(r) /\ KeyTimeout(r))
       PROVE  /\ rpc[r] \notin {"card_write", "key_send", "key_wait"}
              /\ rpc'[r] \notin {"uid_wait", "card_write", "key_send", "key_wait"}
              /\ card' = card
  <2>1. CASE TaskStep(r)
    BY <1>1, <2>1 DEF TaskStep, Poll, PollFails, ReadBlock, ReadBlockFails, Blink, Skip, Step,
       ReaderTypeOK
  <2>2. CASE ConnectToServer(r) \/ ConnectFails(r)
    BY <1>1, <2>2 DEF ConnectToServer, Connect, ConnectFails, Skip, Step, ReaderTypeOK
  <2>3. CASE UidSendFails(r) \/ UidTimeout(r)
    BY <1>1, <2>3 DEF UidSendFails, UidTimeout, Close, ReaderTypeOK
  <2>4. CASE BeatSend(r) \/ BeatAgain(r)
    BY <1>1, <2>4 DEF BeatSend, BeatAgain, Write, WriteLost, Skip, Step, Read, ReaderTypeOK
  <2>5. CASE BeatPass(r) \/ BeatLimit(r) \/ BeatTimeout(r)
    BY <1>1, <2>5 DEF BeatPass, BeatLimit, BeatTimeout, Close, ReaderTypeOK
  <2> QED
    BY <1>3, <1>10, <1>13, <2>1, <2>2, <2>3, <2>4, <2>5 DEF SessionStep, ReadReturnsNothing
<1> QED
  BY <1>6, <1>7, <1>8, <1>9, <1>11, <1>12, <1>13

-----------------------------------------------------------------------------
(* The theorems without faults of network and server.                        *)

LEMMA CalmStep ==
    ASSUME Calm, OneDoor, Pipeline >= 2, AllInv, CalmInv, SyncInv,
           RegistrationInv, [SystemNext]_system_vars
    PROVE  AllInv' /\ CalmInv' /\ SyncInv'
<1>1. AllInv' /\ TypeOK'
  BY KeyStep, CalmIsSteady DEF AllInv
<1>2. ASSUME NEW r \in Readers, ReaderStep(r)
      PROVE  CalmInv' /\ SyncInv'
  BY <1>2, CalmReaderStep, SyncReaderStep
<1>3. ASSUME NEW c \in Links, HandlerStep(c)
      PROVE  CalmInv' /\ SyncInv'
  BY <1>1, <1>3, CalmOtherStep, SyncHandlerStep
<1>4. ASSUME \/ ServerRestarts
             \/ \E c \in Links : BrowserStep(c) \/ Drop(c) \/ LeftoverStep(c)
             \/ \E r \in Readers : DoorStep(r)
             \/ UNCHANGED system_vars
      PROVE  CalmInv' /\ SyncInv'
  BY <1>1, <1>4, CalmOtherStep, SyncOtherStep
<1> QED
  BY <1>1, <1>2, <1>3, <1>4 DEF SystemNext

LEMMA CalmInvariant ==
    ASSUME Calm, OneDoor, Pipeline >= 2
    PROVE  SystemSpec => [](AllInv /\ CalmInv /\ SyncInv)
<1> DEFINE Inv == AllInv /\ CalmInv /\ SyncInv
<1>1. SystemInit => Inv
  BY InitTypes, ReaderInvInit, SteadyInvInit, KeyInvInit, CalmInvInit, SyncInvInit
  DEF SystemInit, AllInv
<1>2. SystemSpec => []RegistrationInv
  <2>1. "server_crash" \notin Faults
    BY DEF Calm
  <2> QED
    BY <2>1, CalmIsSteady, SystemImplementsSerial, RegistrationInvariant, PTL
<1>3. Inv /\ RegistrationInv /\ [SystemNext]_system_vars => Inv'
  BY CalmStep
<1> QED
  BY <1>1, <1>2, <1>3, PTL DEF SystemSpec

LEMMA OutOfSession ==
    ASSUME OneDoor, SyncInv, NEW uid \in Uids, Known(cards, uid), ~InSession(uid)
    PROVE  Synced(uid)
<1>1. PICK r \in Readers : TRUE
  BY DEF OneDoor
<1>2. ~(Reporting(r) /\ ruid[r] = uid)
  BY DEF Reporting, InSession, Beating
<1> QED
  BY <1>1, <1>2 DEF SyncInv, SyncedBut

(* With one reader, and network and server at work, a registered card never  *)
(* locks itself out: between sessions it holds the key that the server will  *)
(* ask for, unless it was gone when its new key was to be written            *)
(* (tls_connection.c:162-206, https_server.go:129-142, card_reader.c:18-39). *)
THEOREM CardsStayInSync ==
    ASSUME Calm, OneDoor, Pipeline >= 2
    PROVE  SystemSpec => []KeyInSync
<1>1. SyncInv => KeyInSync
  BY OutOfSession DEF KeyInSync, Synced
<1> QED
  BY <1>1, CalmInvariant, PTL

(* Of a card that was gone too soon the server still keeps the key, as this  *)
(* or as the last one (db2.go:164-179).                                      *)
THEOREM KeysRecoverable ==
    ASSUME Calm, OneDoor, Pipeline >= 2
    PROVE  SystemSpec => []KeyRecoverable
<1>1. SyncInv => KeyRecoverable
  BY OutOfSession DEF KeyRecoverable, Synced
<1> QED
  BY <1>1, CalmInvariant, PTL

(* There every answer is the one to the request that waits for it: no read   *)
(* has given up on one that was still to come (tls_connection.c:189-239).    *)
THEOREM RepliesMatchWhenCalm ==
    ASSUME Calm, OneDoor, Pipeline >= 2
    PROVE  SystemSpec => []ReplyMatchesRequest
<1>1. AllInv /\ RepliesInStep => ReplyMatchesRequest
  BY DEF AllInv, SteadyInv, RepliesInStep, ReplyMatchesRequest
<1> QED
  BY <1>1, CalmInvariant, AnswersInStep, PTL

=============================================================================
