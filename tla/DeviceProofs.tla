---------------------------- MODULE DeviceProofs ----------------------------
(* Theorems about Startup.tla, for any limits of retries, about Leds.tla,    *)
(* for any number of tasks, colours and rounds, and about Device.tla: a step *)
(* of the device is a step of Startup.tla, of Leds.tla or of both, so what   *)
(* is proved of either holds of the whole.                                   *)
EXTENDS Device, SequenceTheorems, TLAPS

-----------------------------------------------------------------------------
(* Start-up.                                                                 *)

(* The strengthening: what may be in the queue of event_handler, by the      *)
(* state of the link, and how many failures s_retry_num then has not counted.*)
Up ==
    /\ link # "off"
    /\ pc # "start"
    /\ \/ events = << >> /\ failures = s_retry_num
       \/ events = <<"GOT_IP">> /\ link = "online" /\ failures = 0

GaveUp == "FAIL" \in bits /\ failures = MaximumRetry + 1

Down ==
    /\ link = "off"
    /\ \/ events = << >> /\ pc = "start" /\ failures = 0 /\ s_retry_num = 0
       \/ events = << >> /\ pc # "start" /\ GaveUp
       \/ events = <<"START">> /\ pc # "start" /\ failures = 0 /\ s_retry_num = 0
       \/ events = <<"DISCONNECTED">> /\ pc # "start" /\ failures = s_retry_num + 1
       \/ events = <<"GOT_IP", "DISCONNECTED">> /\ pc # "start" /\ failures = 1

Fields ==
    /\ ap \in BOOLEAN
    /\ link \in Links
    /\ s_retry_num \in 0 .. MaximumRetry
    /\ bits \subseteq {"CONNECTED", "FAIL"}
    /\ pc \in {"start", "wait", "time", "nfc"}
    /\ retry \in 0 .. retry_count
    /\ pc = "time" => retry < retry_count
    /\ pc \in {"start", "wait"} => retry = 0 /\ timeinfo = FALSE
    /\ clock \in BOOLEAN
    /\ timeinfo \in BOOLEAN

Counts == Fields /\ (Up \/ Down)

-----------------------------------------------------------------------------
(* The queues that occur.                                                    *)
LEMMA Queues ==
    /\ \A x : /\ Append(<< >>, x) = <<x>>
              /\ Head(<<x>>) = x
              /\ Tail(<<x>>) = << >>
              /\ <<x>> # << >>
    /\ \A x, y : /\ Append(<<x>>, y) = <<x, y>>
                 /\ Head(<<x, y>>) = x
                 /\ Tail(<<x, y>>) = <<y>>
                 /\ <<x, y>> # << >>
<1>1. ASSUME NEW x
      PROVE  /\ Append(<< >>, x) = <<x>>
             /\ Head(<<x>>) = x
             /\ Tail(<<x>>) = << >>
             /\ <<x>> # << >>
  OBVIOUS
<1>2. ASSUME NEW x, NEW y
      PROVE  Append(<<x>>, y) = <<x, y>>
  <2>1. /\ <<x, y>> \in Seq({x, y}) /\ Len(<<x, y>>) = 2
        /\ <<x, y>>[1] = x /\ <<x, y>>[2] = y
    OBVIOUS
  <2>2. <<x>> \in Seq({x, y}) /\ Len(<<x>>) = 1 /\ <<x>>[1] = x
    OBVIOUS
  <2>3. /\ Append(<<x>>, y) \in Seq({x, y}) /\ Len(Append(<<x>>, y)) = 2
        /\ Append(<<x>>, y)[1] = x /\ Append(<<x>>, y)[2] = y
    BY <2>2
  <2>4. \A i \in 1 .. 2 : Append(<<x>>, y)[i] = <<x, y>>[i]
    BY <2>1, <2>3
  <2> QED
    BY <2>1, <2>3, <2>4, SeqEqual
<1>3. ASSUME NEW x, NEW y
      PROVE  /\ Head(<<x, y>>) = x
             /\ Tail(<<x, y>>) = <<y>>
             /\ <<x, y>> # << >>
  OBVIOUS
<1> QED
  BY <1>1, <1>2, <1>3, Zenon

LEMMA QueuesAreShort ==
    ASSUME NEW q, q \in {<< >>, <<"START">>, <<"GOT_IP">>, <<"DISCONNECTED">>,
                         <<"GOT_IP", "DISCONNECTED">>}
    PROVE  q \in Seq(Events) /\ Len(q) <= 2
<1>1. << >> \in Seq(Events) /\ Len(<< >>) = 0
  OBVIOUS
<1>2. \A x \in Events : <<x>> \in Seq(Events) /\ Len(<<x>>) = 1
  OBVIOUS
<1>3. \A x, y \in Events : <<x, y>> \in Seq(Events) /\ Len(<<x, y>>) = 2
  OBVIOUS
<1>4. "START" \in Events /\ "GOT_IP" \in Events /\ "DISCONNECTED" \in Events
  BY DEF Events
<1>5. q = << >> => q \in Seq(Events) /\ Len(q) <= 2
  BY <1>1
<1>6. q = <<"START">> => q \in Seq(Events) /\ Len(q) <= 2
  BY <1>2, <1>4
<1>7. q = <<"GOT_IP">> => q \in Seq(Events) /\ Len(q) <= 2
  BY <1>2, <1>4
<1>8. q = <<"DISCONNECTED">> => q \in Seq(Events) /\ Len(q) <= 2
  BY <1>2, <1>4
<1>9. q = <<"GOT_IP", "DISCONNECTED">> => q \in Seq(Events) /\ Len(q) <= 2
  BY <1>3, <1>4
<1> QED
  BY <1>5, <1>6, <1>7, <1>8, <1>9, Zenon

LEMMA CountsInit == StartupInit => Counts
<1> SUFFICES ASSUME StartupInit
             PROVE  Counts
  OBVIOUS
<1>1. retry \in 0 .. retry_count /\ s_retry_num \in 0 .. MaximumRetry
  BY StartupAssumption DEF StartupInit
<1>2. timeinfo \in BOOLEAN /\ link \in Links
  BY DEF StartupInit, Links
<1>3. Fields
  BY <1>1, <1>2 DEF StartupInit, Fields
<1> QED
  BY <1>3 DEF StartupInit, Counts, Down

LEMMA DriverStep ==
    ASSUME Counts, Driver
    PROVE  Counts'
<1>1. CASE Associates
  BY <1>1 DEF Associates, Counts, Fields, Up, Down, GaveUp, Links, handler_vars, main_vars
<1>2. CASE GetsIP
  <2>1. link = "associated" /\ Up
    BY <1>2 DEF GetsIP, Counts, Down
  <2>2. events' = <<"GOT_IP">>
    BY <1>2, <2>1, Queues DEF GetsIP, Up
  <2> QED
    BY <1>2, <2>1, <2>2 DEF GetsIP, Counts, Fields, Up, Links, handler_vars, main_vars
<1>3. CASE Disconnects
  <2>1. Up /\ link' = "off" /\ failures' = failures + 1
    BY <1>3 DEF Disconnects, Counts, Down
  <2>2. \/ events' = <<"DISCONNECTED">> /\ failures = s_retry_num
        \/ events' = <<"GOT_IP", "DISCONNECTED">> /\ failures = 0
    BY <1>3, <2>1, Queues DEF Disconnects, Up
  <2>3. pc' # "start" /\ s_retry_num' = s_retry_num
    BY <1>3, <2>1 DEF Disconnects, Up, handler_vars, main_vars
  <2>4. Down'
    BY <2>1, <2>2, <2>3 DEF Down
  <2> QED
    BY <1>3, <2>1, <2>4 DEF Disconnects, Counts, Fields, Links, handler_vars, main_vars
<1> QED
  BY <1>1, <1>2, <1>3 DEF Driver

LEMMA HandlerStep ==
    ASSUME Counts, Handler
    PROVE  Counts'
<1>1. CASE HandleStart
  <2>1. Down /\ events = <<"START">>
    BY <1>1, Queues DEF HandleStart, Handles, Counts, Up, Down
  <2>2. events' = << >> /\ failures' = 0 /\ s_retry_num' = 0 /\ pc' # "start"
    BY <1>1, <2>1, Queues DEF HandleStart, Handles, Down, handler_vars, main_vars
  <2> QED
    BY <1>1, <2>2 DEF HandleStart, Handles, esp_wifi_connect, Counts, Fields, Up, Links,
                       handler_vars, main_vars
<1>2. CASE HandleGotIP
  <2>1. events \in {<<"GOT_IP">>, <<"GOT_IP", "DISCONNECTED">>}
    BY <1>2, Queues DEF HandleGotIP, Handles, Counts, Up, Down
  <2>2. s_retry_num' = 0 /\ link' = link /\ failures' = failures /\ pc' = pc
    BY <1>2 DEF HandleGotIP, Handles, main_vars
  <2>3. CASE events = <<"GOT_IP">>
    <3>1. events' = << >> /\ Up
      BY <1>2, <2>3, Queues DEF HandleGotIP, Handles, Counts, Down
    <3>2. failures = 0
      BY <2>3, <3>1, Queues DEF Up
    <3>3. Up'
      BY <2>2, <3>1, <3>2 DEF Up
    <3> QED
      BY <1>2, <3>3, StartupAssumption DEF HandleGotIP, Handles, Counts, Fields, main_vars
  <2>4. CASE events = <<"GOT_IP", "DISCONNECTED">>
    <3>1. events' = <<"DISCONNECTED">>
      BY <1>2, <2>4, Queues DEF HandleGotIP, Handles
    <3>2. link = "off" /\ failures = 1 /\ pc # "start"
      BY <2>4 DEF Counts, Up, Down
    <3>3. Down'
      BY <2>2, <3>1, <3>2 DEF Down
    <3> QED
      BY <1>2, <3>3, StartupAssumption DEF HandleGotIP, Handles, Counts, Fields, main_vars
  <2> QED
    BY <2>1, <2>3, <2>4
<1>3. CASE HandleDisconnected
  <2>1. Down /\ events = <<"DISCONNECTED">>
    BY <1>3, Queues DEF HandleDisconnected, Handles, Counts, Up, Down
  <2>2. failures = s_retry_num + 1 /\ pc # "start" /\ link = "off"
    BY <2>1, Queues DEF Down
  <2>3. events' = << >> /\ failures' = failures /\ pc' = pc
    BY <1>3, <2>1, Queues DEF HandleDisconnected, Handles, main_vars
  <2>4. CASE Retry
    <3>1. Up'
      BY <2>2, <2>3, <2>4 DEF Retry, esp_wifi_connect, Up
    <3>2. s_retry_num' \in 0 .. MaximumRetry /\ link' \in Links /\ bits' = bits
      BY <2>4, StartupAssumption DEF Retry, esp_wifi_connect, Counts, Fields, Links
    <3> QED
      BY <1>3, <3>1, <3>2 DEF HandleDisconnected, Handles, Counts, Fields, main_vars
  <2>5. CASE GiveUp
    <3>1. s_retry_num = MaximumRetry
      BY <2>5, StartupAssumption DEF GiveUp, Counts, Fields
    <3>2. Down'
      BY <2>2, <2>3, <2>5, <3>1 DEF GiveUp, Down, GaveUp
    <3>3. s_retry_num' = s_retry_num /\ link' = link /\ bits' \subseteq {"CONNECTED", "FAIL"}
      BY <2>5 DEF GiveUp, Counts, Fields
    <3> QED
      BY <1>3, <3>2, <3>3 DEF HandleDisconnected, Handles, Counts, Fields, main_vars
  <2> QED
    BY <1>3, <2>4, <2>5 DEF HandleDisconnected
<1> QED
  BY <1>1, <1>2, <1>3 DEF Handler

LEMMA MainStep ==
    ASSUME Counts, app_main
    PROVE  Counts'
<1>1. CASE wifi_connect
  <2>1. Down /\ events = << >> /\ failures = 0 /\ s_retry_num = 0
    BY <1>1, Queues DEF wifi_connect, Counts, Up, Down
  <2>2. events' = <<"START">>
    BY <1>1, <2>1, Queues DEF wifi_connect
  <2> QED
    BY <1>1, <2>1, <2>2 DEF wifi_connect, Counts, Fields, Down, handler_vars
<1>2. CASE BitsAreSet
  <2>1. pc' = "time" /\ pc = "wait"
    BY <1>2 DEF BitsAreSet
  <2>2. (Up \/ Down)'
    BY <1>2, <2>1 DEF BitsAreSet, Counts, Up, Down, GaveUp, wifi_vars, handler_vars
  <2> QED
    BY <1>2, <2>1, <2>2, StartupAssumption
       DEF BitsAreSet, Counts, Fields, wifi_vars, handler_vars
<1>3. CASE obtain_time
  <2>1. pc = "time" /\ pc' \in {"time", "nfc"}
    BY <1>3 DEF obtain_time
  <2>2. (Up \/ Down)'
    BY <1>3, <2>1 DEF obtain_time, Counts, Up, Down, GaveUp, wifi_vars, handler_vars
  <2>3. /\ retry' \in 0 .. retry_count
        /\ pc' = "time" => retry' < retry_count
        /\ timeinfo' \in BOOLEAN
    BY <1>3, <2>1, StartupAssumption DEF obtain_time, Counts, Fields
  <2> QED
    BY <1>3, <2>1, <2>2, <2>3 DEF obtain_time, Counts, Fields, wifi_vars, handler_vars
<1> QED
  BY <1>1, <1>2, <1>3 DEF app_main

LEMMA CountsStep == Counts /\ [StartupNext]_startup_vars => Counts'
<1> SUFFICES ASSUME Counts, [StartupNext]_startup_vars
             PROVE  Counts'
  OBVIOUS
<1>1. CASE AccessPointChanges \/ SNTPAnswers \/ UNCHANGED startup_vars
  BY <1>1 DEF AccessPointChanges, SNTPAnswers, startup_vars, wifi_vars, handler_vars,
              main_vars, Counts, Fields, Up, Down, GaveUp
<1> QED
  BY <1>1, DriverStep, HandlerStep, MainStep DEF StartupNext

LEMMA Counting == StartupSpec => []Counts
<1> QED
  BY CountsInit, CountsStep, PTL DEF StartupSpec

(* The queue holds at most two events, and no count passes its limit.        *)
THEOREM StartupWellTyped == StartupSpec => []StartupTypeOK
<1>1. ASSUME Counts
      PROVE  StartupTypeOK
  <2>1. events \in Seq(Events) /\ Len(events) <= 2
    BY <1>1, QueuesAreShort DEF Counts, Up, Down
  <2>2. failures \in 0 .. MaximumRetry + 1
    BY <1>1, StartupAssumption DEF Counts, Fields, Up, Down, GaveUp
  <2> QED
    BY <1>1, <2>1, <2>2 DEF StartupTypeOK, Counts, Fields
<1> QED
  BY <1>1, Counting, PTL

(* The reader stops trying to connect only after as many failures in a row   *)
(* as it is allowed, whatever that number is (wifi_connect.c:29-48).         *)
THEOREM GivesUpOnlyWhenExhausted == StartupSpec => []StopsOnlyWhenExhausted
<1>1. ASSUME Counts
      PROVE  StopsOnlyWhenExhausted
  BY <1>1, Queues DEF Counts, Up, Down, GaveUp, StopsOnlyWhenExhausted, Idle
<1> QED
  BY <1>1, Counting, PTL

-----------------------------------------------------------------------------
(* The LEDs.                                                                 *)

LEMMA TypeInit == LedsInit => LedsTypeOK
BY DEF LedsInit, LedsTypeOK

(* The position of a task stays within its loop, and None ends it.           *)
LEMMA AfterInRange ==
    ASSUME NEW t \in Tasks
    PROVE  /\ After(t) \in Tasks \cup {None}
           /\ After(t) # None => After(t).colour = t.colour
           /\ Sets(t) \in {0, 1}
           /\ After(t) = None => Sets(t) = 0
<1>1. t \in [colour: Colours, i: Nat] /\ t.i <= 2 * Rounds[t.colour]
  BY DEF Tasks
<1>2. Rounds[t.colour] \in Nat /\ None \notin [colour: Colours, i: Nat]
  BY <1>1, LedsAssumption
<1>3. CASE Ends(t)
  BY <1>3 DEF After, Sets
<1>4. CASE ~Ends(t)
  <2>1. t.i < 2 * Rounds[t.colour]
    BY <1>1, <1>2, <1>4 DEF Ends
  <2>2. After(t) = [t EXCEPT !.i = t.i + 1]
    BY <1>4 DEF After
  <2>3. After(t) \in Tasks /\ After(t).colour = t.colour
    BY <1>1, <1>2, <2>1, <2>2 DEF Tasks
  <2>4. Sets(t) = t.i % 2 /\ t.i \in Nat
    BY <1>1, <1>4 DEF Sets
  <2> QED
    BY <1>2, <2>3, <2>4 DEF Tasks
<1> QED
  BY <1>3, <1>4

LEMMA TypeStep == LedsTypeOK /\ [LedsNext]_leds_vars => LedsTypeOK'
<1> SUFFICES ASSUME LedsTypeOK, [LedsNext]_leds_vars
             PROVE  LedsTypeOK'
  OBVIOUS
<1>1. ASSUME NEW c \in Colours, Blink(c)
      PROVE  LedsTypeOK'
  <2>1. [colour |-> c, i |-> 0] \in Tasks
    BY LedsAssumption DEF Tasks
  <2> QED
    BY <1>1, <2>1 DEF Blink, LedsTypeOK
<1>2. ASSUME NEW s \in Slots, BlinkStep(s)
      PROVE  LedsTypeOK'
  <2>1. task[s] \in Tasks
    BY <1>2 DEF BlinkStep, LedsTypeOK
  <2>2. /\ After(task[s]) \in Tasks \cup {None}
        /\ Sets(task[s]) \in {0, 1}
    BY <2>1, AfterInRange
  <2> QED
    BY <1>2, <2>2 DEF BlinkStep, LedsTypeOK
<1>3. CASE UNCHANGED leds_vars
  BY <1>3 DEF leds_vars, LedsTypeOK
<1> QED
  BY <1>1, <1>2, <1>3 DEF LedsNext

(* Levels are 0 or 1, and a task stays within its loop (card_reader.c:55).   *)
THEOREM LedsWellTyped == LedsSpec => []LedsTypeOK
<1> QED
  BY TypeInit, TypeStep, PTL DEF LedsSpec

-----------------------------------------------------------------------------
(* A step of a blink task of a colour leaves either itself or a dark LED; it *)
(* does not touch another colour.                                            *)
LEMMA DarkStep ==
    LedsTypeOK /\ DarkWhenDone /\ [LedsNext]_leds_vars => DarkWhenDone'
<1> SUFFICES ASSUME LedsTypeOK, DarkWhenDone, [LedsNext]_leds_vars,
                    NEW c \in Colours,
                    \A s \in Slots : task'[s] # None => task'[s].colour # c
             PROVE  level'[c] = 0
  BY DEF DarkWhenDone
<1>1. ASSUME NEW d \in Colours, Blink(d)
      PROVE  level'[c] = 0
  <2>1. \A s \in Slots : task[s] # None => task'[s] = task[s]
    BY <1>1 DEF Blink, LedsTypeOK
  <2>2. \A s \in Slots : task[s] # None => task[s].colour # c
    BY <2>1
  <2> QED
    BY <1>1, <2>2 DEF Blink, DarkWhenDone
<1>2. ASSUME NEW s \in Slots, BlinkStep(s)
      PROVE  level'[c] = 0
  <2>1. task[s] \in Tasks /\ task[s] # None
    BY <1>2 DEF BlinkStep, LedsTypeOK
  <2>2. task'[s] = After(task[s]) /\ \A r \in Slots \ {s} : task'[r] = task[r]
    BY <1>2 DEF BlinkStep, LedsTypeOK
  <2>3. level' = [level EXCEPT ![task[s].colour] = Sets(task[s])]
    BY <1>2 DEF BlinkStep
  <2>4. CASE task[s].colour = c
    <3>1. After(task[s]) = None
      BY <2>1, <2>2, <2>4, AfterInRange
    <3> QED
      BY <2>1, <2>3, <2>4, <3>1, AfterInRange DEF LedsTypeOK
  <2>5. CASE task[s].colour # c
    <3>1. \A r \in Slots : task[r] # None => task[r].colour # c
      BY <2>2, <2>5
    <3> QED
      BY <2>3, <2>5, <3>1 DEF DarkWhenDone, LedsTypeOK
  <2> QED
    BY <2>4, <2>5
<1>3. CASE UNCHANGED leds_vars
  BY <1>3 DEF leds_vars, DarkWhenDone
<1> QED
  BY <1>1, <1>2, <1>3 DEF LedsNext

(* However many blink tasks pile up, overlap or cannot be started, an LED    *)
(* without a task is dark (card_reader.c:51-92).                             *)
THEOREM NoneLeftShining == LedsSpec => []DarkWhenDone
<1>1. LedsInit => DarkWhenDone
  BY DEF LedsInit, DarkWhenDone
<1> QED
  BY <1>1, DarkStep, LedsWellTyped, PTL DEF LedsSpec

-----------------------------------------------------------------------------
(* The device.                                                               *)

LEMMA DeviceRunsBoth == DeviceSpec => StartupSpec /\ LedsSpec
<1>1. DeviceInit => StartupInit /\ LedsInit
  BY DEF DeviceInit
<1>2. [DeviceNext]_device_vars => [StartupNext]_startup_vars /\ [LedsNext]_leds_vars
  BY DEF DeviceNext, Network, Turn, BlinkTasks, LedsNext, device_vars
<1> QED
  BY <1>1, <1>2, PTL DEF DeviceSpec, StartupSpec, LedsSpec

(* Type correctness of the device, for any limits, colours and tasks.        *)
THEOREM DeviceWellTyped == DeviceSpec => []DeviceTypeOK
<1>1. StartupTypeOK /\ LedsTypeOK => DeviceTypeOK
  BY DEF DeviceTypeOK
<1> QED
  BY <1>1, DeviceRunsBoth, StartupWellTyped, LedsWellTyped, PTL

(* The blink tasks of the loop that the start ends in do not disturb the     *)
(* count of attempts, nor does the network keep an LED shining               *)
(* (main.c:80-228, wifi_connect.c:24-49, card_reader.c:51-92).               *)
THEOREM DeviceKeepsPromises == DeviceSpec => [](StopsOnlyWhenExhausted /\ DarkWhenDone)
<1> QED
  BY DeviceRunsBoth, GivesUpOnlyWhenExhausted, NoneLeftShining, PTL
=============================================================================
