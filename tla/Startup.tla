------------------------------ MODULE Startup ------------------------------
(* The start of the reader: app_main (main.c) starts the Wi-Fi, waits for    *)
(* it (wifi_connect.c), waits for the time, and starts nfc_task in any case; *)
(* event_handler keeps the connection up for as long as the device runs.     *)
(* The driver and the access point are the environment; it tells the event   *)
(* loop of what happens through a queue.                                     *)
EXTENDS Naturals, Sequences

CONSTANTS
    MaximumRetry,  \* EXAMPLE_ESP_MAXIMUM_RETRY: 10
    retry_count    \* of obtain_time: 10

ASSUME StartupAssumption == MaximumRetry \in Nat /\ retry_count \in Nat \ {0}

VARIABLES
    ap,           \* the access point is there
    link,         \* "off", "trying" to associate, "associated", "online"
    events,       \* what event_handler has yet to be called with
    s_retry_num,
    bits,         \* of s_wifi_event_group
    pc,           \* app_main: "start", "wait" for bits, "time", "nfc" started
    retry,        \* of obtain_time
    clock,        \* the system time is set
    timeinfo,     \* obtain_time has read a time that is set
    failures      \* auxiliary: failed attempts and losses since the last IP

wifi_vars == <<ap, link, events, failures>>
handler_vars == <<s_retry_num, bits>>
main_vars == <<pc, retry, timeinfo>>
startup_vars == <<wifi_vars, handler_vars, main_vars, clock>>

Links  == {"off", "trying", "associated", "online"}
Events == {"START", "DISCONNECTED", "GOT_IP"}

StartupTypeOK ==
    /\ ap \in BOOLEAN
    /\ link \in Links
    /\ events \in Seq(Events)
    /\ Len(events) <= 2
    /\ s_retry_num \in 0 .. MaximumRetry
    /\ bits \subseteq {"CONNECTED", "FAIL"}
    /\ pc \in {"start", "wait", "time", "nfc"}
    /\ retry \in 0 .. retry_count
    /\ clock \in BOOLEAN
    /\ timeinfo \in BOOLEAN
    /\ failures \in 0 .. MaximumRetry + 1

(* The clock survives a reset that is not a power failure.                   *)
StartupInit ==
    /\ ap \in BOOLEAN
    /\ link = "off"
    /\ events = << >>
    /\ s_retry_num = 0
    /\ bits = {}
    /\ pc = "start"
    /\ retry = 0
    /\ clock \in BOOLEAN
    /\ timeinfo = FALSE
    /\ failures = 0

-----------------------------------------------------------------------------
(* The driver and the access point.                                          *)

AccessPointChanges ==
    /\ ap' = ~ap
    /\ UNCHANGED <<link, events, failures, handler_vars, main_vars, clock>>

Associates ==
    /\ link = "trying"
    /\ ap
    /\ link' = "associated"
    /\ UNCHANGED <<ap, events, failures, handler_vars, main_vars, clock>>

GetsIP ==
    /\ link = "associated"
    /\ ap
    /\ link' = "online"
    /\ events' = Append(events, "GOT_IP")
    /\ failures' = 0
    /\ UNCHANGED <<ap, handler_vars, main_vars, clock>>

(* An attempt fails, or a connection is lost, without the access point.      *)
Disconnects ==
    /\ link # "off"
    /\ ~ap
    /\ link' = "off"
    /\ events' = Append(events, "DISCONNECTED")
    /\ failures' = failures + 1
    /\ UNCHANGED <<ap, handler_vars, main_vars, clock>>

SNTPAnswers ==
    /\ link = "online"
    /\ pc \in {"time", "nfc"}
    /\ clock' = TRUE
    /\ UNCHANGED <<wifi_vars, handler_vars, main_vars>>

Driver == Associates \/ GetsIP \/ Disconnects

-----------------------------------------------------------------------------
(* event_handler, one call per event.                                        *)

esp_wifi_connect == link' = "trying"

Handles(event) ==
    /\ events # << >>
    /\ Head(events) = event
    /\ events' = Tail(events)
    /\ UNCHANGED <<ap, failures, main_vars, clock>>

HandleStart ==
    /\ Handles("START")
    /\ esp_wifi_connect
    /\ UNCHANGED handler_vars

(* Mutant: the attempt is counted and not made.                              *)
RetryWithoutConnect ==
    /\ s_retry_num < MaximumRetry
    /\ s_retry_num' = s_retry_num + 1
    /\ UNCHANGED <<bits, link>>

(* Mutant: one attempt too many.                                             *)
RetryAtLimit ==
    /\ s_retry_num <= MaximumRetry
    /\ esp_wifi_connect
    /\ s_retry_num' = s_retry_num + 1
    /\ UNCHANGED bits

Retry ==
    /\ s_retry_num < MaximumRetry
    /\ esp_wifi_connect
    /\ s_retry_num' = s_retry_num + 1
    /\ UNCHANGED bits

(* Mutant: nobody is told.                                                   *)
GiveUpSilently ==
    /\ s_retry_num >= MaximumRetry
    /\ UNCHANGED <<s_retry_num, bits, link>>

GiveUp ==
    /\ s_retry_num >= MaximumRetry
    /\ bits' = bits \cup {"FAIL"}
    /\ UNCHANGED <<s_retry_num, link>>

HandleDisconnected ==
    /\ Handles("DISCONNECTED")
    /\ Retry \/ GiveUp

(* Mutant: s_retry_num is not reset.                                         *)
HandleGotIPKeepsCount ==
    /\ Handles("GOT_IP")
    /\ bits' = bits \cup {"CONNECTED"}
    /\ UNCHANGED <<link, s_retry_num>>

HandleGotIP ==
    /\ Handles("GOT_IP")
    /\ s_retry_num' = 0
    /\ bits' = bits \cup {"CONNECTED"}
    /\ UNCHANGED link

Handler == HandleStart \/ HandleDisconnected \/ HandleGotIP

-----------------------------------------------------------------------------
(* app_main.                                                                 *)

(* wifi_connect up to esp_wifi_start.                                        *)
wifi_connect ==
    /\ pc = "start"
    /\ pc' = "wait"
    /\ events' = Append(events, "START")
    /\ UNCHANGED <<ap, link, failures, handler_vars, retry, timeinfo, clock>>

(* Whichever bit it was, the start goes on.                                  *)
BitsAreSet ==
    /\ pc = "wait"
    /\ bits # {}
    /\ pc' = "time"
    /\ UNCHANGED <<wifi_vars, handler_vars, retry, timeinfo, clock>>

(* One round of the loop; ++retry is evaluated only without a time.          *)
obtain_time ==
    /\ pc = "time"
    /\ \/ /\ ~timeinfo
          /\ retry' = retry + 1
          /\ IF retry' < retry_count THEN timeinfo' = clock /\ pc' = pc
                                     ELSE timeinfo' = timeinfo /\ pc' = "nfc"
       \/ /\ timeinfo
          /\ pc' = "nfc"
          /\ UNCHANGED <<retry, timeinfo>>
    /\ UNCHANGED <<wifi_vars, handler_vars, clock>>

app_main == wifi_connect \/ BitsAreSet \/ obtain_time

StartupNext ==
    Driver \/ AccessPointChanges \/ SNTPAnswers \/ Handler \/ app_main

StartupSpec == StartupInit /\ [][StartupNext]_startup_vars

(* The tasks of FreeRTOS run, and the driver ends what it has begun: a       *)
(* station is associated, or told that it is not, and gets its address.      *)
FairStartup ==
    /\ WF_startup_vars(app_main)
    /\ WF_startup_vars(Handler)
    /\ WF_startup_vars(Driver)

-----------------------------------------------------------------------------
Idle == pc # "start" /\ link = "off" /\ events = << >>

(* The reader stops trying to connect only when as many attempts in a row    *)
(* as it is allowed have failed, with no address got in between, and app_main*)
(* has been told (wifi_connect.c:29-48): an earlier outage costs no attempt  *)
(* of this one.                                                              *)
StopsOnlyWhenExhausted ==
    Idle => "FAIL" \in bits /\ failures = MaximumRetry + 1

(* app_main never hangs in its two waits: whatever the access point and the  *)
(* time server do, nfc_task is started (main.c:230-271).                     *)
ReaderStarts == <>(pc = "nfc")

(* Once the access point stays, the reader ends up online for good, if it    *)
(* has not given up before: events are never lost nor an attempt forgotten.  *)
OnlineAgain == <>[]ap => <>[](link = "online" \/ "FAIL" \in bits)
=============================================================================
