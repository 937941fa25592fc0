-------------------------------- MODULE Leds --------------------------------
(* The blink tasks of card_reader.c.  nfc_task starts one for every turn of  *)
(* its loop and one for every heartbeat, and waits for none: tasks of one    *)
(* colour overlap on its GPIO.  A slot is the memory of a task.              *)
EXTENDS Naturals

CONSTANTS
    Slots,    \* tasks there is memory for
    Colours,  \* "green", "red", "blue"
    Rounds,   \* Rounds[c]: 5 for green and red, 3 for blue
    None

ASSUME LedsAssumption ==
    /\ Rounds \in [Colours -> Nat \ {0}]
    /\ None \notin [colour: Colours, i: Nat]

VARIABLES
    level,  \* level[c]: of the GPIO of colour c
    task    \* task[s]: its colour, and the gpio_set_level it is at

leds_vars == <<level, task>>

Tasks == {t \in [colour: Colours, i: Nat] : t.i <= 2 * Rounds[t.colour]}

LedsTypeOK ==
    /\ level \in [Colours -> {0, 1}]
    /\ task \in [Slots -> Tasks \cup {None}]

LedsInit ==
    /\ level = [c \in Colours |-> 0]
    /\ task = [s \in Slots |-> None]

-----------------------------------------------------------------------------
(* xTaskCreate, whose failure is not noticed.                                *)
Blink(c) ==
    /\ \/ \E s \in Slots :
            /\ task[s] = None
            /\ task' = [task EXCEPT ![s] = [colour |-> c, i |-> 0]]
       \/ /\ \A s \in Slots : task[s] # None
          /\ UNCHANGED task
    /\ UNCHANGED level

Ends(t) == t.i = 2 * Rounds[t.colour]

(* Mutant: the last gpio_set_level(.., 0) is missing.                        *)
SetsLeftOn(t) == IF Ends(t) THEN level[t.colour] ELSE t.i % 2

Sets(t) == IF Ends(t) THEN 0 ELSE t.i % 2

(* Mutant: the first round begins anew.                                      *)
NextOfLoop(t) == [t EXCEPT !.i = IF Ends(t) THEN 0 ELSE t.i + 1]

After(t) == IF Ends(t) THEN None ELSE [t EXCEPT !.i = @ + 1]

(* Between two calls of gpio_set_level a task sleeps, for 100 to 900 ms.     *)
BlinkStep(s) ==
    /\ task[s] # None
    /\ level' = [level EXCEPT ![task[s].colour] = Sets(task[s])]
    /\ task' = [task EXCEPT ![s] = After(task[s])]

LedsNext == (\E c \in Colours : Blink(c)) \/ (\E s \in Slots : BlinkStep(s))

LedsSpec == LedsInit /\ [][LedsNext]_leds_vars

FairLeds == \A s \in Slots : WF_leds_vars(BlinkStep(s))

-----------------------------------------------------------------------------
(* However many tasks of a colour pile up and overlap, and whichever of them *)
(* could not be started, its LED is dark when none is left: none is left     *)
(* shining, as if access had been granted (card_reader.c:51-92).             *)
DarkWhenDone ==
    \A c \in Colours :
        (\A s \in Slots : task[s] # None => task[s].colour # c) => level[c] = 0

(* A task that could not be started stays without effect for that turn only: *)
(* memory for one comes free again and again, though a card that stays on    *)
(* the reader has one started at every turn (main.c:198).                    *)
SlotsComeFree == []<>(\E s \in Slots : task[s] = None)
=============================================================================
