------------------------------- MODULE CardIO -------------------------------
(* What the driver of the NFC chip promises nfc_task, and Reader.tla takes   *)
(* for granted: UID and key are read of one card at once; a session then     *)
(* refuses the card or agrees on a new key with it; that key is written to   *)
(* this card, while it lies on the reader, once or not at all, and before    *)
(* another card is read or never.                                            *)
CONSTANTS
    Cards,
    Contents,  \* of block 4
    None

VARIABLES
    field,  \* the card on the reader, or None
    block,  \* block[c]: block 4 of card c
    read,   \* the card of the session and its content; empty outside of one
    due     \* the write that is agreed and may still be executed, or none

cardio_vars == <<field, block, read, due>>

Init ==
    /\ field = None
    /\ block \in [Cards -> Contents]
    /\ read = {}
    /\ due = {}

Move ==
    /\ \/ field = None /\ field' \in Cards
       \/ field # None /\ field' = None
    /\ UNCHANGED <<block, read, due>>

Tap(c) ==
    /\ read = {} /\ due = {}
    /\ read' = {[card |-> c, data |-> block[c]]}
    /\ UNCHANGED <<field, block, due>>

Refuse ==
    /\ read # {}
    /\ read' = {}
    /\ UNCHANGED <<field, block, due>>

Accept(data) ==
    /\ \E r \in read : due' = {[card |-> r.card, data |-> data]}
    /\ read' = {}
    /\ UNCHANGED <<field, block>>

Write(w) ==
    /\ field = w.card
    /\ block' = [block EXCEPT ![w.card] = w.data]
    /\ due' = {}
    /\ UNCHANGED <<field, read>>

Lose ==
    /\ due # {}
    /\ due' = {}
    /\ UNCHANGED <<field, block, read>>

Next ==
    \/ Move \/ Refuse \/ Lose
    \/ \E c \in Cards : Tap(c)
    \/ \E data \in Contents : Accept(data)
    \/ \E w \in due : Write(w)

Spec == Init /\ [][Next]_cardio_vars
=============================================================================
