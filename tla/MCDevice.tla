------------------------------ MODULE MCDevice ------------------------------
(* Device.tla with the numbers of the code for the network, and two rounds of *)
(* each blink task.                                                          *)
EXTENDS Device

TwoRounds == [c \in Colours |-> 2]
=============================================================================
