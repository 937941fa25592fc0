------------------------------ MODULE MCPN532 ------------------------------
(* Instances of PN532.tla: blocks of three bytes, and keys that begin with   *)
(* the byte a failed status would have, with zero, and with another byte.    *)
EXTENDS PN532

TwoKeys == {<<20, 0>>, <<0, 1>>}
=============================================================================
