------------------------------ MODULE MCFlash ------------------------------
(* Instances of Flash.tla: 0, 1 and 5 for bytes depad_string_pkcs7 takes for *)
(* a padding, 5 for the one too large for a block, 9 for others, 255 for     *)
(* erased flash.                                                             *)
EXTENDS Flash

FiveBytes == {0, 1, 5, 9, 255}

(* A cipher that can yield any bytes, and is its own inverse.                *)
Reversed == [block \in [1 .. 4 -> FiveBytes \cup 1 .. 3] |-> Reverse(block)]
=============================================================================
