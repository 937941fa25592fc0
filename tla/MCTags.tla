------------------------------- MODULE MCTags -------------------------------
(* Instances of Tags.tla: pages that begin with a zero and with another byte,*)
(* a peer's data of every length that makes a difference, NFCIDs of the      *)
(* three lengths there are.                                                  *)
EXTENDS Tags

Numbers(first, n) == [i \in 1 .. n |-> first + i]

SomeData == {<< >>, <<0>>, Numbers(6, 3), Numbers(-1, 16), Numbers(64, 16),
             Numbers(0, 19), Numbers(0, 20), Numbers(0, 40)}

SomeIds == {Numbers(135, 4), Numbers(3, 7), Numbers(6, 10)}
=============================================================================
