------------------------------ MODULE MCServer ------------------------------
(* Instances of Server.tla: readers and browsers that send any request of    *)
(* theirs at any time.                                                       *)
EXTENDS Server, TLC

LinkSymmetry == Permutations(ReaderLinks)
=============================================================================
