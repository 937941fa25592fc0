------------------------------ MODULE MCSystem ------------------------------
(* Instances of System.tla.                                                  *)
EXTENDS System, TLC

KeySymmetry  == Permutations(Keys)
LinkSymmetry == KeySymmetry \cup Permutations(ReaderLinks)
=============================================================================
