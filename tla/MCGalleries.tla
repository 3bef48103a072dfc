----------------------------- MODULE MCGalleries -----------------------------
(* Instances of Galleries for TLC: requests, tours, reviews and files are   *)
(* interchangeable.                                                         *)
EXTENDS Galleries, TLC

Alike ==
  Permutations(Requests) \cup Permutations(Tours) \cup
  Permutations(Reviews) \cup Permutations(Files)
=============================================================================
