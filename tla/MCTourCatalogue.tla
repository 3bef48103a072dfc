-------------------------- MODULE MCTourCatalogue --------------------------
(* Instances of TourCatalogue for TLC.  The requests are interchangeable,  *)
(* and so are the categories, except that edits move tours to c2.          *)
EXTENDS TourCatalogue, TLC

CONSTANTS c1, c2

Cheap == 5      \* 0.05
Dear == 1250    \* 12.50

Edits ==
  {[status |-> "PUBLISHED"], [price |-> Dear], [category |-> c2, status |-> "PUBLISHED"]}

PriceList == {Cheap, Dear}

Alike == Permutations(Requests)
=============================================================================
