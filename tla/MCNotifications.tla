--------------------------- MODULE MCNotifications ---------------------------
(* Instances of Notifications for TLC: workers, dispatchers and commands    *)
(* are interchangeable.                                                     *)
EXTENDS Notifications, TLC

Alike ==
  Permutations(Dispatchers) \cup Permutations(Commands) \cup Permutations(Workers)
=============================================================================
