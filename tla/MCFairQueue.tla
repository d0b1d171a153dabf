---------------------------- MODULE MCFairQueue ----------------------------
(***************************************************************************)
(* Instances of FairQueue for TLC, with the sale it implements.            *)
(***************************************************************************)
EXTENDS FairQueueSale, TLC

(* One product with every unit. *)
OneProductOf == [u \in Units |-> CHOOSE p \in Products : TRUE]

(* Two products; the first has the units but the last one. *)
CONSTANTS p1, p2
TwoProductOf == [u \in Units |-> IF \E v \in Units : v > u THEN p1 ELSE p2]

AllActive == [p \in Products |-> "ACTIVE"]
AllEnabled == [p \in Products |-> TRUE]

(* Users, keys and products are interchangeable; units are ordered by id.  *)
UserAndKeySymmetry == Permutations(Users) \cup Permutations(Keys)
=============================================================================
