--------------------------- MODULE MCFairQueueTx ---------------------------
(***************************************************************************)
(* Instances of FairQueueTx for TLC.                                       *)
(***************************************************************************)
EXTENDS FairQueueTx, TLC

OneProductOf == [u \in Units |-> CHOOSE p \in Products : TRUE]

CONSTANTS p1, p2
TwoProductOf == [u \in Units |-> IF \E v \in Units : v > u THEN p1 ELSE p2]

AllActive == [p \in Products |-> "ACTIVE"]
AllEnabled == [p \in Products |-> TRUE]

SessionSymmetry == Permutations(Sessions) \cup Permutations(Users) \cup Permutations(Keys)
=============================================================================
