---------------------------- MODULE MCMockBackend ----------------------------
(***************************************************************************)
(* An instance of MockBackend for TLC.  Users, tabs and keys are not told  *)
(* apart, and no property of the run is a liveness property.               *)
(***************************************************************************)
EXTENDS MockBackend, TLC

CONSTANTS u1, u2, u3, t1, k1, k2

Symmetry == Permutations(Users) \cup Permutations(Keys)
=============================================================================
