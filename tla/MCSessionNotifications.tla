------------------------ MODULE MCSessionNotifications ------------------------
(***************************************************************************)
(* An instance of SessionNotifications for TLC.                            *)
(***************************************************************************)
EXTENDS SessionNotifications, TLC

CONSTANTS ann, bob, waiting, ended

(* The users are interchangeable, the states of the queue are not.         *)
Symmetry == Permutations(Users)
=============================================================================
