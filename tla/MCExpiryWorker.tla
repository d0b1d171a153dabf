--------------------------- MODULE MCExpiryWorker ---------------------------
(***************************************************************************)
(* An instance of ExpiryWorker for TLC.                                    *)
(***************************************************************************)
EXTENDS ExpiryWorker, TLC

(* One product with every unit. *)
OneProductOf == [u \in Units |-> CHOOSE p \in Products : TRUE]

AllActive == [p \in Products |-> "ACTIVE"]
AllEnabled == [p \in Products |-> TRUE]
=============================================================================
