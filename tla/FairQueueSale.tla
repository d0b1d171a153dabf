--------------------------- MODULE FairQueueSale ---------------------------
(***************************************************************************)
(* FairQueue implements FifoSale: entries become tickets, units a count.   *)
(***************************************************************************)
EXTENDS FairQueue

Tickets(statuses) ==
    [p \in Products |-> {e[2] : e \in {f \in DOMAIN entries :
                            f[1] = p /\ entries[f].status \in statuses}}]

Sale == INSTANCE FifoSale WITH
            Stock <- [p \in Products |-> Cardinality(UnitsOf(p))],
            next <- nextTicket,
            line <- Tickets({"WAITING"}),
            holders <- Tickets(HoldingEntry),
            sold <- [p \in Products |->
                       Cardinality({u \in UnitsOf(p) : units[u].status = "SOLD"})]

(* Whatever the units, the rights, the clock and the payments do, buyers   *)
(* see a FIFO sale: every transaction is one of its steps or invisible.    *)
ImplementsSale == Sale!Spec
=============================================================================
