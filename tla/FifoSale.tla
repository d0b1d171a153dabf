------------------------------ MODULE FifoSale ------------------------------
(***************************************************************************)
(* What the fair queue promises, without units, grants, time or payments.  *)
(*                                                                         *)
(* Each product has a stock of alike pieces.  Buyers draw tickets; those   *)
(* with the lowest tickets hold a piece each, the others stand in line.    *)
(* A holder buys the piece or returns it, and whatever comes free goes to  *)
(* the front of the line in the same step.  When the last piece is sold    *)
(* the line is sent home.                                                  *)
(***************************************************************************)
EXTENDS Integers, FiniteSets

CONSTANTS Products, Stock, MaxTicket

VARIABLES
    next,     \* the ticket the next buyer of a product will draw
    line,     \* the tickets waiting
    holders,  \* the tickets that hold a piece and have not paid for it
    sold      \* how many pieces have been bought

vars == <<next, line, holders, sold>>

SoldOut(p, s) == Stock[p] > 0 /\ s = Stock[p]

(* With H holding and s sold, those at the front of L are served until the *)
(* stock or the line runs out.                                             *)
Settle(p, L, H, s) ==
    LET free == Stock[p] - Cardinality(H) - s
        served == {t \in L : Cardinality({v \in L : v < t}) < free}
    IN  /\ line' = [line EXCEPT ![p] = IF SoldOut(p, s) THEN {} ELSE L \ served]
        /\ holders' = [holders EXCEPT ![p] = H \cup served]
        /\ sold' = [sold EXCEPT ![p] = s]

Init ==
    /\ next = [p \in Products |-> 1]
    /\ line = [p \in Products |-> {}]
    /\ holders = [p \in Products |-> {}]
    /\ sold = [p \in Products |-> 0]

Arrive(p) ==
    /\ next[p] <= MaxTicket
    /\ ~SoldOut(p, sold[p])
    /\ next' = [next EXCEPT ![p] = @ + 1]
    /\ Settle(p, line[p] \cup {next[p]}, holders[p], sold[p])

GiveUp(p, t) ==
    /\ t \in line[p]
    /\ line' = [line EXCEPT ![p] = @ \ {t}]
    /\ UNCHANGED <<next, holders, sold>>

Return(p, t) ==
    /\ t \in holders[p]
    /\ Settle(p, line[p], holders[p] \ {t}, sold[p])
    /\ UNCHANGED next

Buy(p, t) ==
    /\ t \in holders[p]
    /\ Settle(p, line[p], holders[p] \ {t}, sold[p] + 1)
    /\ UNCHANGED next

Next ==
    \E p \in Products :
        \/ Arrive(p)
        \/ \E t \in line[p] : GiveUp(p, t)
        \/ \E t \in holders[p] : Return(p, t) \/ Buy(p, t)

Spec == Init /\ [][Next]_vars
=============================================================================
