----------------------------- MODULE Lifecycle -----------------------------
(***************************************************************************)
(* The statuses of a queue entry, of a purchase grant and of an inventory  *)
(* unit, and the transition tables of internal/state/state.go.  The        *)
(* services never consult the tables: they move rows with conditional      *)
(* UPDATEs of their own, and FairQueue checks that those stay inside them. *)
(***************************************************************************)

EntryStatus == {"JOINING", "WAITING", "GRANTED", "CHECKOUT_PENDING",
                "PURCHASED", "EXPIRED", "PAYMENT_FAILED", "SOLD_OUT",
                "CANCELLED", "ERROR"}

GrantStatus == {"ACTIVE", "CHECKOUT_PENDING", "PURCHASED", "EXPIRED",
                "FAILED", "CANCELLED"}

UnitStatus == {"AVAILABLE", "RESERVED", "SOLD"}

(* Pairs <<from, to>> a queue entry may take. *)
QueueEntryTransitions ==
    ({"JOINING"} \X {"WAITING", "GRANTED", "SOLD_OUT", "CANCELLED", "ERROR"})
    \cup ({"WAITING"} \X {"GRANTED", "CANCELLED", "SOLD_OUT", "ERROR"})
    \cup ({"GRANTED"} \X {"CHECKOUT_PENDING", "EXPIRED", "CANCELLED", "ERROR"})
    \cup ({"CHECKOUT_PENDING"} \X {"PURCHASED", "PAYMENT_FAILED", "ERROR"})

GrantTransitions ==
    ({"ACTIVE"} \X {"CHECKOUT_PENDING", "EXPIRED", "FAILED", "CANCELLED"})
    \cup ({"CHECKOUT_PENDING"} \X {"PURCHASED", "FAILED"})

UnitTransitions ==
    ({"AVAILABLE"} \X {"RESERVED", "SOLD"})
    \cup ({"RESERVED"} \X {"AVAILABLE", "SOLD"})

(* Statuses that keep a user from opening a second entry on the product:   *)
(* activeStatuses of the queue repository, the predicate of the partial    *)
(* unique index, and IsActiveQueueEntry list the same five.                *)
ActiveEntry == {"JOINING", "WAITING", "GRANTED", "CHECKOUT_PENDING", "ERROR"}

(* Grants that hold a unit: the predicate of the index that makes the      *)
(* inventory unit of such grants unique.                                   *)
LiveGrant == {"ACTIVE", "CHECKOUT_PENDING"}

(* Entries that hold a unit, one status for each status of a live grant.   *)
HoldingEntry == {"GRANTED", "CHECKOUT_PENDING"}
=============================================================================
