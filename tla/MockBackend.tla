---------------------------- MODULE MockBackend ----------------------------
(***************************************************************************)
(* The queue that runs in the browser without a server: one product of     *)
(* mockBackend.ts, its database in localStorage, shared by tabs.           *)
(*                                                                         *)
(* A call reads the whole database and writes it whole.  Most calls do so  *)
(* at once; joining and paying pause between the two, and then write what  *)
(* they read, changed, over whatever another tab has written meanwhile:    *)
(* they forget its calls.  Nothing runs on its own: a right that has run   *)
(* out is ended by the next call of its owner.                             *)
(*                                                                         *)
(* The user's page sends the grant it was given; a call with one that is   *)
(* no longer in the user's entry changes nothing and is left out.          *)
(***************************************************************************)
EXTENDS Integers, FiniteSets

CONSTANTS
    Users, Tabs, Keys,
    None,
    Stock,       \* inventory.available at first
    TTL,         \* how long a right lasts
    MaxNow, MaxTicket   \* bounds of the model

ASSUME MockAssumption ==
    /\ IsFiniteSet(Users)
    /\ Stock \in Nat /\ TTL \in Nat \ {0} /\ MaxNow \in Nat /\ MaxTicket \in Nat
    /\ None \notin Users \cup Nat /\ None # "PURCHASED"

VARIABLES
    db,      \* queues of the product by user, inventory, paymentResults
    now,     \* the clock
    calls    \* the call of each tab that is between its read and its write

mockVars == <<db, now, calls>>

Rights == {"GRANTED", "CHECKOUT_PENDING"}
Final == {"PURCHASED", "EXPIRED", "PAYMENT_FAILED", "CANCELLED"}
Results == {"PURCHASED", "EXPIRED", "PAYMENT_FAILED"}

Entry == [ticket : 1 .. MaxTicket, status : {"WAITING"} \cup Rights \cup Final,
          position : {None} \cup 1 .. MaxTicket,
          expires : {None} \cup 0 .. MaxNow + TTL]   \* None: no grant

Database == [queues : [Users -> Entry \cup {None}],
             available : Nat, sold : Nat,
             paymentResults : [Keys -> Results \cup {None}]]

(* A user without an entry is told from one with an entry. *)
ASSUME NoneAssumption == None \notin Entry

(* The two calls that pause, and what they read. *)
Call == [op : {"join"}, user : Users, read : Database]
        \cup [op : {"payment"}, user : Users, key : Keys, result : Results, read : Database]

EmptyDatabase == [queues |-> [u \in Users |-> None], available |-> Stock, sold |-> 0,
                  paymentResults |-> [k \in Keys |-> None]]

MockInit ==
    /\ db = EmptyDatabase
    /\ now = 0
    /\ calls = [t \in Tabs |-> None]

-----------------------------------------------------------------------------
Entries(d) == {u \in Users : d.queues[u] # None}
WithStatus(d, statuses) == {u \in Entries(d) : d.queues[u].status \in statuses}
WaitingIn(d) == WithStatus(d, {"WAITING"})
Overdue(e) == e.status \in Rights /\ e.expires <= now

(* countActiveGrants: a right that has run out does not count, ended or not. *)
ActiveGrants(d) == {u \in WithStatus(d, Rights) : d.queues[u].expires > now}

Free(d) == d.available - Cardinality(ActiveGrants(d))

NextTicketNo(d) ==
    1 + (CHOOSE n \in 0 .. MaxTicket :
            /\ n = 0 \/ \E u \in Entries(d) : d.queues[u].ticket = n
            /\ \A u \in Entries(d) : d.queues[u].ticket <= n)

(* How many wait before u. *)
Ahead(d, u) == Cardinality({v \in WaitingIn(d) : d.queues[v].ticket < d.queues[u].ticket})

(* Mutant: the ones promoted are taken to be still in line.                *)
PromoteUncounted(d) ==
    [d EXCEPT !.queues = [u \in Users |->
        IF u \notin WaitingIn(d) THEN @[u]
        ELSE IF Ahead(d, u) < Free(d)
        THEN [@[u] EXCEPT !.status = "GRANTED", !.position = None, !.expires = now + TTL]
        ELSE [@[u] EXCEPT !.position = Ahead(d, u)]]]

(* promoteWaitingEntries: those with the lowest tickets get what is free,  *)
(* the others move up.                                                     *)
Promote(d) ==
    LET free == IF Free(d) > 0 THEN Free(d) ELSE 0
    IN  [d EXCEPT !.queues = [u \in Users |->
            IF u \notin WaitingIn(d) THEN @[u]
            ELSE IF Ahead(d, u) < free
            THEN [@[u] EXCEPT !.status = "GRANTED", !.position = None, !.expires = now + TTL]
            ELSE [@[u] EXCEPT !.position = Ahead(d, u) - free + 1]]]

(* Mutant: the line is not promoted. *)
ExpireOnly(d, u) ==
    IF d.queues[u].status \notin Rights \/ ~ Overdue(d.queues[u]) THEN d
    ELSE [d EXCEPT !.queues[u].status = "EXPIRED"]

(* expireGrantIfNeeded, and what each of its callers does when it was.     *)
ExpireIfNeeded(d, u) ==
    IF ~ Overdue(d.queues[u]) THEN d
    ELSE Promote([d EXCEPT !.queues[u].status = "EXPIRED", !.queues[u].position = None])

-----------------------------------------------------------------------------
(***************************************************************************)
(* Calls that do not pause.                                                *)
(***************************************************************************)

GetQueueState(u) ==
    /\ u \in Entries(db)
    /\ db' = ExpireIfNeeded(db, u)
    /\ UNCHANGED <<now, calls>>

(* Whatever the entry's status is. *)
LeaveQueue(u) ==
    /\ u \in Entries(db)
    /\ LET left == [db EXCEPT !.queues[u].status = "CANCELLED", !.queues[u].position = None]
       IN  db' = IF db.queues[u].expires # None THEN Promote(left) ELSE left
    /\ UNCHANGED <<now, calls>>

(* With the right over, the entry has expired and the call fails. *)
StartCheckout(u) ==
    /\ u \in Entries(db) /\ db.queues[u].expires # None
    /\ LET d == ExpireIfNeeded(db, u)
       IN  db' = IF d.queues[u].status = "GRANTED"
                 THEN [d EXCEPT !.queues[u].status = "CHECKOUT_PENDING"] ELSE d
    /\ UNCHANGED <<now, calls>>

-----------------------------------------------------------------------------
(***************************************************************************)
(* Joining and paying: what was read is kept until the write.              *)
(***************************************************************************)

BeginJoin(t, u) ==
    /\ calls[t] = None
    /\ u \in Entries(db) => db.queues[u].status \in Final
    /\ calls' = [calls EXCEPT ![t] = [op |-> "join", user |-> u, read |-> db]]
    /\ UNCHANGED <<db, now>>

(* Mutant: a free unit goes to whoever asks. *)
JoinedAnyway(d, u) ==
    LET granted == Free(d) > 0
    IN  [d EXCEPT !.queues[u] =
            [ticket |-> NextTicketNo(d),
             status |-> IF granted THEN "GRANTED" ELSE "WAITING",
             position |-> IF granted THEN None ELSE Cardinality(WaitingIn(d)) + 1,
             expires |-> IF granted THEN now + TTL ELSE None]]

Joined(d, u) ==
    LET granted == Free(d) > 0 /\ WaitingIn(d) = {}
    IN  [d EXCEPT !.queues[u] =
            [ticket |-> NextTicketNo(d),
             status |-> IF granted THEN "GRANTED" ELSE "WAITING",
             position |-> IF granted THEN None ELSE Cardinality(WaitingIn(d)) + 1,
             expires |-> IF granted THEN now + TTL ELSE None]]

EndJoin(t) ==
    /\ calls[t] # None /\ calls[t].op = "join"
    /\ NextTicketNo(calls[t].read) <= MaxTicket
    /\ db' = Joined(calls[t].read, calls[t].user)
    /\ calls' = [calls EXCEPT ![t] = None]
    /\ UNCHANGED now

(* Mutant: the status of the entry is not looked at again. *)
BeginPaymentUnchecked(t, u, k, result) ==
    /\ calls[t] = None /\ u \in Entries(db) /\ db.queues[u].expires # None
    /\ db.paymentResults[k] = None
    /\ db' = ExpireIfNeeded(db, u)
    /\ calls' = [calls EXCEPT ![t] =
                    [op |-> "payment", user |-> u, key |-> k, result |-> result, read |-> db']]
    /\ UNCHANGED now

(* A key that has a result answers with it and changes nothing.  An entry  *)
(* that has expired is written at once, and the call fails.                *)
BeginPayment(t, u, k, result) ==
    /\ calls[t] = None /\ u \in Entries(db) /\ db.queues[u].expires # None
    /\ db.paymentResults[k] = None
    /\ db' = ExpireIfNeeded(db, u)
    /\ calls' = IF db'.queues[u].status \notin Rights THEN calls
                ELSE [calls EXCEPT ![t] =
                         [op |-> "payment", user |-> u, key |-> k, result |-> result, read |-> db]]
    /\ UNCHANGED now

(* A purchase promotes nobody. *)
Paid(d, u, k, result) ==
    LET settled == [d EXCEPT !.queues[u].status = result, !.paymentResults[k] = result]
    IN  IF result = "PURCHASED"
        THEN [settled EXCEPT !.available = IF @ > 0 THEN @ - 1 ELSE 0, !.sold = @ + 1]
        ELSE Promote(settled)

EndPayment(t) ==
    /\ calls[t] # None /\ calls[t].op = "payment"
    /\ db' = Paid(calls[t].read, calls[t].user, calls[t].key, calls[t].result)
    /\ calls' = [calls EXCEPT ![t] = None]
    /\ UNCHANGED now

Tick == now < MaxNow /\ now' = now + 1 /\ UNCHANGED <<db, calls>>

MockNext ==
    \/ \E u \in Users : GetQueueState(u) \/ LeaveQueue(u) \/ StartCheckout(u)
    \/ \E t \in Tabs, u \in Users :
          \/ BeginJoin(t, u)
          \/ \E k \in Keys, result \in Results : BeginPayment(t, u, k, result)
    \/ \E t \in Tabs : EndJoin(t) \/ EndPayment(t)
    \/ Tick

MockSpec == MockInit /\ [][MockNext]_mockVars

-----------------------------------------------------------------------------
MockTypeOK ==
    /\ db \in Database
    /\ now \in 0 .. MaxNow
    /\ calls \in [Tabs -> Call \cup {None}]

(* However tabs overwrite each other's calls, the database they leave adds *)
(* up: every right that has not run out has a unit of its own, and a unit  *)
(* is sold for every payment that succeeded and no other.                  *)
StockCoversRights ==
    /\ Cardinality(ActiveGrants(db)) <= db.available
    /\ db.available + db.sold = Stock
    /\ db.sold = Cardinality({k \in Keys : db.paymentResults[k] = "PURCHASED"})

(* Nobody who waits has drawn a ticket before somebody who holds a right,  *)
(* although rights end unnoticed and a newcomer may find a free unit.      *)
FirstComeFirstServed ==
    \A u \in WithStatus(db, Rights), v \in WaitingIn(db) :
        db.queues[u].ticket < db.queues[v].ticket

(* The position that a waiting user is shown is not updated when somebody  *)
(* before her leaves the line; but it never promises more than it keeps.   *)
PositionsNeverFlatter ==
    \A u \in WaitingIn(db) : db.queues[u].position > Ahead(db, u)

(* While somebody waits, every unit left is held by a right, ended or not: *)
(* whoever ends a right hands its unit on in the same call, and no write   *)
(* that undoes others brings a unit back without its line.  The one who    *)
(* waits may wait for a right that has run out, for ever if its owner does *)
(* not call again; but never beside a unit that nobody holds.              *)
NobodyWaitsBesideAUnit ==
    WaitingIn(db) # {} => db.available <= Cardinality(WithStatus(db, Rights))
=============================================================================
