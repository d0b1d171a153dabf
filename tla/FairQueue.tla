----------------------------- MODULE FairQueue -----------------------------
(***************************************************************************)
(* The fair queue of the backend, one action per committed transaction.    *)
(*                                                                         *)
(* The rows are those of PostgreSQL: products.next_ticket, queue_entries,  *)
(* purchase_grants, inventory_units and checkout_attempts.  Every request  *)
(* of the API and every row the expiry worker treats is one transaction,   *)
(* and here one step; FairQueueTx takes the transactions apart.            *)
(*                                                                         *)
(* A queue entry is named by the pair <<product, ticket>>, which the       *)
(* schema declares UNIQUE, and a grant by the entry it belongs to (an      *)
(* entry receives one grant in its life, which GrantsFollowEntries checks).*)
(* The user of a grant is the user of its entry.                           *)
(*                                                                         *)
(* Time.  The services read SELECT now(), which is the time at which the   *)
(* transaction STARTED.  A grant keeps the time its right has left,        *)
(* expires_at - clock, and a transaction commits with a lag, the time      *)
(* between its start and its commit: what it reads as expires_at - now()   *)
(* is left + lag.  Only differences matter, so the clock itself is not     *)
(* kept, and countdowns stop at Floor, below which no lag can make a       *)
(* difference.                                                             *)
(***************************************************************************)
EXTENDS Integers, FiniteSets, Lifecycle

CONSTANTS
    Products,
    Units,          \* inventory unit ids; LockAvailableUnit takes the lowest
    Users,
    Keys,           \* idempotency keys of payment results
    ProductOf,      \* the product a unit belongs to
    ProductStatus,  \* products.lifecycle_status, which no code updates
    QueueEnabled,   \* products.queue_enabled, which no code updates
    TTL,            \* GRANT_TTL, in ticks
    MaxLag,         \* bound: ticks between the start and commit of a transaction
    MaxTicket,      \* bound: tickets issued per product
    None            \* SQL NULL

ASSUME ConstantsAssumption ==
    /\ IsFiniteSet(Units) /\ Units \subseteq Nat
    /\ ProductOf \in [Units -> Products]
    /\ ProductStatus \in [Products -> {"ACTIVE", "SOLD_OUT", "REMOVED"}]
    /\ QueueEnabled \in [Products -> BOOLEAN]
    /\ TTL \in Nat \ {0} /\ MaxLag \in Nat /\ MaxTicket \in Nat
    /\ None \notin Products \X Nat

VARIABLES
    nextTicket,  \* products.next_ticket
    entries,     \* queue_entries: <<product, ticket>> -> user and status
    grants,      \* purchase_grants: entry -> unit, status, left, age
    units,       \* inventory_units: status and current_grant_id
    attempts,    \* checkout_attempts: idempotency key -> grant and result
    announced    \* entries named in the pg_notify calls of the last commit

vars == <<nextTicket, entries, grants, units, attempts, announced>>

Floor == -(MaxLag + 1)
Lags == 0 .. MaxLag
EntryIds == Products \X (1 .. MaxTicket)
Results == {"success", "failure", "timeout"}

-----------------------------------------------------------------------------
(***************************************************************************)
(* What the services read.                                                 *)
(***************************************************************************)

UnitsOf(p) == {u \in Units : ProductOf[u] = p}

(* CountInventory, as the services use it: some unit, and every unit SOLD. *)
AllSold(us, p) ==
    /\ UnitsOf(p) # {}
    /\ \A u \in UnitsOf(p) : us[u].status = "SOLD"

(* The WAITING entries of a product (LockOldestWaiting, ListWaitingIDs).   *)
Waiting(es, p) == {e \in DOMAIN es : e[1] = p /\ es[e].status = "WAITING"}

(* The units LockAvailableUnit chooses from.                               *)
Available(us, p) ==
    {u \in UnitsOf(p) : us[u].status = "AVAILABLE" /\ us[u].grant = None}

(* Mutant: ORDER BY ticket_no DESC. *)
BeforeNewestFirst(e, W) == {f \in W : f[2] > e[2]}

(* Those that ORDER BY ticket_no and ORDER BY id put before a row.         *)
Before(e, W) == {f \in W : f[2] < e[2]}
Below(u, A) == {v \in A : v < u}

(* CountEarlierWaiting + 1: the position GET /queue shows a waiting entry. *)
Position(es, e) == Cardinality(Before(e, Waiting(es, e[1]))) + 1

-----------------------------------------------------------------------------
(***************************************************************************)
(* The row updates, conditional as their WHERE clauses are.                *)
(***************************************************************************)

(* Mutant: WHERE user_id and status, instead of the entry's id.            *)
MarkUsersStatus(es, e, from, to) ==
    [f \in DOMAIN es |->
        IF es[f].user = es[e].user /\ es[f].status = from
        THEN [es[f] EXCEPT !.status = to] ELSE es[f]]

MarkEntryStatus(es, e, from, to) ==
    IF es[e].status = from THEN [es EXCEPT ![e].status = to] ELSE es

(* UpdateGrantStatus.  The countdown is read of ACTIVE grants only: it is  *)
(* set to zero when the grant stops being ACTIVE.                          *)
UpdateGrantStatus(gs, e, from, to) ==
    IF gs[e].status = from
    THEN [gs EXCEPT ![e].status = to, ![e].left = 0, ![e].age = 0]
    ELSE gs

(* Mutant: the unit comes back with its current_grant_id still set.        *)
MarkUnitAvailableKeepsGrant(us, u) ==
    IF us[u].status = "RESERVED" THEN [us EXCEPT ![u].status = "AVAILABLE"] ELSE us

MarkUnitAvailable(us, u) ==
    IF us[u].status = "RESERVED"
    THEN [us EXCEPT ![u] = [status |-> "AVAILABLE", grant |-> None]]
    ELSE us

MarkUnitSold(us, u) ==
    IF us[u].status = "RESERVED" THEN [us EXCEPT ![u].status = "SOLD"] ELSE us

(* The loop of Promote takes the oldest waiting entry and the lowest       *)
(* available unit until one of the two runs out: it pairs the entry with k *)
(* entries before it with the unit with k units below it.                  *)
Pairs(es, us, p) ==
    LET W == Waiting(es, p)
        A == Available(us, p)
    IN  {m \in W \X A : Cardinality(Before(m[1], W)) = Cardinality(Below(m[2], A))}

(* The tables after promotion has given each entry of M its unit.          *)
PromotedEntries(es, M) ==
    [e \in DOMAIN es |->
        IF \E m \in M : m[1] = e THEN [es[e] EXCEPT !.status = "GRANTED"] ELSE es[e]]

PromotedGrants(gs, M, lag) ==
    [e \in DOMAIN gs \cup {m[1] : m \in M} |->
        IF \E m \in M : m[1] = e
        THEN [unit |-> (CHOOSE m \in M : m[1] = e)[2], status |-> "ACTIVE",
              left |-> TTL - lag, age |-> 0]
        ELSE gs[e]]

PromotedUnits(us, M) ==
    [u \in Units |->
        IF \E m \in M : m[2] = u
        THEN [status |-> "RESERVED", grant |-> (CHOOSE m \in M : m[2] = u)[1]]
        ELSE us[u]]

(* Promote, last in every transaction that calls it, on the rows as the    *)
(* transaction has left them.  All its now() are the one of the            *)
(* transaction, so every right it grants has TTL - lag left at commit.     *)
Promote(es, gs, us, p, lag, said) ==
    LET M == Pairs(es, us, p)
    IN  /\ entries' = PromotedEntries(es, M)
        /\ grants' = PromotedGrants(gs, M, lag)
        /\ units' = PromotedUnits(us, M)
        /\ announced' = said \cup {m[1] : m \in M}

(* Mutant: the waiting are turned away and not told.                       *)
CloseQueueIfSoldOutSilently(es, us, p, said) ==
    LET Closed == IF AllSold(us, p) THEN Waiting(es, p) ELSE {}
    IN  /\ entries' = [e \in DOMAIN es |->
                        IF e \in Closed THEN [es[e] EXCEPT !.status = "SOLD_OUT"]
                                        ELSE es[e]]
        /\ announced' = said

(* CloseQueueIfSoldOut: the last sale turns away everyone still waiting.   *)
CloseQueueIfSoldOut(es, us, p, said) ==
    LET Closed == IF AllSold(us, p) THEN Waiting(es, p) ELSE {}
    IN  /\ entries' = [e \in DOMAIN es |->
                        IF e \in Closed THEN [es[e] EXCEPT !.status = "SOLD_OUT"]
                                        ELSE es[e]]
        /\ announced' = said \cup Closed

-----------------------------------------------------------------------------
Init ==
    /\ nextTicket = [p \in Products |-> 1]
    /\ entries = [e \in {} |-> None]
    /\ grants = [e \in {} |-> None]
    /\ units = [u \in Units |-> [status |-> "AVAILABLE", grant |-> None]]
    /\ attempts = [k \in {} |-> None]
    /\ announced = {}

(* Mutant: only a waiting entry keeps its user from joining again.         *)
JoinQueueTwice(u, p) ==
    LET e == <<p, nextTicket[p]>>
        row == [user |-> u, status |-> "WAITING"]
    IN  /\ nextTicket[p] <= MaxTicket
        /\ ProductStatus[p] = "ACTIVE" /\ QueueEnabled[p]
        /\ ~AllSold(units, p)
        /\ ~\E f \in Waiting(entries, p) : entries[f].user = u
        /\ e \notin DOMAIN entries
        /\ nextTicket' = [nextTicket EXCEPT ![p] = @ + 1]
        /\ \E lag \in Lags :
              Promote([f \in DOMAIN entries \cup {e} |->
                          IF f = e THEN row ELSE entries[f]],
                      grants, units, p, lag, {})
        /\ UNCHANGED attempts

(* Mutant: next_ticket is not incremented.                                 *)
JoinQueueSameTicket(u, p) ==
    LET e == <<p, nextTicket[p]>>
        row == [user |-> u, status |-> "WAITING"]
    IN  /\ nextTicket[p] <= MaxTicket
        /\ ProductStatus[p] = "ACTIVE" /\ QueueEnabled[p]
        /\ ~AllSold(units, p)
        /\ e \notin DOMAIN entries
        /\ \E lag \in Lags :
              Promote([f \in DOMAIN entries \cup {e} |->
                          IF f = e THEN row ELSE entries[f]],
                      grants, units, p, lag, {})
        /\ UNCHANGED <<nextTicket, attempts>>

(* JoinQueue.  A user with an active entry gets that entry back and a      *)
(* closed product an error, and neither writes.  The insert would break    *)
(* the UNIQUE constraint if the ticket were in use.                        *)
JoinQueue(u, p) ==
    LET e == <<p, nextTicket[p]>>
        row == [user |-> u, status |-> "WAITING"]
    IN  /\ nextTicket[p] <= MaxTicket
        /\ ProductStatus[p] = "ACTIVE" /\ QueueEnabled[p]
        /\ ~AllSold(units, p)
        /\ ~\E f \in DOMAIN entries :
              f[1] = p /\ entries[f].user = u /\ entries[f].status \in ActiveEntry
        /\ e \notin DOMAIN entries
        /\ nextTicket' = [nextTicket EXCEPT ![p] = @ + 1]
        /\ \E lag \in Lags :
              Promote([f \in DOMAIN entries \cup {e} |->
                          IF f = e THEN row ELSE entries[f]],
                      grants, units, p, lag, {})
        /\ UNCHANGED attempts

(* Mutant: any active entry can be cancelled like a waiting one.           *)
LeaveWaitingAnyActive(e) ==
    /\ e \in DOMAIN entries
    /\ entries[e].status \in ActiveEntry
    /\ entries' = [entries EXCEPT ![e].status = "CANCELLED"]
    /\ announced' = {}
    /\ UNCHANGED <<nextTicket, grants, units, attempts>>

(* LeaveQueue of a waiting entry: nobody is told.                          *)
LeaveWaiting(e) ==
    /\ e \in DOMAIN entries
    /\ entries[e].status = "WAITING"
    /\ entries' = MarkEntryStatus(entries, e, "WAITING", "CANCELLED")
    /\ announced' = {}
    /\ UNCHANGED <<nextTicket, grants, units, attempts>>

(* LeaveQueue of a granted entry: ReleaseActiveGrant gives the unit back   *)
(* and promotes before the entry itself is cancelled.                      *)
LeaveGranted(e) ==
    /\ e \in DOMAIN entries
    /\ entries[e].status = "GRANTED"
    /\ e \in DOMAIN grants
    /\ grants[e].status = "ACTIVE"
    /\ \E lag \in Lags :
          Promote(MarkEntryStatus(entries, e, "GRANTED", "CANCELLED"),
                  UpdateGrantStatus(grants, e, "ACTIVE", "CANCELLED"),
                  MarkUnitAvailable(units, grants[e].unit),
                  e[1], lag, {e})
    /\ UNCHANGED <<nextTicket, attempts>>

(* Mutant: the status of the right is checked and its expiry is not.       *)
StartCheckoutAnyTime(e) ==
    /\ e \in DOMAIN grants
    /\ grants[e].status = "ACTIVE"
    /\ entries[e].status = "GRANTED"
    /\ grants' = UpdateGrantStatus(grants, e, "ACTIVE", "CHECKOUT_PENDING")
    /\ entries' = MarkEntryStatus(entries, e, "GRANTED", "CHECKOUT_PENDING")
    /\ announced' = {e}
    /\ UNCHANGED <<nextTicket, units, attempts>>

(* StartCheckout by the owner of the right.  The request names the grant,  *)
(* so it began after the grant was committed: its lag is at most its age.  *)
StartCheckout(e) ==
    /\ e \in DOMAIN grants
    /\ grants[e].status = "ACTIVE"
    /\ \E lag \in 0 .. grants[e].age : grants[e].left + lag > 0
    /\ entries[e].status = "GRANTED"
    /\ grants' = UpdateGrantStatus(grants, e, "ACTIVE", "CHECKOUT_PENDING")
    /\ entries' = MarkEntryStatus(entries, e, "GRANTED", "CHECKOUT_PENDING")
    /\ announced' = {e}
    /\ UNCHANGED <<nextTicket, units, attempts>>

(* Mutant: a result for a grant that is already settled is recorded.       *)
RecordAttemptAlways(e, k, r) ==
    /\ k \notin DOMAIN attempts
    /\ e \in DOMAIN grants
    /\ grants[e].status # "ACTIVE"
    /\ attempts' = [j \in DOMAIN attempts \cup {k} |->
                      IF j = k THEN [entry |-> e, result |-> r] ELSE attempts[j]]
    /\ UNCHANGED nextTicket

(* The part of SubmitPaymentResult that is common to all results: a key    *)
(* not used before, and CompleteCheckoutPending's guard.  A known key is   *)
(* answered from the stored attempt, or refused when it is another         *)
(* grant's, and neither writes.                                            *)
RecordAttempt(e, k, r) ==
    /\ k \notin DOMAIN attempts
    /\ e \in DOMAIN grants
    /\ grants[e].status = "CHECKOUT_PENDING"
    /\ attempts' = [j \in DOMAIN attempts \cup {k} |->
                      IF j = k THEN [entry |-> e, result |-> r] ELSE attempts[j]]
    /\ UNCHANGED nextTicket

(* Mutant: the stock is counted before the unit is marked SOLD.            *)
PaymentSucceedsCountsFirst(e, k) ==
    /\ RecordAttempt(e, k, "success")
    /\ grants' = UpdateGrantStatus(grants, e, "CHECKOUT_PENDING", "PURCHASED")
    /\ units' = MarkUnitSold(units, grants[e].unit)
    /\ CloseQueueIfSoldOut(
          MarkEntryStatus(entries, e, "CHECKOUT_PENDING", "PURCHASED"),
          units, e[1], {e})

PaymentSucceeds(e, k) ==
    /\ RecordAttempt(e, k, "success")
    /\ grants' = UpdateGrantStatus(grants, e, "CHECKOUT_PENDING", "PURCHASED")
    /\ units' = MarkUnitSold(units, grants[e].unit)
    /\ CloseQueueIfSoldOut(
          MarkEntryStatus(entries, e, "CHECKOUT_PENDING", "PURCHASED"),
          units', e[1], {e})

(* Mutant: the entry is given the name of the grant's status.              *)
PaymentFailsMixedStatus(e, k, r) ==
    /\ RecordAttempt(e, k, r)
    /\ \E lag \in Lags :
          Promote(MarkEntryStatus(entries, e, "CHECKOUT_PENDING", "FAILED"),
                  UpdateGrantStatus(grants, e, "CHECKOUT_PENDING", "FAILED"),
                  MarkUnitAvailable(units, grants[e].unit),
                  e[1], lag, {e})

(* Mutant: the unit comes back and the next in line is not promoted.       *)
PaymentFailsNoPromote(e, k, r) ==
    /\ RecordAttempt(e, k, r)
    /\ entries' = MarkEntryStatus(entries, e, "CHECKOUT_PENDING", "PAYMENT_FAILED")
    /\ grants' = UpdateGrantStatus(grants, e, "CHECKOUT_PENDING", "FAILED")
    /\ units' = MarkUnitAvailable(units, grants[e].unit)
    /\ announced' = {e}

PaymentFails(e, k, r) ==
    /\ RecordAttempt(e, k, r)
    /\ \E lag \in Lags :
          Promote(MarkEntryStatus(entries, e, "CHECKOUT_PENDING", "PAYMENT_FAILED"),
                  UpdateGrantStatus(grants, e, "CHECKOUT_PENDING", "FAILED"),
                  MarkUnitAvailable(units, grants[e].unit),
                  e[1], lag, {e})

(* Mutant: the grant expires and its entry stays GRANTED.                  *)
ExpireGrantOnly(e) ==
    /\ e \in DOMAIN grants
    /\ grants[e].status = "ACTIVE"
    /\ \E lag \in 0 .. grants[e].age :
          /\ grants[e].left + lag < 0
          /\ Promote(entries, UpdateGrantStatus(grants, e, "ACTIVE", "EXPIRED"),
                     MarkUnitAvailable(units, grants[e].unit),
                     e[1], lag, {e})
    /\ UNCHANGED <<nextTicket, attempts>>

(* Mutant: the worker leaves a right alone while nobody waits for it.      *)
ExpireOnDemand(e) ==
    /\ e \in DOMAIN grants
    /\ grants[e].status = "ACTIVE"
    /\ Waiting(entries, e[1]) # {}
    /\ \E lag \in 0 .. grants[e].age :
          /\ grants[e].left + lag < 0
          /\ Promote(MarkEntryStatus(entries, e, "GRANTED", "EXPIRED"),
                     UpdateGrantStatus(grants, e, "ACTIVE", "EXPIRED"),
                     MarkUnitAvailable(units, grants[e].unit),
                     e[1], lag, {e})
    /\ UNCHANGED <<nextTicket, attempts>>

(* One grant of the worker's batch.  The transaction begins after the scan *)
(* that saw the grant, so again its lag is at most the grant's age.        *)
Expire(e) ==
    /\ e \in DOMAIN grants
    /\ grants[e].status = "ACTIVE"
    /\ \E lag \in 0 .. grants[e].age :
          /\ grants[e].left + lag < 0
          /\ Promote(MarkEntryStatus(entries, e, "GRANTED", "EXPIRED"),
                     UpdateGrantStatus(grants, e, "ACTIVE", "EXPIRED"),
                     MarkUnitAvailable(units, grants[e].unit),
                     e[1], lag, {e})
    /\ UNCHANGED <<nextTicket, attempts>>

(* One tick of the database clock. *)
Elapse(g) ==
    IF g.status # "ACTIVE" THEN g
    ELSE [g EXCEPT !.left = IF @ > Floor THEN @ - 1 ELSE @,
                   !.age = IF @ < MaxLag THEN @ + 1 ELSE @]

Tick ==
    /\ \E e \in DOMAIN grants : Elapse(grants[e]) # grants[e]
    /\ grants' = [e \in DOMAIN grants |-> Elapse(grants[e])]
    /\ announced' = {}
    /\ UNCHANGED <<nextTicket, entries, units, attempts>>

Next ==
    \/ \E u \in Users, p \in Products : JoinQueue(u, p)
    \/ \E e \in DOMAIN entries : LeaveWaiting(e)
    \/ \E e \in DOMAIN entries : LeaveGranted(e)
    \/ \E e \in DOMAIN grants : StartCheckout(e)
    \/ \E e \in DOMAIN grants, k \in Keys : PaymentSucceeds(e, k)
    \/ \E e \in DOMAIN grants, k \in Keys, r \in {"failure", "timeout"} :
          PaymentFails(e, k, r)
    \/ \E e \in DOMAIN grants : Expire(e)
    \/ Tick

Spec == Init /\ [][Next]_vars

(* The worker's loop runs for as long as the service does and retries at   *)
(* every interval; time passes.  Nothing obliges a user to act.            *)
WorkerFairness ==
    /\ WF_vars(Tick)
    /\ \A e \in EntryIds : WF_vars(Expire(e))

FairSpec == Spec /\ WorkerFairness

(* An assumption about the world outside: whoever starts a checkout gets   *)
(* a payment result delivered in the end.                                  *)
PaymentFairness ==
    \A e \in EntryIds :
        WF_vars(\E k \in Keys : \/ PaymentSucceeds(e, k)
                               \/ \E r \in {"failure", "timeout"} :
                                     PaymentFails(e, k, r))

-----------------------------------------------------------------------------
(***************************************************************************)
(* Invariants.                                                             *)
(***************************************************************************)

(* Every row has the columns and the values the schema and the services    *)
(* give it.                                                                *)
EntriesOK(es) ==
    /\ DOMAIN es \subseteq EntryIds
    /\ \A e \in DOMAIN es : es[e] \in [user : Users, status : EntryStatus]

GrantsOK(es, gs) ==
    /\ DOMAIN gs \subseteq DOMAIN es
    /\ \A e \in DOMAIN gs :
          gs[e] \in [unit : Units, status : GrantStatus, left : Floor .. TTL, age : Lags]

UnitsOK(us) == us \in [Units -> [status : UnitStatus, grant : EntryIds \cup {None}]]

AttemptsOK(at) ==
    /\ DOMAIN at \subseteq Keys
    /\ \A k \in DOMAIN at : at[k] \in [entry : EntryIds, result : Results]

TypeOK ==
    /\ nextTicket \in [Products -> 1 .. MaxTicket + 1]
    /\ EntriesOK(entries) /\ GrantsOK(entries, grants)
    /\ UnitsOK(units) /\ AttemptsOK(attempts)
    /\ announced \subseteq EntryIds

(* No unit is sold or promised twice, and none is lost: a unit that is not *)
(* AVAILABLE names the one grant that holds or bought it, and every such   *)
(* grant is named by its unit, which is a unit of the grant's product.     *)
UnitsMatch(gs, us) ==
    /\ \A u \in Units :
          IF us[u].status = "AVAILABLE" THEN us[u].grant = None
          ELSE /\ us[u].grant \in DOMAIN gs
               /\ gs[us[u].grant].unit = u
               /\ gs[us[u].grant].status \in
                     IF us[u].status = "RESERVED" THEN LiveGrant ELSE {"PURCHASED"}
    /\ \A e \in DOMAIN gs :
          /\ ProductOf[gs[e].unit] = e[1]
          /\ gs[e].status \in LiveGrant \cup {"PURCHASED"} =>
                us[gs[e].unit].grant = e

UnitsMatchGrants == UnitsMatch(grants, units)

(* The two rows that tell a user where they stand never disagree: the      *)
(* status of an entry determines whether it has a grant and in which       *)
(* status.  In particular an entry is granted once in its life.            *)
StatusPairs == {<<"GRANTED", "ACTIVE">>, <<"CHECKOUT_PENDING", "CHECKOUT_PENDING">>,
                <<"PURCHASED", "PURCHASED">>, <<"EXPIRED", "EXPIRED">>,
                <<"PAYMENT_FAILED", "FAILED">>, <<"CANCELLED", "CANCELLED">>}

GrantsFollow(es, gs) ==
    \A e \in DOMAIN es :
        IF e \in DOMAIN gs THEN <<es[e].status, gs[e].status>> \in StatusPairs
        ELSE es[e].status \in {"WAITING", "SOLD_OUT", "CANCELLED"}

GrantsFollowEntries == GrantsFollow(entries, grants)

(* No unit lies idle while somebody waits for one: whatever frees a unit   *)
(* or adds an entry promotes before it commits.                            *)
NoIdle(es, us) == \A p \in Products : Waiting(es, p) = {} \/ Available(us, p) = {}

NoIdleUnit == NoIdle(entries, units)

(* Strict FIFO: while an entry waits, nobody behind it has been granted    *)
(* anything.                                                               *)
InOrder(es, gs) ==
    \A e \in DOMAIN es, f \in DOMAIN gs :
        e[1] = f[1] /\ e[2] < f[2] => es[e].status # "WAITING"

NoOvertaking == InOrder(entries, grants)

(* A user stands in the line of a product, or holds a right to it, once.   *)
OneActive(es) ==
    \A e, f \in DOMAIN es :
        /\ e[1] = f[1] /\ es[e].user = es[f].user
        /\ es[e].status \in ActiveEntry /\ es[f].status \in ActiveEntry
        => e = f

OneActiveEntry == OneActive(entries)

(* Tickets are issued without gaps and the next one is not in use, so the  *)
(* insert of JoinQueue never breaks the UNIQUE constraint.                 *)
TicketsFresh ==
    \A p \in Products : \A t \in 1 .. MaxTicket :
        <<p, t>> \in DOMAIN entries <=> t < nextTicket[p]

(* A grant is settled by exactly one payment result, the recorded one,     *)
(* whatever is redelivered under whatever key; a grant that no result was  *)
(* recorded for is not settled.                                            *)
PaidOnly(gs, at) ==
    /\ \A k \in DOMAIN at :
          /\ at[k].entry \in DOMAIN gs
          /\ gs[at[k].entry].status =
                IF at[k].result = "success" THEN "PURCHASED" ELSE "FAILED"
    /\ \A j, k \in DOMAIN at : at[j].entry = at[k].entry => j = k
    /\ \A e \in DOMAIN gs : gs[e].status \in {"PURCHASED", "FAILED"} =>
          \E k \in DOMAIN at : at[k].entry = e

PaidOnce == PaidOnly(grants, attempts)

(* Once everything is sold nobody is left in the line.                     *)
NoneLeft(es, us) == \A p \in Products : AllSold(us, p) => Waiting(es, p) = {}

NobodyWaitsForNothing == NoneLeft(entries, units)

-----------------------------------------------------------------------------
(***************************************************************************)
(* What a step may do.                                                     *)
(***************************************************************************)

(* The conditional UPDATEs of the services stay inside the tables of       *)
(* state.go, never touch a row again once it is final, and rewrite neither *)
(* the owner of an entry, nor the unit of a grant, nor a payment attempt.  *)
LegalStep ==
    /\ \A e \in DOMAIN entries :
          /\ e \in DOMAIN entries'
          /\ entries'[e].user = entries[e].user
          /\ \/ entries'[e].status = entries[e].status
             \/ <<entries[e].status, entries'[e].status>> \in QueueEntryTransitions
    /\ \A e \in DOMAIN grants :
          /\ e \in DOMAIN grants'
          /\ grants'[e].unit = grants[e].unit
          /\ \/ grants'[e].status = grants[e].status
             \/ <<grants[e].status, grants'[e].status>> \in GrantTransitions
    /\ \A u \in Units : \/ units'[u].status = units[u].status
                        \/ <<units[u].status, units'[u].status>> \in UnitTransitions
    /\ \A k \in DOMAIN attempts : k \in DOMAIN attempts' /\ attempts'[k] = attempts[k]

LegalTransitions == [][LegalStep]_vars

(* Whoever's entry changes status learns of it from the transaction that   *)
(* changed it, unless they gave up their own place in the line.            *)
ChangesAnnounced ==
    [][\A e \in DOMAIN entries :
          \/ entries'[e].status = entries[e].status
          \/ entries[e].status = "WAITING" /\ entries'[e].status = "CANCELLED"
          \/ e \in announced']_vars

(* A transaction writes entries and units of one product only, the one     *)
(* whose row it has locked: transactions of two products cannot conflict.  *)
Touched(p) ==
    \/ \E u \in UnitsOf(p) : units'[u] # units[u]
    \/ nextTicket'[p] # nextTicket[p]
    \/ \E e \in DOMAIN entries : e[1] = p /\ entries'[e] # entries[e]

OneProductPerStep == [][\A p, q \in Products : Touched(p) /\ Touched(q) => p = q]_vars

(* now() being the start of the transaction, the worker never expires a    *)
(* right that is still valid on the clock, and a checkout is accepted at   *)
(* most MaxLag after the right has run out.                                *)
InTime ==
    \A e \in DOMAIN grants :
        grants[e].status = "ACTIVE" =>
           /\ grants'[e].status = "EXPIRED" => grants[e].left < 0
           /\ grants'[e].status = "CHECKOUT_PENDING" => grants[e].left > -MaxLag

DeadlineRespected == [][InTime]_vars

-----------------------------------------------------------------------------
(***************************************************************************)
(* Liveness.                                                               *)
(***************************************************************************)

HasGrant(e, s) == e \in DOMAIN grants /\ grants[e].status = s
IsWaiting(e) == e \in DOMAIN entries /\ entries[e].status = "WAITING"

(* A right that its owner does not use ends: the unit is not kept by       *)
(* somebody who never comes back.                                          *)
UnusedRightEnds == \A e \in EntryIds : HasGrant(e, "ACTIVE") ~> ~HasGrant(e, "ACTIVE")

(* Everybody in the line is answered, with a right or with SOLD_OUT (or    *)
(* leaves), provided payment results arrive.                               *)
EveryoneAnswered ==
    PaymentFairness => \A e \in EntryIds : IsWaiting(e) ~> ~IsWaiting(e)

-----------------------------------------------------------------------------
(***************************************************************************)
(* Claims of docs/spec.md that the code does not keep.                     *)
(***************************************************************************)

(* docs/spec.md:24 and :78: the time an unpaid unit is held is bounded.    *)
(* Nothing ends a CHECKOUT_PENDING grant but a payment result.             *)
UnpaidHoldEnds ==
    \A e \in EntryIds : HasGrant(e, "CHECKOUT_PENDING") ~> ~HasGrant(e, "CHECKOUT_PENDING")

(* docs/spec.md:364: events announce a change of status or of position.    *)
(* Subscribers hear every event of their product, so one is enough for     *)
(* everybody whose position changed; LeaveWaiting sends none.              *)
PositionChangesAnnounced ==
    [][\A e \in DOMAIN entries :
          /\ entries[e].status = "WAITING" /\ entries'[e].status = "WAITING"
          /\ Position(entries, e) # Position(entries', e)
          => \E f \in announced' : f[1] = e[1]]_vars
=============================================================================
