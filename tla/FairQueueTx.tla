---------------------------- MODULE FairQueueTx ----------------------------
(***************************************************************************)
(* The transactions of FairQueue taken apart.                              *)
(*                                                                         *)
(* A session is a database connection of an API instance or of a worker.   *)
(* It runs one transaction at a time, statement by statement, under READ   *)
(* COMMITTED: a statement sees the committed rows and the session's own    *)
(* writes, which nobody else sees before the commit, and the row locks it  *)
(* takes last until the transaction ends.  Statements that neither wait    *)
(* for a row nor read one that another session may be changing are one     *)
(* step with their neighbour.                                              *)
(*                                                                         *)
(* The tables of FairQueue are here the committed rows, and FairQueue's    *)
(* Spec is what this module is shown to implement: a commit is one of its  *)
(* steps, everything else is invisible.                                    *)
(***************************************************************************)
EXTENDS FairQueue, Functions

CONSTANT Sessions

VARIABLE tx    \* the open transaction of each session, or None

txVars == <<nextTicket, entries, grants, units, attempts, announced, tx>>

(* lag is the time since BEGIN; locks the rows locked; said the entries    *)
(* notified; the last five fields the rows written.                        *)
Opened(op, at, e, u, k, r) ==
    [op |-> op, at |-> at, e |-> e, user |-> u, key |-> k, result |-> r,
     lag |-> 0, locks |-> {}, said |-> {}, nextTicket |-> <<>>,
     entries |-> <<>>, grants |-> <<>>, units |-> <<>>, attempts |-> <<>>]

At(s, l) == tx[s] # None /\ tx[s].at = l

(* A table of one row, and a table with the rows of another over its own.  *)
Row(id, row) == [x \in {id} |-> row]
Over(new, old) ==
    [x \in DOMAIN new \cup DOMAIN old |-> IF x \in DOMAIN new THEN new[x] ELSE old[x]]

(* The tables as session s sees them. *)
SeenEntries(s) == Over(tx[s].entries, entries)
SeenGrants(s) == Over(tx[s].grants, grants)
SeenUnits(s) == Over(tx[s].units, units)

(* The rows of table new that are not in table old. *)
Written(new, old) ==
    LET rows == {x \in DOMAIN new : x \in DOMAIN old => new[x] # old[x]}
    IN  [x \in rows |-> new[x]]

Free(s, rows) == \A t \in Sessions \ {s} : tx[t] # None => tx[t].locks \cap rows = {}

(* One statement: locks rows, and leaves the tables seen as es, gs, us.    *)
Do(s, next, rows, es, gs, us, said) ==
    /\ Free(s, rows)
    /\ tx' = [tx EXCEPT ![s].at = next,
                        ![s].locks = @ \cup rows,
                        ![s].said = @ \cup said,
                        ![s].entries = Written(es, entries),
                        ![s].grants = Written(gs, grants),
                        ![s].units = Written(us, units)]
    /\ UNCHANGED vars

(* A statement that only locks. *)
Lock(s, next, row) ==
    Do(s, next, {row}, SeenEntries(s), SeenGrants(s), SeenUnits(s), {})

(* The transaction ends without effect: an error, or nothing to do. *)
End(s) == tx' = [tx EXCEPT ![s] = None] /\ UNCHANGED vars

-----------------------------------------------------------------------------
(***************************************************************************)
(* Requests, with what they read before or at the start of the transaction.*)
(***************************************************************************)

Begin(s, t) == tx[s] = None /\ tx' = [tx EXCEPT ![s] = t] /\ UNCHANGED vars

Active(es, u, p) ==
    {e \in DOMAIN es : e[1] = p /\ es[e].user = u /\ es[e].status \in ActiveEntry}

BeginJoin(s, u, p) ==
    /\ Active(entries, u, p) = {}
    /\ nextTicket[p] <= MaxTicket
    /\ Begin(s, Opened("join", "product", <<p, 0>>, u, None, None))

BeginLeave(s) ==
    \E e \in DOMAIN entries :
        /\ entries[e].status \in ActiveEntry
        /\ Begin(s, Opened("leave", "product", e, entries[e].user, None, None))

BeginCheckout(s) ==
    \E e \in DOMAIN grants :
        Begin(s, Opened("checkout", "grant", e, entries[e].user, None, None))

BeginPay(s, k, r) ==
    \E e \in DOMAIN grants :
        /\ k \notin DOMAIN attempts
        /\ Begin(s, Opened("pay", "product", e, entries[e].user, k, r))

(* A row of the worker's scan, which reads expires_at <= now(); the locks  *)
(* of the scan are gone when it returns.                                   *)
BeginExpire(s) ==
    \E e \in DOMAIN grants :
        /\ grants[e].status = "ACTIVE" /\ grants[e].left <= 0
        /\ Begin(s, Opened("expire", "product", e, None, None, None))

-----------------------------------------------------------------------------
(* Mutant: the row of the product is read and not locked. *)
LockProductForShare(s) ==
    /\ At(s, "product")
    /\ Do(s, CASE tx[s].op = "join" -> "insert"
               [] tx[s].op = "leave" -> "entry"
               [] OTHER -> "grant",
          {}, SeenEntries(s), SeenGrants(s), SeenUnits(s), {})

(* Mutant: the worker locks the grant before the product. *)
LockProductGrantFirst(s) ==
    /\ At(s, "product")
    /\ IF tx[s].op = "expire" /\ tx[s].locks = {}
       THEN Lock(s, "product", <<"grant", tx[s].e>>)
       ELSE Lock(s, CASE tx[s].op = "join" -> "insert"
                      [] tx[s].op = "leave" -> "entry"
                      [] OTHER -> "grant",
                 <<"product", tx[s].e[1]>>)

LockProduct(s) ==
    /\ At(s, "product")
    /\ Lock(s, CASE tx[s].op = "join" -> "insert"
                 [] tx[s].op = "leave" -> "entry"
                 [] OTHER -> "grant",
            <<"product", tx[s].e[1]>>)

(* The body of JoinQueue up to Promote. *)
Insert(s) ==
    /\ At(s, "insert")
    /\ LET p == tx[s].e[1]
           e == <<p, nextTicket[p]>>
       IN  IF \/ ProductStatus[p] # "ACTIVE" \/ ~QueueEnabled[p]
              \/ AllSold(units, p) \/ Active(entries, tx[s].user, p) # {}
              \/ nextTicket[p] > MaxTicket
           THEN End(s)
           ELSE /\ tx' = [tx EXCEPT
                      ![s].at = "promote",
                      ![s].e = e,
                      ![s].locks = @ \cup {<<"entry", e>>},
                      ![s].nextTicket = Row(p, nextTicket[p] + 1),
                      ![s].entries = Row(e, [user |-> tx[s].user, status |-> "WAITING"])]
                /\ UNCHANGED vars

(* LockEntryByID, by LeaveQueue under the product's lock and by            *)
(* StartCheckout under the grant's.                                        *)
LeaveLocksEntry(s) ==
    /\ At(s, "entry") /\ tx[s].op = "leave"
    /\ LET e == tx[s].e
       IN  \/ /\ entries[e].status = "WAITING"
              /\ Do(s, "commit", {<<"entry", e>>},
                    MarkEntryStatus(entries, e, "WAITING", "CANCELLED"),
                    grants, units, {})
           \/ /\ entries[e].status = "GRANTED"
              /\ Lock(s, "grant", <<"entry", e>>)
           \/ /\ entries[e].status \notin {"WAITING", "GRANTED"}
              /\ Free(s, {<<"entry", e>>})
              /\ End(s)

CheckoutLocksEntry(s) ==
    /\ At(s, "entry") /\ tx[s].op = "checkout"
    /\ LET e == tx[s].e
       IN  \/ /\ entries[e].status = "GRANTED"
              /\ Do(s, "commit", {<<"entry", e>>},
                    MarkEntryStatus(entries, e, "GRANTED", "CHECKOUT_PENDING"),
                    UpdateGrantStatus(grants, e, "ACTIVE", "CHECKOUT_PENDING"),
                    units, {e})
           \/ /\ entries[e].status # "GRANTED"
              /\ Free(s, {<<"entry", e>>})
              /\ End(s)

(* What each operation demands of the grant once it has locked it.         *)
GrantAllows(s) ==
    LET g == grants[tx[s].e]
    IN  CASE tx[s].op = "leave" -> g.status = "ACTIVE"
          [] tx[s].op = "checkout" -> g.status = "ACTIVE" /\ g.left + tx[s].lag > 0
          [] tx[s].op = "expire" -> g.status = "ACTIVE" /\ g.left + tx[s].lag < 0
          [] tx[s].op = "pay" -> /\ tx[s].key \notin DOMAIN attempts
                                 /\ g.status = "CHECKOUT_PENDING"

(* Mutant: a refused operation returns without a rollback. *)
LockGrantStaysOpen(s) ==
    /\ At(s, "grant")
    /\ LET e == tx[s].e
       IN  \/ ~GrantAllows(s) /\ Lock(s, "idle", <<"grant", e>>)
           \/ /\ GrantAllows(s)
              /\ IF tx[s].op # "leave"
                 THEN Lock(s, CASE tx[s].op = "checkout" -> "entry"
                                [] tx[s].op = "pay" -> "attempt"
                                [] tx[s].op = "expire" -> "settle",
                           <<"grant", e>>)
                 ELSE Do(s, "promote", {<<"grant", e>>, <<"unit", grants[e].unit>>},
                         SeenEntries(s),
                         UpdateGrantStatus(grants, e, "ACTIVE", "CANCELLED"),
                         MarkUnitAvailable(units, grants[e].unit), {e})

LockGrant(s) ==
    /\ At(s, "grant")
    /\ LET e == tx[s].e
       IN  \/ /\ ~GrantAllows(s)
              /\ Free(s, {<<"grant", e>>})
              /\ End(s)
           \/ /\ GrantAllows(s)
              /\ IF tx[s].op # "leave"
                 THEN Lock(s, CASE tx[s].op = "checkout" -> "entry"
                                [] tx[s].op = "pay" -> "attempt"
                                [] tx[s].op = "expire" -> "settle",
                           <<"grant", e>>)
                 ELSE Do(s, "promote", {<<"grant", e>>, <<"unit", grants[e].unit>>},
                         SeenEntries(s),
                         UpdateGrantStatus(grants, e, "ACTIVE", "CANCELLED"),
                         MarkUnitAvailable(units, grants[e].unit), {e})

(* Mutant: the insert neither waits for the same key nor notices it. *)
InsertAttemptBlindly(s) ==
    /\ At(s, "attempt")
    /\ tx' = [tx EXCEPT
          ![s].at = "settle",
          ![s].attempts = Row(tx[s].key, [entry |-> tx[s].e, result |-> tx[s].result])]
    /\ UNCHANGED vars

(* CreateAttempt: an uncommitted attempt with the same key makes the       *)
(* insert wait; a committed one makes it insert nothing, and the stored    *)
(* attempt is the answer.                                                  *)
InsertAttempt(s) ==
    /\ At(s, "attempt")
    /\ Free(s, {<<"key", tx[s].key>>})
    /\ IF tx[s].key \in DOMAIN attempts
       THEN End(s)
       ELSE /\ tx' = [tx EXCEPT
                  ![s].at = "settle",
                  ![s].locks = @ \cup {<<"key", tx[s].key>>},
                  ![s].attempts = Row(tx[s].key, [entry |-> tx[s].e, result |-> tx[s].result])]
            /\ UNCHANGED vars

(* CompleteCheckoutPending, or the worker's transaction, up to the point   *)
(* where it closes the queue or promotes.                                  *)
Settle(s) ==
    /\ At(s, "settle")
    /\ LET e == tx[s].e
           u == grants[e].unit
           rows == {<<"entry", e>>, <<"unit", u>>}
           Pay(entryTo, grantTo, us, next) ==
               Do(s, next, rows,
                  MarkEntryStatus(entries, e, "CHECKOUT_PENDING", entryTo),
                  UpdateGrantStatus(grants, e, "CHECKOUT_PENDING", grantTo), us, {e})
       IN  CASE tx[s].op = "expire" ->
                  Do(s, "promote", rows,
                     MarkEntryStatus(entries, e, "GRANTED", "EXPIRED"),
                     UpdateGrantStatus(grants, e, "ACTIVE", "EXPIRED"),
                     MarkUnitAvailable(units, u), {e})
             [] tx[s].op = "pay" /\ tx[s].result = "success" ->
                  Pay("PURCHASED", "PURCHASED", MarkUnitSold(units, u), "close")
             [] OTHER ->
                  Pay("PAYMENT_FAILED", "FAILED", MarkUnitAvailable(units, u), "promote")

Close(s) ==
    /\ At(s, "close")
    /\ LET es == SeenEntries(s)
           p == tx[s].e[1]
           closed == IF AllSold(SeenUnits(s), p) THEN Waiting(es, p) ELSE {}
       IN  Do(s, "commit", {<<"entry", e>> : e \in closed},
              [e \in DOMAIN es |-> IF e \in closed THEN [es[e] EXCEPT !.status = "SOLD_OUT"]
                                                   ELSE es[e]],
              SeenGrants(s), SeenUnits(s), closed)

(* The entry LockOldestWaiting locks. *)
Oldest(s) ==
    LET W == Waiting(SeenEntries(s), tx[s].e[1])
    IN  {e \in W : Before(e, W) = {}}

(* Mutant: any waiting entry, not the oldest. *)
NextPairAnyEntry(s) ==
    LET W == Waiting(SeenEntries(s), tx[s].e[1])
        A == Available(SeenUnits(s), tx[s].e[1])
    IN  {m \in W \X A : Below(m[2], A) = {}}

(* The rows the next turn of Promote's loop locks, if there is one. *)
NextPair(s) ==
    LET A == Available(SeenUnits(s), tx[s].e[1])
    IN  {m \in Oldest(s) \X A : Below(m[2], A) = {}}

(* One turn of the loop; the last may lock an entry before it finds no     *)
(* unit.  A grant is created with TTL left at the start of the             *)
(* transaction; Commit takes off the time that has passed since.           *)
PromoteOne(s) ==
    /\ At(s, "promote")
    /\ \/ \E m \in NextPair(s) :
             Do(s, "promote", {<<"entry", m[1]>>, <<"unit", m[2]>>},
                MarkEntryStatus(SeenEntries(s), m[1], "WAITING", "GRANTED"),
                Over(Row(m[1], [unit |-> m[2], status |-> "ACTIVE",
                                left |-> TTL, age |-> 0]),
                     SeenGrants(s)),
                [SeenUnits(s) EXCEPT ![m[2]] = [status |-> "RESERVED", grant |-> m[1]]],
                {m[1]})
       \/ /\ NextPair(s) = {}
          /\ Do(s, IF tx[s].op = "leave" THEN "mark" ELSE "commit",
                {<<"entry", e>> : e \in Oldest(s)},
                SeenEntries(s), SeenGrants(s), SeenUnits(s), {})

(* LeaveQueue's own entry, after the release has promoted the next. *)
LeaveMarksEntry(s) ==
    /\ At(s, "mark")
    /\ Do(s, "commit", {},
          MarkEntryStatus(SeenEntries(s), tx[s].e, "GRANTED", "CANCELLED"),
          SeenGrants(s), SeenUnits(s), {})

Commit(s) ==
    /\ At(s, "commit")
    /\ nextTicket' = Over(tx[s].nextTicket, nextTicket)
    /\ entries' = SeenEntries(s)
    /\ grants' = Over([e \in DOMAIN tx[s].grants |->
                         IF tx[s].grants[e].status = "ACTIVE"
                         THEN [tx[s].grants[e] EXCEPT !.left = @ - tx[s].lag]
                         ELSE tx[s].grants[e]],
                       grants)
    /\ units' = SeenUnits(s)
    /\ attempts' = Over(tx[s].attempts, attempts)
    /\ announced' = tx[s].said
    /\ tx' = [tx EXCEPT ![s] = None]

-----------------------------------------------------------------------------
(* The row a session that has not got it yet asks for with its next        *)
(* statement, for the statements that can find it locked.                  *)
Wanted(s) ==
    IF tx[s] = None THEN {}
    ELSE CASE tx[s].at = "product" -> {<<"product", tx[s].e[1]>>}
           [] tx[s].at = "entry" -> {<<"entry", tx[s].e>>}
           [] tx[s].at = "grant" -> {<<"grant", tx[s].e>>}
           [] tx[s].at = "attempt" -> {<<"key", tx[s].key>>}
           [] OTHER -> {}

WaitsFor(s, t) == s # t /\ tx[t] # None /\ Wanted(s) \cap tx[t].locks # {}

(* s is on a cycle: in a set of sessions whose members wait for one        *)
(* another along a permutation.  Waiting for a deadlocked session is not   *)
(* enough.                                                                 *)
Deadlocked(s) ==
    \E C \in SUBSET Sessions :
        s \in C /\ \E next \in Bijection(C, C) : \A a \in C : WaitsFor(a, next[a])

(* PostgreSQL finds the cycle after deadlock_timeout and aborts one of its *)
(* transactions.                                                           *)
DeadlockAbort(s) == Deadlocked(s) /\ End(s)

(* The process, or its connection, goes away: the transaction rolls back.  *)
Crash(s) == tx[s] # None /\ End(s)

(* A tick finds every open transaction one tick older, and none of them    *)
(* may outlast MaxLag.                                                     *)
TxTick ==
    /\ \A s \in Sessions : tx[s] # None => tx[s].lag < MaxLag
    /\ tx' = [s \in Sessions |-> IF tx[s] = None THEN None
                                 ELSE [tx[s] EXCEPT !.lag = @ + 1]]
    /\ \/ Tick
       \/ (\A e \in DOMAIN grants : Elapse(grants[e]) = grants[e]) /\ UNCHANGED vars

Statement(s) ==
    \/ LockProduct(s)
    \/ Insert(s)
    \/ LeaveLocksEntry(s)
    \/ CheckoutLocksEntry(s)
    \/ LockGrant(s)
    \/ InsertAttempt(s)
    \/ Settle(s)
    \/ Close(s)
    \/ PromoteOne(s)
    \/ LeaveMarksEntry(s)
    \/ Commit(s)

TxInit == Init /\ tx = [s \in Sessions |-> None]

TxNext ==
    \/ \E s \in Sessions, u \in Users, p \in Products : BeginJoin(s, u, p)
    \/ \E s \in Sessions : BeginLeave(s)
    \/ \E s \in Sessions : BeginCheckout(s)
    \/ \E s \in Sessions, k \in Keys, r \in Results : BeginPay(s, k, r)
    \/ \E s \in Sessions : BeginExpire(s)
    \/ \E s \in Sessions : Statement(s)
    \/ \E s \in Sessions : DeadlockAbort(s)
    \/ \E s \in Sessions : Crash(s)
    \/ TxTick

TxSpec == TxInit /\ [][TxNext]_txVars

(* A session goes on with its transaction; a lock that is released again   *)
(* and again is granted in the end, for waiters queue up in PostgreSQL;    *)
(* and cycles are detected.                                                *)
TxFairSpec ==
    /\ TxSpec
    /\ \A s \in Sessions : SF_txVars(Statement(s)) /\ WF_txVars(DeadlockAbort(s))

-----------------------------------------------------------------------------
(* Every commit is one step of FairQueue and nothing else is: whatever the *)
(* interleaving of statements, crashes and aborted deadlocks, the          *)
(* operations behave as if they ran one at a time.                         *)
CommitsAreAtomic == Spec

(* The lock of the product makes the rows that promotion, closing and      *)
(* settling write uncontended: none of them can wait, so none can be part  *)
(* of a deadlock.                                                          *)
WriteSet(s) ==
    CASE At(s, "promote") -> {<<"entry", e>> : e \in Oldest(s)}
                                \cup {<<"unit", m[2]>> : m \in NextPair(s)}
      [] At(s, "settle") -> {<<"entry", tx[s].e>>, <<"unit", grants[tx[s].e].unit>>}
      [] At(s, "close") -> {<<"entry", e>> : e \in Waiting(entries, tx[s].e[1])}
      [] OTHER -> {}

WritesNeverWait == \A s \in Sessions : Free(s, WriteSet(s))

(* A cycle of waiting sessions is always the same one: a user who leaves,  *)
(* holding the entry and asking for the grant, and the same user's         *)
(* checkout, holding the grant and asking for the entry.                   *)
OnlyLeaveMeetsCheckout ==
    \A s \in Sessions : Deadlocked(s) =>
        \E t \in Sessions \ {s} :
            /\ WaitsFor(s, t) /\ WaitsFor(t, s)
            /\ {tx[s].op, tx[t].op} = {"leave", "checkout"}
            /\ tx[s].e = tx[t].e

(* Every transaction ends: no session waits for ever.  Holds of TxFairSpec.*)
TransactionsEnd == \A s \in Sessions : tx[s] # None ~> tx[s] = None
=============================================================================
