------------------------- MODULE FairQueueTxProofs -------------------------
(***************************************************************************)
(* What the row locks of FairQueueTx are for, proved for every number of   *)
(* sessions, products, units and users.                                    *)
(*                                                                         *)
(* LockInv is the discipline the services keep without stating it: where a *)
(* transaction is in its code decides which rows it has locked.  All but a *)
(* checkout hold the product from their first statement on; a checkout     *)
(* holds its grant, and its entry once it has found that entry GRANTED.    *)
(* From it follow both invariants of the module: what promotion, closing   *)
(* and settling write is never locked by somebody else, and a deadlock is  *)
(* always a leave and a checkout of the same place.                        *)
(*                                                                         *)
(* The discipline is inductive only together with what it protects, so     *)
(* LockInv also says what the tables look like to each open transaction.   *)
(***************************************************************************)
EXTENDS FairQueueTx, TLAPS

(***************************************************************************)
(* The rows an open transaction t can name: the product's, the grant and   *)
(* the entry it is about, and its idempotency key.                         *)
(***************************************************************************)
Fields == {"op", "at", "e", "user", "key", "result", "lag", "locks", "said",
           "nextTicket", "entries", "grants", "units", "attempts"}

ProductRow(t) == <<"product", t.e[1]>>
EntryRow(t) == <<"entry", t.e>>
GrantRow(t) == <<"grant", t.e>>
KeyRow(t) == <<"key", t.key>>

(* Where a transaction is decides what it has locked.  A checkout starts   *)
(* at the grant and never locks the product; everybody else locks the      *)
(* product before anything else.                                           *)
CheckoutPlan(t) ==
    \/ t.at = "grant" /\ t.locks = {}
    \/ t.at = "entry" /\ t.locks = {GrantRow(t)}
    \/ t.at = "commit" /\ t.locks = {GrantRow(t), EntryRow(t)}

ProductPlan(t) ==
    \/ t.at = "product" /\ t.locks = {}
    \/ t.at = "insert" /\ t.op = "join" /\ t.locks = {ProductRow(t)}
    \/ t.at = "entry" /\ t.op = "leave" /\ t.locks = {ProductRow(t)}
    \/ t.at = "grant" /\ t.op = "leave" /\ t.locks = {ProductRow(t), EntryRow(t)}
    \/ t.at = "grant" /\ t.op \in {"pay", "expire"} /\ t.locks = {ProductRow(t)}
    \/ t.at = "attempt" /\ t.op = "pay" /\ t.locks = {ProductRow(t), GrantRow(t)}
    \/ t.at = "settle" /\ t.op \in {"pay", "expire"}
       /\ {ProductRow(t), GrantRow(t)} \subseteq t.locks
    \/ t.at = "promote" /\ ProductRow(t) \in t.locks
       /\ (t.op = "leave" => EntryRow(t) \in t.locks)
    \/ t.at = "mark" /\ t.op = "leave" /\ {ProductRow(t), EntryRow(t)} \subseteq t.locks
    \/ t.at \in {"close", "commit"} /\ ProductRow(t) \in t.locks

FollowsPlan(t) ==
    /\ t.op \in {"join", "leave", "checkout", "pay", "expire"}
    /\ IF t.op = "checkout" THEN CheckoutPlan(t) ELSE ProductPlan(t)

(* All of them are rows of one product.                                    *)
OwnRows(t) ==
    {ProductRow(t), GrantRow(t), KeyRow(t)}
        \cup {<<"entry", x>> : x \in {y \in EntryIds : y[1] = t.e[1]}}
        \cup {<<"unit", u>> : u \in UnitsOf(t.e[1])}

(* Entries and grants as a transaction finds and as it leaves them: rows   *)
(* of the right form, and no entry GRANTED that has no grant.              *)
Tables(es, gs) ==
    /\ es \in [DOMAIN es -> [user : Users, status : EntryStatus]]
    /\ DOMAIN es \subseteq EntryIds
    /\ gs \in [DOMAIN gs -> [unit : Units, status : GrantStatus, left : Int, age : Int]]
    /\ DOMAIN gs \subseteq DOMAIN es
    /\ \A x \in DOMAIN gs : ProductOf[gs[x].unit] = x[1]
    /\ \A x \in DOMAIN es : es[x].status = "GRANTED" => x \in DOMAIN gs

(* A ticket is issued once: next_ticket is above every one in use.         *)
Issued(es, nt) ==
    /\ nt \in [Products -> Nat \ {0}]
    /\ \A x \in DOMAIN es : x[2] < nt[x[1]]

(* Until it settles, promotes or cancels, a transaction writes nothing.    *)
Reading == {"product", "insert", "entry", "grant", "attempt", "settle"}

Writes(t) ==
    /\ t.at \in Reading => DOMAIN t.entries = {} /\ DOMAIN t.grants = {}
    /\ \A x \in DOMAIN t.entries : <<"entry", x>> \in t.locks
    /\ \A p \in DOMAIN t.nextTicket :
          /\ <<"product", p>> \in t.locks
          /\ t.nextTicket[p] = nextTicket[p] + 1
    /\ Tables(Over(t.entries, entries), Over(t.grants, grants))
    /\ Issued(Over(t.entries, entries), Over(t.nextTicket, nextTicket))

(* What a transaction has read and nobody can have changed since.          *)
Knows(t) ==
    /\ t.op = "join" => t.user \in Users
    /\ t.op = "leave" => t.e \in DOMAIN entries
    /\ t.op = "leave" /\ t.at = "grant" => t.e \in DOMAIN grants
    /\ t.op \in {"checkout", "pay", "expire"} => t.e \in DOMAIN grants
    /\ t.op = "checkout" /\ t.at = "commit" => entries[t.e].status = "GRANTED"

(* All of this, for one open transaction.                                  *)
Legal(t) ==
    /\ t = [f \in Fields |-> t[f]]
    /\ t.e \in Products \X Nat /\ t.lag \in Nat
    /\ FollowsPlan(t) /\ t.locks \subseteq OwnRows(t)
    /\ Writes(t) /\ Knows(t)

(* A row is locked by one session at a time.                               *)
Exclusive ==
    \A s, t \in Sessions :
        s # t /\ tx[s] # None /\ tx[t] # None => tx[s].locks \cap tx[t].locks = {}

LockInv ==
    /\ tx = [s \in Sessions |-> tx[s]]
    /\ Tables(entries, grants) /\ Issued(entries, nextTicket)
    /\ \A s \in Sessions : tx[s] # None => Legal(tx[s])
    /\ Exclusive

-----------------------------------------------------------------------------
(***************************************************************************)
(* Tables and rows.                                                        *)
(***************************************************************************)

LEMMA OverDomain ==
    ASSUME NEW f, NEW g
    PROVE  /\ DOMAIN Over(f, g) = DOMAIN f \cup DOMAIN g
           /\ \A x \in DOMAIN f : Over(f, g)[x] = f[x]
           /\ \A x \in DOMAIN g : x \notin DOMAIN f => Over(f, g)[x] = g[x]
BY DEF Over

(* The rows written, put over the table, give the table meant.             *)
LEMMA OverWritten ==
    ASSUME NEW new, NEW old, new = [x \in DOMAIN new |-> new[x]],
           DOMAIN old \subseteq DOMAIN new
    PROVE  /\ Over(Written(new, old), old) = new
           /\ \A x \in DOMAIN Written(new, old) :
                 x \in DOMAIN new /\ (x \in DOMAIN old => new[x] # old[x])
<1> DEFINE W == Written(new, old)
<1>1. /\ DOMAIN W = {x \in DOMAIN new : x \in DOMAIN old => new[x] # old[x]}
      /\ \A x \in DOMAIN W : W[x] = new[x]
  BY DEF Written
<1>2. DOMAIN W \cup DOMAIN old = DOMAIN new
  BY <1>1
<1>3. \A x \in DOMAIN new : (IF x \in DOMAIN W THEN W[x] ELSE old[x]) = new[x]
  BY <1>1
<1>4. Over(W, old) = [x \in DOMAIN new |-> new[x]]
  BY <1>2, <1>3 DEF Over
<1> QED BY <1>1, <1>4

(* What a statement leaves in the record of its transaction.               *)
LEMMA DoShape ==
    ASSUME NEW s \in Sessions, tx = [q \in Sessions |-> tx[q]],
           tx[s] = [f \in Fields |-> tx[s][f]],
           NEW next, NEW rows, NEW es, NEW gs, NEW us, NEW said,
           Do(s, next, rows, es, gs, us, said)
    PROVE  /\ tx' = [tx EXCEPT ![s] = tx'[s]]
           /\ tx'[s] = [f \in Fields |-> tx'[s][f]]
           /\ tx'[s].at = next
           /\ tx'[s].entries = Written(es, entries)
           /\ tx'[s].grants = Written(gs, grants)
           /\ tx'[s].op = tx[s].op /\ tx'[s].e = tx[s].e
           /\ tx'[s].user = tx[s].user /\ tx'[s].key = tx[s].key
           /\ tx'[s].lag = tx[s].lag /\ tx'[s].nextTicket = tx[s].nextTicket
<1> DEFINE t == [tx[s] EXCEPT !.at = next, !.locks = @ \cup rows,
                   !.said = @ \cup said, !.entries = Written(es, entries),
                   !.grants = Written(gs, grants), !.units = Written(us, units)]
<1>1. tx' = [tx EXCEPT ![s] = t]
  BY DEF Do
<1>2. tx'[s] = t
  BY <1>1
<1>3. /\ t = [f \in Fields |-> t[f]]
      /\ t.at = next /\ t.locks = tx[s].locks \cup rows
      /\ t.entries = Written(es, entries) /\ t.grants = Written(gs, grants)
      /\ t.op = tx[s].op /\ t.e = tx[s].e /\ t.user = tx[s].user /\ t.key = tx[s].key
      /\ t.lag = tx[s].lag /\ t.nextTicket = tx[s].nextTicket
  BY DEF Fields
<1> HIDE DEF t
<1> QED BY <1>1, <1>2, <1>3

LEMMA DoLocks ==
    ASSUME NEW s \in Sessions, tx = [q \in Sessions |-> tx[q]],
           tx[s] = [f \in Fields |-> tx[s][f]],
           NEW next, NEW rows, NEW es, NEW gs, NEW us, NEW said,
           Do(s, next, rows, es, gs, us, said)
    PROVE  tx'[s].locks = tx[s].locks \cup rows
<1> DEFINE t == [tx[s] EXCEPT !.at = next, !.locks = @ \cup rows,
                   !.said = @ \cup said, !.entries = Written(es, entries),
                   !.grants = Written(gs, grants), !.units = Written(us, units)]
<1>1. tx' = [tx EXCEPT ![s] = t]
  BY DEF Do
<1>2. tx'[s] = t
  BY <1>1
<1>3. t.locks = tx[s].locks \cup rows
  BY DEF Fields
<1> HIDE DEF t
<1> QED BY <1>2, <1>3

LEMMA DoHolds ==
    ASSUME NEW s \in Sessions, tx = [q \in Sessions |-> tx[q]],
           tx[s] = [f \in Fields |-> tx[s][f]],
           NEW next, NEW rows, NEW es, NEW gs, NEW us, NEW said,
           Do(s, next, rows, es, gs, us, said)
    PROVE  tx[s].locks \subseteq tx'[s].locks
BY DoLocks

(***************************************************************************)
(* One session moves.  The discipline is kept if its new record is legal   *)
(* and what it has locked was free.                                        *)
(***************************************************************************)

LEMMA OneMoves ==
    ASSUME LockInv, NEW s \in Sessions, UNCHANGED vars,
           NEW t, tx' = [tx EXCEPT ![s] = t],
           t # None => Legal(t),
           t # None => \A q \in Sessions \ {s} :
                          tx[q] # None => tx[q].locks \cap t.locks = {}
    PROVE  LockInv'
<1>1. tx' = [q \in Sessions |-> tx'[q]] /\ tx'[s] = t
      /\ \A q \in Sessions \ {s} : tx'[q] = tx[q]
  BY DEF LockInv
<1>2. Tables(entries, grants)' /\ Issued(entries, nextTicket)'
  BY DEF LockInv, vars, Tables, Issued
<1>3. ASSUME NEW q \in Sessions, tx'[q] # None
      PROVE  Legal(tx[q])'
  <2>1. Legal(tx'[q])
    BY <1>1, <1>3 DEF LockInv
  <2>2. FollowsPlan(tx[q])'
    BY <2>1 DEF Legal, FollowsPlan, CheckoutPlan, ProductPlan, ProductRow, EntryRow,
                GrantRow
  <2>3. tx'[q].locks \subseteq OwnRows(tx'[q]) /\ OwnRows(tx[q])' = OwnRows(tx'[q])
    BY <2>1 DEF Legal, OwnRows, ProductRow, GrantRow, KeyRow
  <2>4. Tables(Over(tx[q].entries, entries), Over(tx[q].grants, grants))'
    BY <2>1 DEF vars, Legal, Writes, Tables, Over
  <2>5. Issued(Over(tx[q].entries, entries), Over(tx[q].nextTicket, nextTicket))'
    <3>1. /\ Over(tx[q].entries, entries)' = Over(tx'[q].entries, entries)
          /\ Over(tx[q].nextTicket, nextTicket)' = Over(tx'[q].nextTicket, nextTicket)
      BY DEF vars, Over
    <3>2. Issued(Over(tx'[q].entries, entries), Over(tx'[q].nextTicket, nextTicket))
      BY <2>1 DEF Legal, Writes
    <3> QED BY <3>1, <3>2 DEF Issued
  <2>6. Writes(tx[q])'
    BY <2>1, <2>4, <2>5 DEF vars, Legal, Writes
  <2>7. Knows(tx[q])'
    BY <2>1 DEF vars, Legal, Knows
  <2> QED BY <2>1, <2>2, <2>3, <2>6, <2>7 DEF Legal
<1>4. Exclusive'
  BY <1>1 DEF Exclusive, LockInv
<1> QED BY <1>1, <1>2, <1>3, <1>4 DEF LockInv

(* A statement keeps it if the tables it leaves are well formed and it has *)
(* locked the rows it changes.                                             *)
LEMMA DoKeeps ==
    ASSUME LockInv, NEW s \in Sessions, tx[s] # None,
           NEW next, NEW rows, NEW es, NEW gs, NEW us, NEW said,
           Do(s, next, rows, es, gs, us, said),
           Tables(es, gs), Issued(es, Over(tx[s].nextTicket, nextTicket)),
           DOMAIN entries \subseteq DOMAIN es, DOMAIN grants \subseteq DOMAIN gs,
           rows \subseteq OwnRows(tx[s]),
           \A x \in DOMAIN es :
              \/ x \in DOMAIN entries /\ es[x] = entries[x]
              \/ <<"entry", x>> \in tx[s].locks \cup rows,
           next \in Reading => es = entries /\ gs = grants,
           FollowsPlan(tx'[s]), Knows(tx'[s])
    PROVE  LockInv'
<1> DEFINE t == tx'[s]
<1>1. Legal(tx[s]) /\ tx = [q \in Sessions |-> tx[q]]
      /\ tx[s] = [f \in Fields |-> tx[s][f]]
  BY DEF LockInv, Legal
<1>2. /\ tx' = [tx EXCEPT ![s] = t]
      /\ t = [f \in Fields |-> t[f]]
      /\ t.at = next /\ t.locks = tx[s].locks \cup rows
      /\ t.entries = Written(es, entries)
      /\ t.grants = Written(gs, grants)
      /\ t.op = tx[s].op /\ t.e = tx[s].e /\ t.key = tx[s].key
      /\ t.lag = tx[s].lag /\ t.nextTicket = tx[s].nextTicket
  BY <1>1, DoShape, DoLocks
<1>3. UNCHANGED vars /\ Free(s, rows)
  BY DEF Do
<1> HIDE DEF t
<1>4. /\ Over(t.entries, entries) = es /\ Over(t.grants, grants) = gs
      /\ \A x \in DOMAIN t.entries :
            x \in DOMAIN es /\ (x \in DOMAIN entries => es[x] # entries[x])
      /\ \A x \in DOMAIN t.grants :
            x \in DOMAIN gs /\ (x \in DOMAIN grants => gs[x] # grants[x])
  <2>1. es = [x \in DOMAIN es |-> es[x]] /\ gs = [x \in DOMAIN gs |-> gs[x]]
    BY DEF Tables
  <2> QED BY <2>1, <1>2, OverWritten
<1>5. \A x \in DOMAIN t.entries : <<"entry", x>> \in t.locks
  BY <1>2, <1>4
<1>6. \A p \in DOMAIN t.nextTicket :
          /\ <<"product", p>> \in t.locks
          /\ t.nextTicket[p] = nextTicket[p] + 1
  BY <1>1, <1>2 DEF Legal, Writes
<1>7. Writes(t)
  <2>1. t.at \in Reading => DOMAIN t.entries = {} /\ DOMAIN t.grants = {}
    BY <1>2, <1>4
  <2> QED BY <2>1, <1>2, <1>4, <1>5, <1>6 DEF Writes
<1>8. OwnRows(t) = OwnRows(tx[s])
  BY <1>2 DEF OwnRows, ProductRow, GrantRow, KeyRow
<1>9. t.locks \subseteq OwnRows(t)
  BY <1>1, <1>2, <1>8 DEF Legal
<1>10. Legal(t)
  BY <1>1, <1>2, <1>7, <1>9 DEF Legal, t
<1>11. \A q \in Sessions \ {s} : tx[q] # None => tx[q].locks \cap t.locks = {}
  BY <1>2, <1>3 DEF Free, LockInv, Exclusive
<1> QED BY <1>2, <1>3, <1>10, <1>11, OneMoves

(* A transaction that opens holds nothing and has written nothing.         *)
LEMMA OverNothing ==
    ASSUME NEW f, f = [x \in DOMAIN f |-> f[x]]
    PROVE  Over(<<>>, f) = f
<1>1. DOMAIN <<>> = {}
  OBVIOUS
<1> QED BY <1>1 DEF Over

LEMMA OpenedLegal ==
    ASSUME LockInv, NEW op, NEW at, NEW e \in Products \X Nat, NEW u, NEW k, NEW r,
           FollowsPlan(Opened(op, at, e, u, k, r)), Knows(Opened(op, at, e, u, k, r))
    PROVE  Legal(Opened(op, at, e, u, k, r)) /\ Opened(op, at, e, u, k, r).locks = {}
<1> DEFINE t == Opened(op, at, e, u, k, r)
<1>1. /\ t = [f \in Fields |-> t[f]]
      /\ t.e = e /\ t.lag = 0 /\ t.locks = {}
      /\ t.entries = <<>> /\ t.grants = <<>> /\ t.nextTicket = <<>>
  BY DEF Opened, Fields
<1>2. Tables(entries, grants) /\ Issued(entries, nextTicket)
  BY DEF LockInv
<1>3. Over(<<>>, entries) = entries /\ Over(<<>>, grants) = grants
      /\ Over(<<>>, nextTicket) = nextTicket
  BY <1>2, OverNothing DEF Tables, Issued
<1>4. DOMAIN <<>> = {}
  OBVIOUS
<1>5. Writes(t)
  <2> HIDE DEF t
  <2> QED BY <1>1, <1>2, <1>3, <1>4 DEF Writes
<1>6. FollowsPlan(t) /\ Knows(t)
  OBVIOUS
<1> HIDE DEF t
<1>7. Legal(t)
  <2>1. t.e \in Products \X Nat
    BY <1>1
  <2>3. t.lag \in Nat
    BY <1>1
  <2>4. t.locks \subseteq OwnRows(t)
    BY <1>1
  <2>2. t = [f \in Fields |-> t[f]]
    BY <1>1
  <2> QED BY <2>1, <2>2, <2>3, <2>4, <1>5, <1>6 DEF Legal
<1> QED BY <1>1, <1>7 DEF t

LEMMA BeginKeeps ==
    ASSUME LockInv, NEW s \in Sessions, NEW op, NEW at, NEW e \in Products \X Nat,
           NEW u, NEW k, NEW r, Begin(s, Opened(op, at, e, u, k, r)),
           FollowsPlan(Opened(op, at, e, u, k, r)), Knows(Opened(op, at, e, u, k, r))
    PROVE  LockInv'
<1> DEFINE t == Opened(op, at, e, u, k, r)
<1>1. Legal(t) /\ t.locks = {}
  BY OpenedLegal
<1>2. tx' = [tx EXCEPT ![s] = t] /\ UNCHANGED vars
  BY DEF Begin
<1> HIDE DEF t
<1> QED BY <1>1, <1>2, OneMoves

LEMMA Beginnings ==
    ASSUME LockInv, NEW s \in Sessions,
           \/ \E u \in Users, p \in Products : BeginJoin(s, u, p)
           \/ BeginLeave(s) \/ BeginCheckout(s)
           \/ \E k \in Keys, r \in Results : BeginPay(s, k, r)
           \/ BeginExpire(s)
    PROVE  LockInv'
<1> USE DEF FollowsPlan, CheckoutPlan, ProductPlan, Knows, Opened
<1>1. /\ DOMAIN entries \subseteq Products \X Nat
      /\ DOMAIN grants \subseteq DOMAIN entries
  BY ConstantsAssumption DEF LockInv, Tables, EntryIds
<1>2. ASSUME NEW u \in Users, NEW p \in Products, BeginJoin(s, u, p)
      PROVE  LockInv'
  <2>1. Begin(s, Opened("join", "product", <<p, 0>>, u, None, None))
    BY <1>2 DEF BeginJoin
  <2>2. <<p, 0>> \in Products \X Nat
    OBVIOUS
  <2> QED BY <2>1, <2>2, BeginKeeps
<1>3. CASE BeginLeave(s)
  <2>1. PICK e \in DOMAIN entries :
           Begin(s, Opened("leave", "product", e, entries[e].user, None, None))
    BY <1>3 DEF BeginLeave
  <2> QED BY <1>1, <2>1, BeginKeeps
<1>4. CASE BeginCheckout(s)
  <2>1. PICK e \in DOMAIN grants :
           Begin(s, Opened("checkout", "grant", e, entries[e].user, None, None))
    BY <1>4 DEF BeginCheckout
  <2> QED BY <1>1, <2>1, BeginKeeps
<1>5. ASSUME NEW k \in Keys, NEW r \in Results, BeginPay(s, k, r)
      PROVE  LockInv'
  <2>1. PICK e \in DOMAIN grants :
           Begin(s, Opened("pay", "product", e, entries[e].user, k, r))
    BY <1>5 DEF BeginPay
  <2> QED BY <1>1, <2>1, BeginKeeps
<1>6. CASE BeginExpire(s)
  <2>1. PICK e \in DOMAIN grants :
           Begin(s, Opened("expire", "product", e, None, None, None))
    BY <1>6 DEF BeginExpire
  <2> QED BY <1>1, <2>1, BeginKeeps
<1> QED BY <1>2, <1>3, <1>4, <1>5, <1>6

LEMMA EndKeeps ==
    ASSUME LockInv, NEW s \in Sessions, End(s)
    PROVE  LockInv'
BY OneMoves DEF End

(* What LockInv says of an open transaction, in the terms of its tables.   *)
LEMMA SeenFacts ==
    ASSUME LockInv, NEW s \in Sessions, tx[s] # None
    PROVE  /\ Legal(tx[s]) /\ FollowsPlan(tx[s])
           /\ tx[s].e \in Products \X Nat
           /\ Tables(SeenEntries(s), SeenGrants(s))
           /\ Issued(SeenEntries(s), Over(tx[s].nextTicket, nextTicket))
           /\ DOMAIN entries \subseteq DOMAIN SeenEntries(s)
           /\ DOMAIN grants \subseteq DOMAIN SeenGrants(s)
           /\ \A x \in DOMAIN SeenEntries(s) :
                 \/ x \in DOMAIN entries /\ SeenEntries(s)[x] = entries[x]
                 \/ <<"entry", x>> \in tx[s].locks
           /\ tx[s].at \in Reading => SeenEntries(s) = entries /\ SeenGrants(s) = grants
<1>1. Legal(tx[s]) /\ Writes(tx[s])
  BY DEF LockInv, Legal
<1>2. /\ DOMAIN SeenEntries(s) = DOMAIN tx[s].entries \cup DOMAIN entries
      /\ \A x \in DOMAIN entries : x \notin DOMAIN tx[s].entries =>
            SeenEntries(s)[x] = entries[x]
      /\ DOMAIN grants \subseteq DOMAIN SeenGrants(s)
  BY DEF Over, SeenEntries, SeenGrants
<1>3. \A x \in DOMAIN tx[s].entries : <<"entry", x>> \in tx[s].locks
  BY <1>1 DEF Writes
<1>4. /\ Tables(SeenEntries(s), SeenGrants(s))
      /\ Issued(SeenEntries(s), Over(tx[s].nextTicket, nextTicket))
  BY <1>1 DEF Writes, SeenEntries, SeenGrants
<1>5. FollowsPlan(tx[s]) /\ tx[s].e \in Products \X Nat
  BY <1>1 DEF Legal
<1>6. ASSUME tx[s].at \in Reading
      PROVE  SeenEntries(s) = entries /\ SeenGrants(s) = grants
  <2>1. DOMAIN tx[s].entries = {} /\ DOMAIN tx[s].grants = {}
    BY <1>1, <1>6 DEF Writes
  <2>2. entries = [x \in DOMAIN entries |-> entries[x]]
        /\ grants = [x \in DOMAIN grants |-> grants[x]]
    BY DEF LockInv, Tables
  <2> QED BY <2>1, <2>2 DEF Over, SeenEntries, SeenGrants
<1> QED BY <1>1, <1>2, <1>3, <1>4, <1>5, <1>6

LEMMA LockKeeps ==
    ASSUME LockInv, NEW s \in Sessions, tx[s] # None, NEW next, NEW row,
           Lock(s, next, row), row \in OwnRows(tx[s]), tx[s].at \in Reading,
           FollowsPlan(tx'[s]), Knows(tx'[s])
    PROVE  LockInv'
<1>1. Do(s, next, {row}, SeenEntries(s), SeenGrants(s), SeenUnits(s), {})
  BY DEF Lock
<1> QED BY <1>1, SeenFacts, DoKeeps

(***************************************************************************)
(* The statements, one by one.                                             *)
(***************************************************************************)

LEMMA LockShape ==
    ASSUME LockInv, NEW s \in Sessions, tx[s] # None, NEW next, NEW row,
           Lock(s, next, row)
    PROVE  /\ tx'[s].at = next /\ tx'[s].locks = tx[s].locks \cup {row}
           /\ tx'[s].op = tx[s].op /\ tx'[s].e = tx[s].e /\ tx'[s].user = tx[s].user
<1>1. tx = [q \in Sessions |-> tx[q]] /\ tx[s] = [f \in Fields |-> tx[s][f]]
  BY DEF LockInv, Legal
<1> QED BY <1>1, DoShape, DoLocks DEF Lock

LEMMA LockProductKeeps ==
    ASSUME LockInv, NEW s \in Sessions, LockProduct(s)
    PROVE  LockInv'
<1> DEFINE t == tx'[s]
           next == CASE tx[s].op = "join" -> "insert"
                     [] tx[s].op = "leave" -> "entry"
                     [] OTHER -> "grant"
<1>1. tx[s] # None /\ tx[s].at = "product" /\ Lock(s, next, ProductRow(tx[s]))
  BY DEF LockProduct, At, ProductRow
<1>2. /\ t.at = next /\ t.locks = tx[s].locks \cup {ProductRow(tx[s])}
      /\ t.op = tx[s].op /\ t.e = tx[s].e /\ t.user = tx[s].user
  BY <1>1, LockShape
<1>3. Legal(tx[s])
  BY <1>1, SeenFacts
<1>4. /\ tx[s].op \in {"join", "leave", "pay", "expire"}
      /\ tx[s].locks = {}
  BY <1>1, <1>3 DEF Legal, FollowsPlan, ProductPlan, CheckoutPlan
<1>5. FollowsPlan(t)
  <2>1. ProductRow(t) = ProductRow(tx[s]) /\ t.locks = {ProductRow(t)}
    BY <1>2, <1>4 DEF ProductRow
  <2> QED BY <2>1, <1>2, <1>4 DEF FollowsPlan, ProductPlan
<1>6. Knows(t)
  BY <1>2, <1>3, <1>4 DEF Legal, Knows
<1>7. ProductRow(tx[s]) \in OwnRows(tx[s])
  BY DEF OwnRows
<1> HIDE DEF next
<1>8. tx[s].at \in Reading
  BY <1>1 DEF Reading
<1> QED BY <1>1, <1>5, <1>6, <1>7, <1>8, LockKeeps

(* The row inserted is new, so nobody can hold it: its ticket is above     *)
(* every one in use and only a holder of the product could have taken it.  *)
LEMMA InsertKeeps ==
    ASSUME LockInv, NEW s \in Sessions, Insert(s)
    PROVE  LockInv'
<1> DEFINE p == tx[s].e[1]
           e == <<p, nextTicket[p]>>
           row == [user |-> tx[s].user, status |-> "WAITING"]
           t == [tx[s] EXCEPT !.at = "promote", !.e = e,
                   !.locks = @ \cup {<<"entry", e>>},
                   !.nextTicket = Row(p, nextTicket[p] + 1),
                   !.entries = Row(e, row)]
<1>1. tx[s] # None /\ tx[s].at = "insert"
  BY DEF Insert, At
<1>2. /\ Legal(tx[s]) /\ tx[s].e \in Products \X Nat /\ Tables(entries, grants)
      /\ tx[s] = [f \in Fields |-> tx[s][f]] /\ Tables(SeenEntries(s), SeenGrants(s))
      /\ Issued(entries, nextTicket)
  BY <1>1, SeenFacts DEF Legal, LockInv
<1>3. tx[s].op = "join" /\ tx[s].locks = {ProductRow(tx[s])} /\ tx[s].user \in Users
  BY <1>1, <1>2 DEF Legal, FollowsPlan, ProductPlan, CheckoutPlan, Knows
<1>4. CASE End(s)
  BY <1>4, EndKeeps
<1>5. ASSUME ~End(s) PROVE LockInv'
  <2>1. ~(nextTicket[p] > MaxTicket) /\ tx' = [tx EXCEPT ![s] = t] /\ UNCHANGED vars
    BY <1>5, Zenon DEF Insert
  <2>2. p \in Products /\ nextTicket[p] \in Nat \ {0} /\ e \in EntryIds /\ e[1] = p
        /\ e[2] = nextTicket[p]
    <3>1. p \in Products
      BY <1>2
    <3>2. nextTicket[p] \in Nat \ {0}
      BY <3>1, <1>2 DEF Issued
    <3>3. nextTicket[p] \in 1 .. MaxTicket
      BY <3>2, <2>1, ConstantsAssumption
    <3> QED BY <3>1, <3>2, <3>3 DEF EntryIds
  <2>3. /\ t = [f \in Fields |-> t[f]]
        /\ t.at = "promote" /\ t.e = e
        /\ t.locks = tx[s].locks \cup {<<"entry", e>>}
        /\ t.nextTicket = Row(p, nextTicket[p] + 1)
        /\ t.entries = Row(e, row) /\ t.grants = tx[s].grants
        /\ t.op = tx[s].op /\ t.user = tx[s].user /\ t.key = tx[s].key
        /\ t.lag = tx[s].lag
    BY <1>2 DEF Fields
  <2> HIDE DEF t
  <2>4. ProductRow(t) = ProductRow(tx[s])
    BY <2>2, <2>3 DEF ProductRow
  <2>5. FollowsPlan(t)
    BY <1>3, <2>3, <2>4 DEF FollowsPlan, ProductPlan
  <2>6. Knows(t)
    BY <1>3, <2>3 DEF Knows
  <2>7. t.locks \subseteq OwnRows(t)
    BY <1>3, <2>2, <2>3, <2>4 DEF OwnRows
  <2>8. e \notin DOMAIN entries
    BY <1>2, <2>2 DEF Issued
  <2>9. /\ DOMAIN Over(t.entries, entries) = DOMAIN entries \cup {e}
        /\ Over(t.entries, entries)[e] = row
        /\ \A x \in DOMAIN entries : Over(t.entries, entries)[x] = entries[x]
        /\ Over(t.entries, entries) =
              [x \in DOMAIN Over(t.entries, entries) |-> Over(t.entries, entries)[x]]
    BY <2>3, <2>8 DEF Over, Row
  <2>10. Tables(Over(t.entries, entries), Over(t.grants, grants))
    <3> DEFINE es == Over(t.entries, entries)
               gs == Over(t.grants, grants)
    <3>1. gs = SeenGrants(s)
      BY <2>3 DEF SeenGrants
    <3>2. DOMAIN SeenEntries(s) = DOMAIN entries
      <4>1. ~\E x \in DOMAIN tx[s].entries : TRUE
        BY <1>2, <1>3 DEF Legal, Writes, ProductRow
      <4> QED BY <4>1, OverDomain DEF SeenEntries
    <3>3. /\ gs \in [DOMAIN gs -> [unit : Units, status : GrantStatus, left : Int, age : Int]]
          /\ DOMAIN gs \subseteq DOMAIN entries
          /\ \A x \in DOMAIN gs : ProductOf[gs[x].unit] = x[1]
          /\ DOMAIN grants \subseteq DOMAIN gs
      BY <1>1, <1>2, <3>1, <3>2, SeenFacts DEF Tables
    <3>4. row \in [user : Users, status : EntryStatus] /\ row.status = "WAITING"
      BY <1>3 DEF EntryStatus
    <3>5. /\ entries \in [DOMAIN entries -> [user : Users, status : EntryStatus]]
          /\ DOMAIN entries \subseteq EntryIds
          /\ \A x \in DOMAIN entries : entries[x].status = "GRANTED" => x \in DOMAIN grants
      BY <1>2 DEF Tables
    <3> HIDE DEF es, gs, row
    <3>6. es \in [DOMAIN es -> [user : Users, status : EntryStatus]]
      BY <2>9, <3>4, <3>5 DEF es
    <3>7. \A x \in DOMAIN es : es[x].status = "GRANTED" => x \in DOMAIN gs
      BY <2>9, <3>3, <3>4, <3>5 DEF es
    <3>8. DOMAIN es \subseteq EntryIds /\ DOMAIN gs \subseteq DOMAIN es
      BY <2>2, <2>9, <3>3, <3>5 DEF es
    <3> QED BY <3>3, <3>6, <3>7, <3>8 DEF Tables, es, gs
  <2>11. Issued(Over(t.entries, entries), Over(t.nextTicket, nextTicket))
    <3> DEFINE nt == Over(t.nextTicket, nextTicket)
               es == Over(t.entries, entries)
    <3>1. /\ nextTicket \in [Products -> Nat \ {0}]
          /\ \A x \in DOMAIN entries : x[2] < nextTicket[x[1]] /\ x[1] \in Products
                                        /\ x[2] \in Nat
      BY <1>2, ConstantsAssumption DEF Issued, Tables, EntryIds
    <3>2. nt = [q \in Products |-> IF q = p THEN nextTicket[p] + 1 ELSE nextTicket[q]]
      BY <2>2, <2>3, <3>1 DEF Over, Row
    <3>3. DOMAIN es = DOMAIN entries \cup {e}
      BY <2>9
    <3> HIDE DEF nt, es
    <3>4. nt \in [Products -> Nat \ {0}]
      BY <2>2, <3>1, <3>2
    <3>5. \A q \in Products : nextTicket[q] <= nt[q]
      BY <2>2, <3>1, <3>2
    <3>6. e[2] < nt[e[1]]
      BY <2>2, <3>2
    <3>7. \A x \in DOMAIN entries : x[2] < nt[x[1]]
      BY <3>1, <3>4, <3>5
    <3> QED BY <3>3, <3>4, <3>6, <3>7 DEF Issued, nt, es
  <2>12. Writes(t)
    <3>1. \A x \in DOMAIN t.entries : <<"entry", x>> \in t.locks
      BY <2>3 DEF Row
    <3>2. \A q \in DOMAIN t.nextTicket :
             <<"product", q>> \in t.locks /\ t.nextTicket[q] = nextTicket[q] + 1
      BY <1>3, <2>3 DEF Row, ProductRow
    <3>3. t.at \notin Reading
      BY <2>3 DEF Reading
    <3> QED BY <2>10, <2>11, <3>1, <3>2, <3>3 DEF Writes
  <2>13. Legal(t)
    <3>1. t.e \in Products \X Nat /\ t.lag \in Nat
      BY <1>2, <2>2, <2>3 DEF Legal
    <3> QED BY <2>3, <2>5, <2>6, <2>7, <2>12, <3>1 DEF Legal
  <2>14. ASSUME NEW q \in Sessions \ {s}, tx[q] # None
         PROVE  tx[q].locks \cap t.locks = {}
    <3>1. Legal(tx[q]) /\ tx[q].locks \cap tx[s].locks = {}
      BY <2>14, <1>1, SeenFacts DEF LockInv, Exclusive
    <3>2. SUFFICES ASSUME <<"entry", e>> \in tx[q].locks PROVE FALSE
      BY <3>1, <2>3
    <3>3. p = tx[q].e[1]
      <4> HIDE DEF e
      <4>1. e[1] = tx[q].e[1]
        BY <3>1, <3>2 DEF Legal, OwnRows, ProductRow, GrantRow, KeyRow
      <4> QED BY <4>1, <2>2
    <3>4. ProductRow(tx[q]) \notin tx[q].locks
      BY <3>1, <3>3, <1>3 DEF ProductRow
    <3>5. tx[q].op = "checkout" /\ tx[q].locks = {GrantRow(tx[q]), EntryRow(tx[q])}
          /\ tx[q].at = "commit"
      <4> HIDE DEF e
      <4> QED BY <3>1, <3>2, <3>4
              DEF Legal, FollowsPlan, CheckoutPlan, ProductPlan, GrantRow, EntryRow, ProductRow
    <3>6. tx[q].e = e
      <4> HIDE DEF e
      <4> QED BY <3>2, <3>5 DEF GrantRow, EntryRow
    <3>7. tx[q].e \in DOMAIN entries
      BY <3>1, <3>5, <1>2 DEF Legal, Knows, Tables
    <3> QED BY <3>6, <3>7, <2>8
  <2> QED BY <2>1, <2>13, <2>14, OneMoves
<1> QED BY <1>4, <1>5

(* The conditional updates keep the tables well formed.                    *)
LEMMA MarkedTables ==
    ASSUME NEW es, NEW gs, Tables(es, gs), NEW e \in DOMAIN es, NEW from,
           NEW to \in EntryStatus, to = "GRANTED" => e \in DOMAIN gs
    PROVE  /\ Tables(MarkEntryStatus(es, e, from, to), gs)
           /\ DOMAIN MarkEntryStatus(es, e, from, to) = DOMAIN es
           /\ \A x \in DOMAIN es : x # e => MarkEntryStatus(es, e, from, to)[x] = es[x]
<1> DEFINE new == MarkEntryStatus(es, e, from, to)
<1>1. es \in [DOMAIN es -> [user : Users, status : EntryStatus]]
  BY DEF Tables
<1>2. CASE es[e].status # from
  BY <1>2 DEF MarkEntryStatus
<1>3. CASE es[e].status = from
  <2>1. new = [es EXCEPT ![e] = [es[e] EXCEPT !.status = to]]
    BY <1>3 DEF MarkEntryStatus
  <2>2. /\ [es[e] EXCEPT !.status = to] \in [user : Users, status : EntryStatus]
        /\ [es[e] EXCEPT !.status = to].status = to
    BY <1>1
  <2>3. /\ DOMAIN new = DOMAIN es
        /\ \A x \in DOMAIN es : x # e => new[x] = es[x]
        /\ new[e].status = to
        /\ new \in [DOMAIN es -> [user : Users, status : EntryStatus]]
    BY <1>1, <2>1, <2>2
  <2> HIDE DEF new
  <2>4. Tables(new, gs)
    BY <2>3 DEF Tables
  <2> QED BY <2>3, <2>4 DEF new
<1> QED BY <1>2, <1>3

LEMMA UpdatedTables ==
    ASSUME NEW es, NEW gs, Tables(es, gs), NEW e \in DOMAIN gs, NEW from,
           NEW to \in GrantStatus
    PROVE  /\ Tables(es, UpdateGrantStatus(gs, e, from, to))
           /\ DOMAIN UpdateGrantStatus(gs, e, from, to) = DOMAIN gs
<1> DEFINE new == UpdateGrantStatus(gs, e, from, to)
           GrantRows == [unit : Units, status : GrantStatus, left : Int, age : Int]
<1>1. gs \in [DOMAIN gs -> GrantRows] /\ \A x \in DOMAIN gs : ProductOf[gs[x].unit] = x[1]
  BY DEF Tables
<1>2. CASE gs[e].status # from
  BY <1>2 DEF UpdateGrantStatus
<1>3. CASE gs[e].status = from
  <2> DEFINE row == [gs[e] EXCEPT !.status = to, !.left = 0, !.age = 0]
  <2>1. new = [gs EXCEPT ![e] = row]
    BY <1>3 DEF UpdateGrantStatus
  <2>2. row \in GrantRows /\ row.unit = gs[e].unit
    <3>1. gs[e] \in GrantRows
      BY <1>1
    <3>2. /\ row = [f \in {"unit", "status", "left", "age"} |->
                       IF f = "status" THEN to
                       ELSE IF f \in {"left", "age"} THEN 0 ELSE gs[e][f]]
      BY <3>1
    <3> HIDE DEF row
    <3>3. row.unit = gs[e].unit /\ row.status = to /\ row.left = 0 /\ row.age = 0
          /\ row = [unit |-> row.unit, status |-> row.status, left |-> row.left,
                    age |-> row.age]
      BY <3>2
    <3> QED BY <3>1, <3>3
  <2> HIDE DEF row
  <2>3. /\ DOMAIN new = DOMAIN gs
        /\ new \in [DOMAIN gs -> GrantRows]
        /\ \A x \in DOMAIN gs : ProductOf[new[x].unit] = x[1]
    <3>1. DOMAIN new = DOMAIN gs /\ new[e] = row
          /\ \A x \in DOMAIN gs : x # e => new[x] = gs[x]
      BY <1>1, <2>1
    <3>2. new = [x \in DOMAIN gs |-> new[x]]
      BY <1>1, <2>1
    <3> HIDE DEF new, GrantRows
    <3> QED BY <1>1, <2>2, <3>1, <3>2
  <2> HIDE DEF new
  <2>4. Tables(es, new)
    BY <2>3 DEF Tables
  <2> QED BY <2>3, <2>4 DEF new
<1> QED BY <1>2, <1>3

LEMMA IssuedSame ==
    ASSUME NEW es, NEW fs, NEW nt, Issued(es, nt), DOMAIN fs = DOMAIN es
    PROVE  Issued(fs, nt)
BY DEF Issued

LEMMA RowsOwned ==
    ASSUME NEW t, NEW e \in EntryIds, e[1] = t.e[1]
    PROVE  <<"entry", e>> \in OwnRows(t)
BY DEF OwnRows

LEMMA UnitsOwned ==
    ASSUME NEW t, NEW u \in UnitsOf(t.e[1])
    PROVE  <<"unit", u>> \in OwnRows(t)
BY DEF OwnRows

LEMMA LeaveLocksEntryKeeps ==
    ASSUME LockInv, NEW s \in Sessions, LeaveLocksEntry(s)
    PROVE  LockInv'
<1> DEFINE e == tx[s].e
           t == tx'[s]
<1>1. tx[s] # None /\ tx[s].at = "entry" /\ tx[s].op = "leave"
  BY DEF LeaveLocksEntry, At
<1>2. /\ Legal(tx[s]) /\ Tables(entries, grants)
      /\ Issued(entries, Over(tx[s].nextTicket, nextTicket))
      /\ tx = [q \in Sessions |-> tx[q]] /\ tx[s] = [f \in Fields |-> tx[s][f]]
      /\ SeenEntries(s) = entries /\ SeenGrants(s) = grants
  BY <1>1, SeenFacts DEF Legal, LockInv, Reading
<1>3. tx[s].locks = {ProductRow(tx[s])} /\ e \in DOMAIN entries
  BY <1>1, <1>2 DEF Legal, FollowsPlan, ProductPlan, CheckoutPlan, Knows
<1>4. e \in EntryIds /\ <<"entry", e>> \in OwnRows(tx[s])
  BY <1>2, <1>3, RowsOwned DEF Tables
<1>5. CASE entries[e].status = "WAITING"
  <2> DEFINE es == MarkEntryStatus(entries, e, "WAITING", "CANCELLED")
  <2>1. Do(s, "commit", {<<"entry", e>>}, es, grants, units, {})
    BY <1>5 DEF LeaveLocksEntry
  <2>2. /\ Tables(es, grants) /\ DOMAIN es = DOMAIN entries
        /\ \A x \in DOMAIN entries : x # e => es[x] = entries[x]
    BY <1>2, <1>3, MarkedTables DEF EntryStatus
  <2>3. Issued(es, Over(tx[s].nextTicket, nextTicket))
    BY <1>2, <2>2, IssuedSame
  <2> HIDE DEF es
  <2>4. /\ t.at = "commit" /\ t.op = "leave" /\ t.e = e
        /\ t.locks = tx[s].locks \cup {<<"entry", e>>}
    BY <1>1, <1>2, <2>1, DoShape, DoLocks
  <2>5. FollowsPlan(t) /\ Knows(t)
    BY <1>1, <1>3, <2>4 DEF FollowsPlan, ProductPlan, ProductRow, Knows
  <2>6. "commit" \notin Reading
    BY DEF Reading
  <2> QED BY <1>1, <1>4, <2>1, <2>2, <2>3, <2>5, <2>6, DoKeeps
<1>6. CASE entries[e].status = "GRANTED"
  <2>1. Lock(s, "grant", <<"entry", e>>)
    BY <1>6 DEF LeaveLocksEntry
  <2>2. /\ t.at = "grant" /\ t.op = "leave" /\ t.e = e
        /\ t.locks = tx[s].locks \cup {<<"entry", e>>}
    BY <1>1, <2>1, LockShape
  <2>3. ProductRow(t) = ProductRow(tx[s]) /\ t.locks = {ProductRow(t), EntryRow(t)}
    BY <1>3, <2>2 DEF ProductRow, EntryRow
  <2>4. FollowsPlan(t) /\ Knows(t)
    BY <1>2, <1>3, <1>6, <2>2, <2>3 DEF FollowsPlan, ProductPlan, Knows, Tables
  <2>5. tx[s].at \in Reading
    BY <1>1 DEF Reading
  <2> QED BY <1>1, <1>4, <2>1, <2>4, <2>5, LockKeeps
<1>7. CASE entries[e].status \notin {"WAITING", "GRANTED"}
  BY <1>7, EndKeeps DEF LeaveLocksEntry
<1> QED BY <1>5, <1>6, <1>7

LEMMA CheckoutLocksEntryKeeps ==
    ASSUME LockInv, NEW s \in Sessions, CheckoutLocksEntry(s)
    PROVE  LockInv'
<1> DEFINE e == tx[s].e
           t == tx'[s]
<1>1. tx[s] # None /\ tx[s].at = "entry" /\ tx[s].op = "checkout"
  BY DEF CheckoutLocksEntry, At
<1>2. /\ Legal(tx[s]) /\ Tables(entries, grants)
      /\ Issued(entries, Over(tx[s].nextTicket, nextTicket))
      /\ tx = [q \in Sessions |-> tx[q]] /\ tx[s] = [f \in Fields |-> tx[s][f]]
  BY <1>1, SeenFacts DEF Legal, LockInv, Reading
<1>3. tx[s].locks = {GrantRow(tx[s])} /\ e \in DOMAIN grants
  BY <1>1, <1>2 DEF Legal, FollowsPlan, ProductPlan, CheckoutPlan, Knows
<1>4. e \in DOMAIN entries /\ <<"entry", e>> \in OwnRows(tx[s])
  BY <1>2, <1>3, RowsOwned DEF Tables
<1>5. CASE entries[e].status = "GRANTED"
  <2> DEFINE es == MarkEntryStatus(entries, e, "GRANTED", "CHECKOUT_PENDING")
             gs == UpdateGrantStatus(grants, e, "ACTIVE", "CHECKOUT_PENDING")
  <2>1. Do(s, "commit", {<<"entry", e>>}, es, gs, units, {e})
    BY <1>5 DEF CheckoutLocksEntry
  <2>2. /\ Tables(es, grants) /\ DOMAIN es = DOMAIN entries
        /\ \A x \in DOMAIN entries : x # e => es[x] = entries[x]
    BY <1>2, <1>4, MarkedTables DEF EntryStatus
  <2>3. Tables(es, gs) /\ DOMAIN gs = DOMAIN grants
    <3> HIDE DEF es
    <3> QED BY <1>3, <2>2, UpdatedTables DEF GrantStatus
  <2>4. Issued(es, Over(tx[s].nextTicket, nextTicket))
    BY <1>2, <2>2, IssuedSame
  <2> HIDE DEF es, gs
  <2>5. /\ t.at = "commit" /\ t.op = "checkout" /\ t.e = e
        /\ t.locks = tx[s].locks \cup {<<"entry", e>>}
    BY <1>1, <1>2, <2>1, DoShape, DoLocks
  <2>6. FollowsPlan(t) /\ Knows(t)
    BY <1>3, <1>5, <2>5 DEF FollowsPlan, CheckoutPlan, GrantRow, EntryRow, Knows
  <2>7. "commit" \notin Reading
    BY DEF Reading
  <2> QED BY <1>1, <1>4, <2>1, <2>2, <2>3, <2>4, <2>6, <2>7, DoKeeps
<1>6. CASE entries[e].status # "GRANTED"
  BY <1>6, EndKeeps DEF CheckoutLocksEntry
<1> QED BY <1>5, <1>6

LEMMA LockGrantKeeps ==
    ASSUME LockInv, NEW s \in Sessions, LockGrant(s)
    PROVE  LockInv'
<1> DEFINE e == tx[s].e
           t == tx'[s]
           next == CASE tx[s].op = "checkout" -> "entry"
                     [] tx[s].op = "pay" -> "attempt"
                     [] tx[s].op = "expire" -> "settle"
<1>1. tx[s] # None /\ tx[s].at = "grant"
  BY DEF LockGrant, At
<1>2. /\ Legal(tx[s]) /\ Tables(entries, grants)
      /\ Issued(entries, Over(tx[s].nextTicket, nextTicket))
      /\ tx = [q \in Sessions |-> tx[q]] /\ tx[s] = [f \in Fields |-> tx[s][f]]
      /\ SeenEntries(s) = entries /\ SeenGrants(s) = grants
  BY <1>1, SeenFacts DEF Legal, LockInv, Reading
<1>3. /\ tx[s].op \in {"leave", "checkout", "pay", "expire"}
      /\ e \in DOMAIN grants
      /\ tx[s].op = "leave" => tx[s].locks = {ProductRow(tx[s]), EntryRow(tx[s])}
      /\ tx[s].op = "checkout" => tx[s].locks = {}
      /\ tx[s].op \in {"pay", "expire"} => tx[s].locks = {ProductRow(tx[s])}
  BY <1>1, <1>2 DEF Legal, FollowsPlan, ProductPlan, CheckoutPlan, Knows
<1>4. CASE ~GrantAllows(s)
  BY <1>4, EndKeeps DEF LockGrant
<1>5. CASE GrantAllows(s) /\ tx[s].op # "leave"
  <2>1. Lock(s, next, <<"grant", e>>)
    BY <1>5 DEF LockGrant
  <2>2. /\ t.at = next /\ t.op = tx[s].op /\ t.e = e
        /\ t.locks = tx[s].locks \cup {<<"grant", e>>}
    BY <1>1, <2>1, LockShape
  <2>3. /\ ProductRow(t) = ProductRow(tx[s])
        /\ tx[s].op = "checkout" => t.locks = {GrantRow(t)}
        /\ tx[s].op \in {"pay", "expire"} => t.locks = {ProductRow(t), GrantRow(t)}
    BY <1>3, <2>2 DEF ProductRow, GrantRow
  <2>4. FollowsPlan(t) /\ Knows(t)
    BY <1>3, <1>5, <2>2, <2>3 DEF FollowsPlan, ProductPlan, CheckoutPlan, Knows
  <2>5. <<"grant", e>> \in OwnRows(tx[s]) /\ tx[s].at \in Reading
    BY <1>1 DEF Reading, OwnRows, GrantRow
  <2> HIDE DEF next
  <2> QED BY <1>1, <2>1, <2>4, <2>5, LockKeeps
<1>6. CASE GrantAllows(s) /\ tx[s].op = "leave"
  <2> DEFINE gs == UpdateGrantStatus(grants, e, "ACTIVE", "CANCELLED")
             u == grants[e].unit
             rows == {<<"grant", e>>, <<"unit", u>>}
             us == MarkUnitAvailable(units, u)
  <2>1. Do(s, "promote", rows, entries, gs, us, {e})
    BY <1>2, <1>6 DEF LockGrant
  <2>2. Tables(entries, gs) /\ DOMAIN gs = DOMAIN grants
    BY <1>2, <1>3, UpdatedTables DEF GrantStatus
  <2>3. u \in UnitsOf(e[1])
    BY <1>2, <1>3 DEF Tables, UnitsOf
  <2>4. rows \subseteq OwnRows(tx[s])
    <3>1. <<"unit", u>> \in OwnRows(tx[s])
      BY <2>3, UnitsOwned
    <3> QED BY <3>1 DEF OwnRows, GrantRow
  <2> HIDE DEF gs, us, rows
  <2>5. /\ t.at = "promote" /\ t.op = "leave" /\ t.e = e
        /\ t.locks = tx[s].locks \cup rows
    <3>1. tx = [q \in Sessions |-> tx[q]] /\ tx[s] = [f \in Fields |-> tx[s][f]]
      BY <1>2
    <3>2. t.at = "promote" /\ t.op = tx[s].op /\ t.e = tx[s].e
      BY <2>1, <3>1, DoShape
    <3>3. tx'[s].locks = tx[s].locks \cup rows
      <4> HIDE DEF e, u, next
      <4> QED BY <2>1, <3>1, DoLocks
    <3> QED BY <3>2, <3>3, <1>6
  <2>6. FollowsPlan(t) /\ Knows(t)
    BY <1>2, <1>3, <1>6, <2>5
       DEF FollowsPlan, ProductPlan, ProductRow, EntryRow, Knows, Tables
  <2>7. "promote" \notin Reading
    BY DEF Reading
  <2> QED BY <1>1, <1>2, <2>1, <2>2, <2>4, <2>6, <2>7, DoKeeps
<1> QED BY <1>4, <1>5, <1>6

LEMMA InsertAttemptKeeps ==
    ASSUME LockInv, NEW s \in Sessions, InsertAttempt(s)
    PROVE  LockInv'
<1> DEFINE row == Row(tx[s].key, [entry |-> tx[s].e, result |-> tx[s].result])
           t == [tx[s] EXCEPT !.at = "settle", !.locks = @ \cup {<<"key", tx[s].key>>},
                              !.attempts = row]
<1>1. tx[s] # None /\ tx[s].at = "attempt" /\ Free(s, {<<"key", tx[s].key>>})
  BY DEF InsertAttempt, At
<1>2. CASE End(s)
  BY <1>2, EndKeeps
<1>3. CASE tx' = [tx EXCEPT ![s] = t] /\ UNCHANGED vars
  <2>1. Legal(tx[s]) /\ tx[s] = [f \in Fields |-> tx[s][f]]
    BY <1>1, SeenFacts DEF Legal
  <2>2. /\ t = [f \in Fields |-> t[f]]
        /\ t.at = "settle" /\ t.locks = tx[s].locks \cup {<<"key", tx[s].key>>}
        /\ t.op = tx[s].op /\ t.e = tx[s].e /\ t.user = tx[s].user /\ t.key = tx[s].key
        /\ t.lag = tx[s].lag /\ t.nextTicket = tx[s].nextTicket
        /\ t.entries = tx[s].entries /\ t.grants = tx[s].grants
    BY <2>1 DEF Fields
  <2> HIDE DEF t
  <2>3. tx[s].op = "pay" /\ tx[s].locks = {ProductRow(tx[s]), GrantRow(tx[s])}
    BY <1>1, <2>1 DEF Legal, FollowsPlan, ProductPlan, CheckoutPlan
  <2>4. FollowsPlan(t)
    BY <2>2, <2>3 DEF FollowsPlan, ProductPlan, ProductRow, GrantRow
  <2>5. Knows(t)
    BY <2>1, <2>2, <2>3 DEF Legal, Knows
  <2>6. t.locks \subseteq OwnRows(t)
    BY <2>1, <2>2 DEF Legal, OwnRows, ProductRow, GrantRow, KeyRow
  <2>7. Writes(t)
    <3>1. tx[s].at \in Reading
      BY <1>1 DEF Reading
    <3> QED BY <2>1, <2>2, <3>1 DEF Legal, Writes
  <2>8. Legal(t)
    BY <2>1, <2>2, <2>4, <2>5, <2>6, <2>7 DEF Legal
  <2>9. \A q \in Sessions \ {s} : tx[q] # None => tx[q].locks \cap t.locks = {}
    BY <1>1, <2>2 DEF Free, LockInv, Exclusive
  <2> QED BY <1>3, <2>8, <2>9, OneMoves
<1> QED BY <1>2, <1>3 DEF InsertAttempt

LEMMA SettleKeeps ==
    ASSUME LockInv, NEW s \in Sessions, Settle(s)
    PROVE  LockInv'
<1> DEFINE e == tx[s].e
           t == tx'[s]
           u == grants[e].unit
           rows == {<<"entry", e>>, <<"unit", u>>}
<1>1. tx[s] # None /\ tx[s].at = "settle"
  BY DEF Settle, At
<1>2. /\ Legal(tx[s]) /\ Tables(entries, grants)
      /\ Issued(entries, Over(tx[s].nextTicket, nextTicket))
      /\ tx = [q \in Sessions |-> tx[q]] /\ tx[s] = [f \in Fields |-> tx[s][f]]
  BY <1>1, SeenFacts DEF Legal, LockInv, Reading
<1>3. /\ tx[s].op \in {"pay", "expire"} /\ e \in DOMAIN grants
      /\ ProductRow(tx[s]) \in tx[s].locks
  BY <1>1, <1>2 DEF Legal, FollowsPlan, ProductPlan, CheckoutPlan, Knows
<1>4. e \in DOMAIN entries /\ u \in UnitsOf(e[1])
  BY <1>2, <1>3 DEF Tables, UnitsOf
<1>5. rows \subseteq OwnRows(tx[s])
  BY <1>2, <1>4, RowsOwned, UnitsOwned DEF Tables
<1>6. ASSUME NEW next \in {"promote", "close"}, NEW us,
             NEW f \in EntryStatus, NEW to \in EntryStatus \ {"GRANTED"},
             NEW g \in GrantStatus, NEW h \in GrantStatus,
             Do(s, next, rows, MarkEntryStatus(entries, e, f, to),
                UpdateGrantStatus(grants, e, g, h), us, {e})
      PROVE  LockInv'
  <2> DEFINE es == MarkEntryStatus(entries, e, f, to)
             gs == UpdateGrantStatus(grants, e, g, h)
  <2>1. Do(s, next, rows, es, gs, us, {e})
    BY <1>6
  <2>2. /\ Tables(es, grants) /\ DOMAIN es = DOMAIN entries
        /\ \A x \in DOMAIN entries : x # e => es[x] = entries[x]
    BY <1>2, <1>4, MarkedTables
  <2>3. Issued(es, Over(tx[s].nextTicket, nextTicket))
    BY <1>2, <2>2, IssuedSame
  <2> HIDE DEF es
  <2>4. Tables(es, gs) /\ DOMAIN gs = DOMAIN grants
    BY <1>3, <2>2, UpdatedTables
  <2> HIDE DEF gs
  <2>5. \A x \in DOMAIN es :
            \/ x \in DOMAIN entries /\ es[x] = entries[x]
            \/ <<"entry", x>> \in tx[s].locks \cup rows
    BY <2>2
  <2> HIDE DEF rows, u
  <2>6. /\ t.at = next /\ t.op = tx[s].op /\ t.e = e
        /\ t.locks = tx[s].locks \cup rows
    <3>1. t.at = next /\ t.op = tx[s].op /\ t.e = e
      BY <1>2, <2>1, DoShape
    <3>2. tx'[s].locks = tx[s].locks \cup rows
      <4> HIDE DEF e
      <4> QED BY <1>2, <2>1, DoLocks
    <3> QED BY <3>1, <3>2
  <2>7. FollowsPlan(t) /\ Knows(t)
    BY <1>3, <2>6 DEF FollowsPlan, ProductPlan, ProductRow, Knows
  <2>8. next \notin Reading
    BY DEF Reading
  <2> QED BY <1>1, <1>5, <2>1, <2>2, <2>3, <2>4, <2>5, <2>7, <2>8, DoKeeps
<1>7. CASE tx[s].op = "expire"
  <2>1. Do(s, "promote", rows, MarkEntryStatus(entries, e, "GRANTED", "EXPIRED"),
           UpdateGrantStatus(grants, e, "ACTIVE", "EXPIRED"),
           MarkUnitAvailable(units, u), {e})
    BY <1>7 DEF Settle
  <2> QED BY <2>1, <1>6 DEF EntryStatus, GrantStatus
<1>8. CASE tx[s].op # "expire" /\ tx[s].result = "success"
  <2>1. Do(s, "close", rows, MarkEntryStatus(entries, e, "CHECKOUT_PENDING", "PURCHASED"),
           UpdateGrantStatus(grants, e, "CHECKOUT_PENDING", "PURCHASED"),
           MarkUnitSold(units, u), {e})
    BY <1>3, <1>8 DEF Settle
  <2> QED BY <2>1, <1>6 DEF EntryStatus, GrantStatus
<1>9. CASE tx[s].op # "expire" /\ tx[s].result # "success"
  <2>1. Do(s, "promote", rows,
           MarkEntryStatus(entries, e, "CHECKOUT_PENDING", "PAYMENT_FAILED"),
           UpdateGrantStatus(grants, e, "CHECKOUT_PENDING", "FAILED"),
           MarkUnitAvailable(units, u), {e})
    BY <1>3, <1>9 DEF Settle
  <2> QED BY <2>1, <1>6 DEF EntryStatus, GrantStatus
<1> QED BY <1>7, <1>8, <1>9

LEMMA CloseKeeps ==
    ASSUME LockInv, NEW s \in Sessions, Close(s)
    PROVE  LockInv'
<1> DEFINE t == tx'[s]
           old == SeenEntries(s)
           p == tx[s].e[1]
           closed == IF AllSold(SeenUnits(s), p) THEN Waiting(old, p) ELSE {}
           es == [e \in DOMAIN old |->
                    IF e \in closed THEN [old[e] EXCEPT !.status = "SOLD_OUT"] ELSE old[e]]
           rows == {<<"entry", e>> : e \in closed}
<1>1. tx[s] # None /\ tx[s].at = "close"
      /\ Do(s, "commit", rows, es, SeenGrants(s), SeenUnits(s), closed)
  BY DEF Close, At
<1>2. /\ Legal(tx[s]) /\ Tables(old, SeenGrants(s))
      /\ Issued(old, Over(tx[s].nextTicket, nextTicket))
      /\ tx = [q \in Sessions |-> tx[q]] /\ tx[s] = [f \in Fields |-> tx[s][f]]
  BY <1>1, SeenFacts DEF Legal, LockInv
<1>3. tx[s].op # "checkout" /\ ProductRow(tx[s]) \in tx[s].locks
  BY <1>1, <1>2 DEF Legal, FollowsPlan, ProductPlan, CheckoutPlan
<1>4. \A x \in closed : x \in DOMAIN old /\ x[1] = p
  BY DEF Waiting
<1>5. rows \subseteq OwnRows(tx[s])
  <2> HIDE DEF closed
  <2> QED BY <1>2, <1>4 DEF Tables, OwnRows
<1> HIDE DEF closed
<1>6. /\ DOMAIN es = DOMAIN old
      /\ \A x \in DOMAIN old : x \notin closed => es[x] = old[x]
  OBVIOUS
<1>7. Tables(es, SeenGrants(s))
  <2>1. old \in [DOMAIN old -> [user : Users, status : EntryStatus]]
    BY <1>2 DEF Tables
  <2>2. \A x \in DOMAIN old :
           /\ es[x] \in [user : Users, status : EntryStatus]
           /\ es[x].status = old[x].status \/ es[x].status = "SOLD_OUT"
    BY <2>1 DEF EntryStatus
  <2>3. es \in [DOMAIN old -> [user : Users, status : EntryStatus]]
    BY <2>2
  <2> HIDE DEF es
  <2> QED BY <1>2, <1>6, <2>2, <2>3 DEF Tables
<1>8. Issued(es, Over(tx[s].nextTicket, nextTicket))
  <2> HIDE DEF es
  <2> QED BY <1>2, <1>6, IssuedSame
<1> HIDE DEF es
<1>9. \A x \in DOMAIN es :
         \/ x \in DOMAIN entries /\ es[x] = entries[x]
         \/ <<"entry", x>> \in tx[s].locks \cup rows
  BY <1>1, <1>6, SeenFacts
<1> HIDE DEF rows, old
<1>10. t.at = "commit" /\ t.op = tx[s].op /\ t.e = tx[s].e
  BY <1>1, <1>2, DoShape
<1>11. tx[s].locks \subseteq tx'[s].locks
  BY <1>1, <1>2, DoHolds
<1>12. FollowsPlan(t) /\ Knows(t)
  <2>1. FollowsPlan(t)
    BY <1>2, <1>3, <1>10, <1>11 DEF Legal, FollowsPlan, ProductPlan, ProductRow
  <2>2. Knows(t)
    <3>1. t.user = tx[s].user
      BY <1>1, <1>2, DoShape
    <3> QED BY <1>2, <1>3, <1>10, <3>1 DEF Legal, Knows
  <2> QED BY <2>1, <2>2
<1>13. "commit" \notin Reading
  BY DEF Reading
<1>14. DOMAIN entries \subseteq DOMAIN es /\ DOMAIN grants \subseteq DOMAIN SeenGrants(s)
  BY <1>1, <1>6, SeenFacts DEF old
<1> QED BY <1>1, <1>5, <1>7, <1>8, <1>9, <1>12, <1>13, <1>14, DoKeeps

LEMMA LeaveMarksEntryKeeps ==
    ASSUME LockInv, NEW s \in Sessions, LeaveMarksEntry(s)
    PROVE  LockInv'
<1> DEFINE t == tx'[s]
           e == tx[s].e
           old == SeenEntries(s)
           es == MarkEntryStatus(old, e, "GRANTED", "CANCELLED")
<1>1. tx[s] # None /\ tx[s].at = "mark"
      /\ Do(s, "commit", {}, es, SeenGrants(s), SeenUnits(s), {})
  BY DEF LeaveMarksEntry, At
<1>2. /\ Legal(tx[s]) /\ Tables(old, SeenGrants(s))
      /\ Issued(old, Over(tx[s].nextTicket, nextTicket))
      /\ tx = [q \in Sessions |-> tx[q]] /\ tx[s] = [f \in Fields |-> tx[s][f]]
      /\ DOMAIN entries \subseteq DOMAIN old /\ DOMAIN grants \subseteq DOMAIN SeenGrants(s)
  BY <1>1, SeenFacts DEF Legal, LockInv
<1>3. /\ tx[s].op = "leave" /\ {ProductRow(tx[s]), EntryRow(tx[s])} \subseteq tx[s].locks
      /\ e \in DOMAIN entries
  BY <1>1, <1>2 DEF Legal, FollowsPlan, ProductPlan, CheckoutPlan, Knows
<1>4. /\ Tables(es, SeenGrants(s)) /\ DOMAIN es = DOMAIN old
      /\ \A x \in DOMAIN old : x # e => es[x] = old[x]
  <2> HIDE DEF old
  <2> QED BY <1>2, <1>3, MarkedTables DEF EntryStatus
<1> HIDE DEF es
<1>5. Issued(es, Over(tx[s].nextTicket, nextTicket))
  BY <1>2, <1>4, IssuedSame
<1>6. \A x \in DOMAIN es :
         \/ x \in DOMAIN entries /\ es[x] = entries[x]
         \/ <<"entry", x>> \in tx[s].locks \cup {}
  BY <1>1, <1>3, <1>4, SeenFacts DEF EntryRow
<1> HIDE DEF old
<1>7. t.at = "commit" /\ t.op = tx[s].op /\ t.e = tx[s].e
  BY <1>1, <1>2, DoShape
<1>8. tx[s].locks \subseteq tx'[s].locks
  BY <1>1, <1>2, DoHolds
<1>9. FollowsPlan(t) /\ Knows(t)
  BY <1>3, <1>7, <1>8 DEF FollowsPlan, ProductPlan, ProductRow, Knows
<1>10. "commit" \notin Reading
  BY DEF Reading
<1> QED BY <1>1, <1>2, <1>4, <1>5, <1>6, <1>9, <1>10, DoKeeps

(* The grants that promotion may create for a product.                     *)
RightsTo(p) == [unit : UnitsOf(p), status : GrantStatus, left : Int, age : Int]

LEMMA GrantedTables ==
    ASSUME NEW es, NEW gs, Tables(es, gs), NEW e \in DOMAIN es,
           NEW row, row \in RightsTo(e[1]),
           NEW new, new = Over(Row(e, row), gs)
    PROVE  Tables(es, new) /\ DOMAIN new = DOMAIN gs \cup {e}
<1> DEFINE
           GrantRows == [unit : Units, status : GrantStatus, left : Int, age : Int]
<1>1. row \in GrantRows /\ ProductOf[row.unit] = e[1]
  BY DEF UnitsOf, RightsTo
<1>2. new = [x \in DOMAIN gs \cup {e} |-> IF x = e THEN row ELSE gs[x]]
  BY DEF Over, Row
<1>3. gs \in [DOMAIN gs -> GrantRows] /\ \A x \in DOMAIN gs : ProductOf[gs[x].unit] = x[1]
  BY DEF Tables
<1>4. DOMAIN new = DOMAIN gs \cup {e}
  BY <1>2
<1>5. new \in [DOMAIN new -> GrantRows]
  BY <1>1, <1>2, <1>3
<1>6. \A x \in DOMAIN new : ProductOf[new[x].unit] = x[1]
  BY <1>1, <1>2, <1>3
<1>7. Tables(es, new)
  BY <1>4, <1>5, <1>6 DEF Tables
<1> QED BY <1>4, <1>7

LEMMA PromoteOneKeeps ==
    ASSUME LockInv, NEW s \in Sessions, PromoteOne(s)
    PROVE  LockInv'
<1> DEFINE t == tx'[s]
           old == SeenEntries(s)
           p == tx[s].e[1]
<1>1. tx[s] # None /\ tx[s].at = "promote"
  BY DEF PromoteOne, At
<1>2. /\ Legal(tx[s]) /\ Tables(old, SeenGrants(s))
      /\ Issued(old, Over(tx[s].nextTicket, nextTicket))
      /\ tx = [q \in Sessions |-> tx[q]] /\ tx[s] = [f \in Fields |-> tx[s][f]]
      /\ DOMAIN entries \subseteq DOMAIN old /\ DOMAIN grants \subseteq DOMAIN SeenGrants(s)
  BY <1>1, SeenFacts DEF Legal, LockInv
<1>3. /\ tx[s].op # "checkout" /\ ProductRow(tx[s]) \in tx[s].locks
      /\ tx[s].op = "leave" => EntryRow(tx[s]) \in tx[s].locks
      /\ tx[s].op \in {"join", "leave", "checkout", "pay", "expire"}
  BY <1>1, <1>2 DEF Legal, FollowsPlan, ProductPlan, CheckoutPlan
<1>4. ASSUME NEW m \in NextPair(s),
             Do(s, "promote", {<<"entry", m[1]>>, <<"unit", m[2]>>},
                MarkEntryStatus(SeenEntries(s), m[1], "WAITING", "GRANTED"),
                Over(Row(m[1], [unit |-> m[2], status |-> "ACTIVE",
                                left |-> TTL, age |-> 0]),
                     SeenGrants(s)),
                [SeenUnits(s) EXCEPT ![m[2]] = [status |-> "RESERVED", grant |-> m[1]]],
                {m[1]})
      PROVE  LockInv'
  <2> DEFINE gs == Over(Row(m[1], [unit |-> m[2], status |-> "ACTIVE",
                                   left |-> TTL, age |-> 0]), SeenGrants(s))
             es == MarkEntryStatus(old, m[1], "WAITING", "GRANTED")
             us == [SeenUnits(s) EXCEPT ![m[2]] = [status |-> "RESERVED", grant |-> m[1]]]
             rows == {<<"entry", m[1]>>, <<"unit", m[2]>>}
  <2>1. m[1] \in DOMAIN old /\ m[1][1] = p /\ m[2] \in UnitsOf(p)
    BY DEF NextPair, Oldest, Waiting, Available
  <2>2. Do(s, "promote", rows, es, gs, us, {m[1]})
    BY <1>4
  <2>3. Tables(old, gs) /\ DOMAIN gs = DOMAIN SeenGrants(s) \cup {m[1]}
    <3> DEFINE row == [unit |-> m[2], status |-> "ACTIVE", left |-> TTL, age |-> 0]
    <3>1. row \in RightsTo(m[1][1])
      BY <2>1, ConstantsAssumption DEF GrantStatus, RightsTo
    <3>2. gs = Over(Row(m[1], row), SeenGrants(s))
      OBVIOUS
    <3>3. Tables(old, SeenGrants(s)) /\ m[1] \in DOMAIN old
      BY <1>2, <2>1
    <3> HIDE DEF row, gs, old, es, us, rows
    <3>4. Tables(old, gs)
      BY <3>1, <3>2, <3>3, GrantedTables
    <3>5. DOMAIN gs = DOMAIN SeenGrants(s) \cup {m[1]}
      BY <3>2 DEF Over, Row
    <3> QED BY <3>4, <3>5
  <2> HIDE DEF gs, us
  <2>4. /\ Tables(es, gs) /\ DOMAIN es = DOMAIN old
        /\ \A x \in DOMAIN old : x # m[1] => es[x] = old[x]
    <3>1. "GRANTED" \in EntryStatus
      BY DEF EntryStatus
    <3> HIDE DEF old
    <3> QED BY <2>1, <2>3, <3>1, MarkedTables
  <2> HIDE DEF es
  <2>5. Issued(es, Over(tx[s].nextTicket, nextTicket))
    BY <1>2, <2>4, IssuedSame
  <2>6. rows \subseteq OwnRows(tx[s])
    <3>1. m[1] \in EntryIds
      BY <1>2, <2>1 DEF Tables
    <3> QED BY <2>1, <3>1, RowsOwned, UnitsOwned
  <2>7. \A x \in DOMAIN es :
           \/ x \in DOMAIN entries /\ es[x] = entries[x]
           \/ <<"entry", x>> \in tx[s].locks \cup rows
    BY <1>1, <2>4, SeenFacts
  <2> HIDE DEF rows, old
  <2>8. t.at = "promote" /\ t.op = tx[s].op /\ t.e = tx[s].e
    BY <1>2, <2>2, DoShape
  <2>9. t.user = tx[s].user
    BY <1>2, <2>2, DoShape
  <2>10. tx[s].locks \subseteq tx'[s].locks
    BY <1>2, <2>2, DoHolds
  <2>11. FollowsPlan(t)
    BY <1>3, <2>8, <2>10 DEF FollowsPlan, ProductPlan, ProductRow, EntryRow
  <2>12. Knows(t)
    BY <1>2, <1>3, <2>8, <2>9 DEF Legal, Knows
  <2>13. "promote" \notin Reading
    BY DEF Reading
  <2>14. DOMAIN entries \subseteq DOMAIN es /\ DOMAIN grants \subseteq DOMAIN gs
    BY <1>2, <2>3, <2>4
  <2> QED BY <1>1, <2>2, <2>4, <2>5, <2>6, <2>7, <2>11, <2>12, <2>13, <2>14, DoKeeps
<1>5. ASSUME Do(s, IF tx[s].op = "leave" THEN "mark" ELSE "commit",
                {<<"entry", e>> : e \in Oldest(s)},
                SeenEntries(s), SeenGrants(s), SeenUnits(s), {})
      PROVE  LockInv'
  <2> DEFINE next == IF tx[s].op = "leave" THEN "mark" ELSE "commit"
             rows == {<<"entry", e>> : e \in Oldest(s)}
  <2>1. Do(s, next, rows, SeenEntries(s), SeenGrants(s), SeenUnits(s), {})
    BY <1>5
  <2>2. rows \subseteq OwnRows(tx[s])
    <3>1. \A e \in Oldest(s) : e \in DOMAIN old /\ e[1] = p
      BY DEF Oldest, Waiting
    <3>2. \A e \in Oldest(s) : e \in EntryIds /\ e[1] = p
      BY <1>2, <3>1 DEF Tables
    <3> QED BY <3>2, RowsOwned
  <2> HIDE DEF rows
  <2>3. t.op = tx[s].op /\ t.e = tx[s].e
    BY <1>2, <2>1, DoShape
  <2>4. t.user = tx[s].user /\ t.at = next
    BY <1>2, <2>1, DoShape
  <2>5. tx[s].locks \subseteq tx'[s].locks
    BY <1>2, <2>1, DoHolds
  <2>6. FollowsPlan(t)
    BY <1>3, <2>3, <2>4, <2>5 DEF FollowsPlan, ProductPlan, ProductRow, EntryRow
  <2>7. Knows(t)
    BY <1>2, <1>3, <2>3, <2>4 DEF Legal, Knows
  <2>8. next \notin Reading
    BY DEF Reading
  <2>9. \A x \in DOMAIN old :
           \/ x \in DOMAIN entries /\ old[x] = entries[x]
           \/ <<"entry", x>> \in tx[s].locks \cup rows
    BY <1>1, SeenFacts
  <2> HIDE DEF next
  <2> QED BY <1>1, <1>2, <2>1, <2>2, <2>6, <2>7, <2>8, <2>9, DoKeeps
<1> QED BY <1>4, <1>5 DEF PromoteOne

(* The tables may change under a transaction, as long as no row is lost.   *)
LEMMA OverTables ==
    ASSUME NEW a, NEW b, NEW es, NEW gs, NEW fs, NEW hs,
           Tables(Over(a, es), Over(b, gs)), Tables(fs, hs),
           DOMAIN es \subseteq DOMAIN fs, DOMAIN gs \subseteq DOMAIN hs
    PROVE  Tables(Over(a, fs), Over(b, hs))
<1> DEFINE A == Over(a, fs)
           B == Over(b, hs)
           A0 == Over(a, es)
           B0 == Over(b, gs)
           EntryRows == [user : Users, status : EntryStatus]
           GrantRows == [unit : Units, status : GrantStatus, left : Int, age : Int]
<1>1. /\ DOMAIN A = DOMAIN a \cup DOMAIN fs
      /\ \A x \in DOMAIN a : A[x] = a[x]
      /\ \A x \in DOMAIN fs : x \notin DOMAIN a => A[x] = fs[x]
      /\ A = [x \in DOMAIN A |-> A[x]]
  BY DEF Over
<1>2. /\ DOMAIN B = DOMAIN b \cup DOMAIN hs
      /\ \A x \in DOMAIN b : B[x] = b[x]
      /\ \A x \in DOMAIN hs : x \notin DOMAIN b => B[x] = hs[x]
      /\ B = [x \in DOMAIN B |-> B[x]]
  BY DEF Over
<1>3. /\ DOMAIN A0 = DOMAIN a \cup DOMAIN es
      /\ \A x \in DOMAIN a : A0[x] = a[x]
  BY DEF Over
<1>4. /\ DOMAIN B0 = DOMAIN b \cup DOMAIN gs
      /\ \A x \in DOMAIN b : B0[x] = b[x]
  BY DEF Over
<1> HIDE DEF A, B, A0, B0
<1>5. Tables(A0, B0)
  BY DEF A0, B0
<1>6. /\ \A x \in DOMAIN A0 : A0[x] \in EntryRows /\ x \in EntryIds
                              /\ (A0[x].status = "GRANTED" => x \in DOMAIN B0)
      /\ \A x \in DOMAIN B0 : B0[x] \in GrantRows /\ ProductOf[B0[x].unit] = x[1]
                              /\ x \in DOMAIN A0
  BY <1>5 DEF Tables
<1>7. /\ \A x \in DOMAIN fs : fs[x] \in EntryRows /\ x \in EntryIds
                              /\ (fs[x].status = "GRANTED" => x \in DOMAIN hs)
      /\ \A x \in DOMAIN hs : hs[x] \in GrantRows /\ ProductOf[hs[x].unit] = x[1]
                              /\ x \in DOMAIN fs
  BY DEF Tables
<1> HIDE DEF EntryRows, GrantRows
<1>8. \A x \in DOMAIN A : A[x] \in EntryRows /\ x \in EntryIds
                          /\ (A[x].status = "GRANTED" => x \in DOMAIN B)
  BY <1>1, <1>2, <1>3, <1>4, <1>6, <1>7
<1>9. \A x \in DOMAIN B : B[x] \in GrantRows /\ ProductOf[B[x].unit] = x[1] /\ x \in DOMAIN A
  BY <1>1, <1>2, <1>3, <1>4, <1>6, <1>7
<1>10. A \in [DOMAIN A -> EntryRows] /\ B \in [DOMAIN B -> GrantRows]
  BY <1>1, <1>2, <1>8, <1>9
<1>11. DOMAIN A \subseteq EntryIds /\ DOMAIN B \subseteq DOMAIN A
  BY <1>8, <1>9
<1>12. Tables(A, B)
  BY <1>8, <1>9, <1>10, <1>11 DEF Tables, EntryRows, GrantRows
<1> QED BY <1>12 DEF A, B

(* What another session's commit does to the tables leaves a transaction   *)
(* what it knows, because the rows it holds are not among those rewritten. *)
LEMMA OthersStayLegal ==
    ASSUME LockInv, NEW s \in Sessions, NEW q \in Sessions, s # q,
           tx[s] # None, tx[q] # None,
           Tables(entries', grants'), Issued(entries', nextTicket'),
           nextTicket' = Over(tx[s].nextTicket, nextTicket),
           entries' = SeenEntries(s),
           DOMAIN grants \subseteq DOMAIN grants',
           tx'[q] = tx[q]
    PROVE  Legal(tx[q])'
<1> DEFINE t == tx[q]
<1>1. /\ Legal(t) /\ Writes(t) /\ Knows(t) /\ FollowsPlan(t)
      /\ t = [f \in Fields |-> t[f]]
      /\ t.e \in Products \X Nat /\ t.lag \in Nat /\ t.locks \subseteq OwnRows(t)
      /\ Legal(tx[s]) /\ Writes(tx[s])
      /\ t.locks \cap tx[s].locks = {}
      /\ Tables(entries, grants) /\ Issued(entries, nextTicket)
  BY SeenFacts DEF LockInv, Legal, Exclusive
<1>2. /\ DOMAIN entries' = DOMAIN tx[s].entries \cup DOMAIN entries
      /\ \A x \in DOMAIN entries : x \notin DOMAIN tx[s].entries => entries'[x] = entries[x]
  BY DEF SeenEntries, Over
<1>3. \A p \in DOMAIN t.nextTicket : p \in Products /\ nextTicket'[p] = nextTicket[p]
  <2>1. SUFFICES ASSUME NEW p \in DOMAIN t.nextTicket
                 PROVE  p \in Products /\ nextTicket'[p] = nextTicket[p]
    OBVIOUS
  <2>2. <<"product", p>> \in t.locks /\ <<"product", p>> \notin tx[s].locks
    BY <1>1 DEF Writes
  <2>3. p \in Products
    BY <1>1, <2>2 DEF OwnRows, ProductRow, GrantRow, KeyRow
  <2>4. p \notin DOMAIN tx[s].nextTicket
    BY <1>1, <2>2 DEF Writes
  <2> QED BY <1>1, <2>3, <2>4 DEF Over, Issued
<1>4. \A p \in Products : nextTicket'[p] >= nextTicket[p]
  <2>1. \A p \in Products : nextTicket[p] \in Nat
    BY <1>1 DEF Issued
  <2>2. \A p \in DOMAIN tx[s].nextTicket : tx[s].nextTicket[p] = nextTicket[p] + 1
    BY <1>1 DEF Writes
  <2>3. DOMAIN nextTicket = Products
    BY <1>1 DEF Issued
  <2>4. \A p \in Products :
           nextTicket'[p] = IF p \in DOMAIN tx[s].nextTicket THEN nextTicket[p] + 1
                                                            ELSE nextTicket[p]
    BY <2>2, <2>3 DEF Over
  <2> QED BY <2>1, <2>4
<1>5. Tables(Over(t.entries, entries'), Over(t.grants, grants'))
  <2>1. Tables(Over(t.entries, entries), Over(t.grants, grants))
    BY <1>1 DEF Writes
  <2>2. DOMAIN entries \subseteq DOMAIN entries'
    BY <1>2
  <2> HIDE DEF t
  <2> QED BY <2>1, <2>2, OverTables
<1>6. Issued(Over(t.entries, entries'), Over(t.nextTicket, nextTicket'))
  <2> DEFINE es == Over(t.entries, entries')
             nt == Over(t.nextTicket, nextTicket')
  <2>1. /\ nextTicket \in [Products -> Nat \ {0}] /\ nextTicket' \in [Products -> Nat \ {0}]
        /\ \A x \in DOMAIN entries' : x[2] < nextTicket'[x[1]]
    BY <1>1 DEF Issued
  <2>2. \A p \in DOMAIN t.nextTicket : t.nextTicket[p] = nextTicket[p] + 1
    BY <1>1 DEF Writes
  <2>3. nt = [p \in Products |-> IF p \in DOMAIN t.nextTicket THEN nextTicket'[p] + 1
                                                              ELSE nextTicket'[p]]
    <3>1. DOMAIN t.nextTicket \cup DOMAIN nextTicket' = Products
      BY <1>3, <2>1
    <3>2. \A p \in Products :
             (IF p \in DOMAIN t.nextTicket THEN t.nextTicket[p] ELSE nextTicket'[p])
               = IF p \in DOMAIN t.nextTicket THEN nextTicket'[p] + 1 ELSE nextTicket'[p]
      BY <1>3, <2>2
    <3> QED BY <3>1, <3>2 DEF Over
  <2>4. DOMAIN es = DOMAIN t.entries \cup DOMAIN entries'
    BY OverDomain
  <2>5. \A x \in DOMAIN t.entries : x[1] \in Products /\ x[2] \in Nat
                                   /\ x[2] < Over(t.nextTicket, nextTicket)[x[1]]
    <3>1. DOMAIN t.entries \subseteq DOMAIN Over(t.entries, entries)
      BY DEF Over
    <3>2. DOMAIN Over(t.entries, entries) \subseteq EntryIds
      BY <1>1 DEF Writes, Tables
    <3>3. \A x \in DOMAIN Over(t.entries, entries) :
             x[2] < Over(t.nextTicket, nextTicket)[x[1]]
      BY <1>1 DEF Writes, Issued
    <3> QED BY <3>1, <3>2, <3>3, ConstantsAssumption DEF EntryIds
  <2>6. \A p \in Products : Over(t.nextTicket, nextTicket)[p] \in Nat
                           /\ Over(t.nextTicket, nextTicket)[p] <= nt[p]
    <3>1. \A p \in Products : nextTicket[p] \in Nat /\ nextTicket'[p] \in Nat
      BY <2>1
    <3>2. \A p \in Products : Over(t.nextTicket, nextTicket)[p] =
             IF p \in DOMAIN t.nextTicket THEN nextTicket[p] + 1 ELSE nextTicket[p]
      BY <2>1, <2>2 DEF Over
    <3> HIDE DEF nt
    <3> QED BY <1>4, <2>3, <3>1, <3>2
  <2>7. \A x \in DOMAIN entries' : x[1] \in Products /\ x[2] \in Nat
    BY <1>1, ConstantsAssumption DEF Tables, EntryIds
  <2> HIDE DEF nt, es, t
  <2>8. nt \in [Products -> Nat \ {0}]
    BY <2>1, <2>3
  <2>9. \A x \in DOMAIN entries' : x[2] < nt[x[1]]
    BY <2>1, <2>3, <2>7
  <2>10. ASSUME NEW x \in DOMAIN t.entries PROVE x[2] < nt[x[1]]
    <3>1. x[1] \in Products /\ x[2] \in Nat /\ x[2] < Over(t.nextTicket, nextTicket)[x[1]]
      BY <2>5
    <3>2. nt[x[1]] \in Nat
      BY <2>8, <3>1
    <3> QED BY <2>6, <3>1, <3>2
  <2>11. Issued(es, nt)
    BY <2>4, <2>8, <2>9, <2>10 DEF Issued
  <2> QED BY <2>11 DEF es, nt
<1>7. Writes(tx[q])'
  <2>1. /\ t.at \in Reading => DOMAIN t.entries = {} /\ DOMAIN t.grants = {}
        /\ \A x \in DOMAIN t.entries : <<"entry", x>> \in t.locks
        /\ \A p \in DOMAIN t.nextTicket :
              <<"product", p>> \in t.locks /\ t.nextTicket[p] = nextTicket'[p] + 1
    BY <1>1, <1>3 DEF Writes
  <2>2. /\ Tables(Over(t.entries, entries'), Over(t.grants, grants'))
              = Tables(Over(tx[q].entries, entries), Over(tx[q].grants, grants))'
        /\ Issued(Over(t.entries, entries'), Over(t.nextTicket, nextTicket'))
              = Issued(Over(tx[q].entries, entries), Over(tx[q].nextTicket, nextTicket))'
    BY DEF Tables, Issued, Over
  <2> QED BY <2>1, <2>2, <1>5, <1>6 DEF Writes
<1>8. Knows(tx[q])'
  <2>1. t.op = "checkout" /\ t.at = "commit" => entries'[t.e] = entries[t.e]
    <3>1. SUFFICES ASSUME t.op = "checkout", t.at = "commit"
                   PROVE  entries'[t.e] = entries[t.e]
      OBVIOUS
    <3>2. EntryRow(t) \in t.locks
      BY <1>1, <3>1 DEF FollowsPlan, CheckoutPlan
    <3>3. t.e \notin DOMAIN tx[s].entries
      BY <1>1, <3>2 DEF Writes, EntryRow
    <3>4. t.e \in DOMAIN entries
      BY <1>1, <3>1 DEF Knows, Tables
    <3> QED BY <1>2, <3>3, <3>4
  <2> QED BY <1>1, <1>2, <2>1 DEF Knows
<1>9. FollowsPlan(tx[q])'
  BY <1>1 DEF FollowsPlan, CheckoutPlan, ProductPlan, ProductRow, EntryRow, GrantRow
<1>10. OwnRows(tx[q])' = OwnRows(t)
  BY DEF OwnRows, ProductRow, GrantRow, KeyRow
<1> QED BY <1>1, <1>7, <1>8, <1>9, <1>10 DEF Legal

LEMMA CommitKeeps ==
    ASSUME LockInv, NEW s \in Sessions, Commit(s)
    PROVE  LockInv'
<1> DEFINE GrantRows == [unit : Units, status : GrantStatus, left : Int, age : Int]
           written == [e \in DOMAIN tx[s].grants |->
                         IF tx[s].grants[e].status = "ACTIVE"
                         THEN [tx[s].grants[e] EXCEPT !.left = @ - tx[s].lag]
                         ELSE tx[s].grants[e]]
<1>1. /\ tx[s] # None
      /\ nextTicket' = Over(tx[s].nextTicket, nextTicket)
      /\ entries' = SeenEntries(s) /\ grants' = Over(written, grants)
      /\ tx' = [tx EXCEPT ![s] = None]
  BY DEF Commit, At
<1>2. /\ Legal(tx[s]) /\ Tables(SeenEntries(s), SeenGrants(s)) /\ tx[s].lag \in Nat
      /\ Issued(SeenEntries(s), Over(tx[s].nextTicket, nextTicket))
      /\ tx = [q \in Sessions |-> tx[q]] /\ Tables(entries, grants)
  BY <1>1, SeenFacts DEF Legal, LockInv
<1>3. /\ DOMAIN grants' = DOMAIN SeenGrants(s)
      /\ grants' = [x \in DOMAIN grants' |-> grants'[x]]
      /\ \A x \in DOMAIN SeenGrants(s) :
            \/ grants'[x] = SeenGrants(s)[x]
            \/ grants'[x] = [SeenGrants(s)[x] EXCEPT !.left = @ - tx[s].lag]
  BY <1>1 DEF SeenGrants, Over
<1>4. /\ \A x \in DOMAIN SeenGrants(s) :
            SeenGrants(s)[x] \in GrantRows /\ ProductOf[SeenGrants(s)[x].unit] = x[1]
  BY <1>2 DEF Tables
<1>5. \A x \in DOMAIN grants' : grants'[x] \in GrantRows /\ ProductOf[grants'[x].unit] = x[1]
  <2>1. SUFFICES ASSUME NEW x \in DOMAIN SeenGrants(s)
                 PROVE  grants'[x] \in GrantRows /\ ProductOf[grants'[x].unit] = x[1]
    BY <1>3
  <2>2. CASE grants'[x] = SeenGrants(s)[x]
    BY <1>4, <2>2
  <2>3. CASE grants'[x] = [SeenGrants(s)[x] EXCEPT !.left = @ - tx[s].lag]
    <3> DEFINE g == SeenGrants(s)[x]
    <3>1. g \in GrantRows /\ ProductOf[g.unit] = x[1]
      BY <1>4
    <3>2. g.left - tx[s].lag \in Int
      BY <1>2, <3>1
    <3> HIDE DEF g
    <3>3. [g EXCEPT !.left = @ - tx[s].lag] \in GrantRows
          /\ [g EXCEPT !.left = @ - tx[s].lag].unit = g.unit
      BY <3>1, <3>2
    <3> QED BY <2>3, <3>1, <3>3 DEF g
  <2> QED BY <1>3, <2>2, <2>3
<1>6. Tables(entries', grants')
  <2>1. grants' \in [DOMAIN grants' -> GrantRows]
    <3> HIDE DEF GrantRows
    <3> QED BY <1>3, <1>5
  <2> QED BY <1>1, <1>2, <1>3, <1>5, <2>1 DEF Tables
<1>7. Issued(entries', nextTicket')
  BY <1>1, <1>2
<1>8. DOMAIN grants \subseteq DOMAIN grants'
  BY <1>1, <1>3, SeenFacts
<1>9. /\ tx' = [q \in Sessions |-> tx'[q]] /\ tx'[s] = None
      /\ \A q \in Sessions \ {s} : tx'[q] = tx[q]
  BY <1>1, <1>2
<1>10. ASSUME NEW q \in Sessions, tx'[q] # None PROVE Legal(tx[q])'
  <2>1. s # q /\ tx[q] # None /\ tx'[q] = tx[q]
    BY <1>9, <1>10
  <2> HIDE DEF written
  <2> QED BY <1>1, <1>6, <1>7, <1>8, <2>1, OthersStayLegal
<1>11. Exclusive'
  BY <1>9 DEF LockInv, Exclusive
<1>12. Tables(entries, grants)' /\ Issued(entries, nextTicket)'
  BY <1>6, <1>7 DEF Tables, Issued
<1> QED BY <1>9, <1>10, <1>11, <1>12 DEF LockInv

LEMMA TxTickKeeps ==
    ASSUME LockInv, TxTick
    PROVE  LockInv'
<1> DEFINE GrantRows == [unit : Units, status : GrantStatus, left : Int, age : Int]
<1>1. /\ UNCHANGED <<nextTicket, entries>>
      /\ \/ grants' = [e \in DOMAIN grants |-> Elapse(grants[e])] \/ grants' = grants
  BY DEF TxTick, Tick, vars
<1>2. /\ tx = [q \in Sessions |-> tx[q]] /\ tx' = [q \in Sessions |-> tx'[q]]
      /\ \A q \in Sessions : tx[q] = None => tx'[q] = None
      /\ \A q \in Sessions : tx[q] # None => tx'[q] = [tx[q] EXCEPT !.lag = @ + 1]
  BY DEF LockInv, TxTick
<1>3. Tables(entries, grants) /\ Issued(entries, nextTicket)
  BY DEF LockInv
<1>4. ASSUME NEW g \in GrantRows
      PROVE  Elapse(g) \in GrantRows /\ Elapse(g).unit = g.unit
  <2>1. Floor \in Int /\ MaxLag \in Int
    BY ConstantsAssumption DEF Floor
  <2> DEFINE left == IF g.left > Floor THEN g.left - 1 ELSE g.left
             age == IF g.age < MaxLag THEN g.age + 1 ELSE g.age
             h == [g EXCEPT !.left = left, !.age = age]
  <2>2. left \in Int /\ age \in Int
    BY <2>1
  <2>3. Elapse(g) = IF g.status # "ACTIVE" THEN g ELSE h
    BY DEF Elapse
  <2> HIDE DEF left, age
  <2>4. h \in GrantRows /\ h.unit = g.unit
    BY <2>2
  <2> HIDE DEF h, GrantRows
  <2> QED BY <2>3, <2>4
<1>5. /\ DOMAIN grants' = DOMAIN grants
      /\ grants' \in [DOMAIN grants -> GrantRows]
      /\ \A x \in DOMAIN grants : ProductOf[grants'[x].unit] = x[1]
  <2>1. grants \in [DOMAIN grants -> GrantRows]
        /\ \A x \in DOMAIN grants : ProductOf[grants[x].unit] = x[1]
    BY <1>3 DEF Tables
  <2> HIDE DEF GrantRows
  <2>2. CASE grants' = grants
    BY <2>1, <2>2
  <2>3. CASE grants' = [e \in DOMAIN grants |-> Elapse(grants[e])]
    BY <1>4, <2>1, <2>3
  <2> QED BY <1>1, <2>2, <2>3
<1>6. Tables(entries', grants') /\ Issued(entries', nextTicket')
  BY <1>1, <1>3, <1>5 DEF Tables, Issued
<1>7. ASSUME NEW q \in Sessions, tx'[q] # None PROVE Legal(tx[q])'
  <2> DEFINE t == tx[q]
             u == tx'[q]
  <2>1. tx[q] # None /\ u = [t EXCEPT !.lag = @ + 1]
    BY <1>2, <1>7
  <2>2. /\ Legal(t) /\ Writes(t) /\ Knows(t) /\ FollowsPlan(t)
        /\ t = [f \in Fields |-> t[f]]
        /\ t.e \in Products \X Nat /\ t.lag \in Nat /\ t.locks \subseteq OwnRows(t)
    BY <2>1, SeenFacts DEF LockInv, Legal
  <2>3. /\ u = [f \in Fields |-> u[f]] /\ u.lag = t.lag + 1
        /\ u.at = t.at /\ u.op = t.op /\ u.e = t.e /\ u.user = t.user /\ u.key = t.key
        /\ u.locks = t.locks /\ u.entries = t.entries /\ u.grants = t.grants
        /\ u.nextTicket = t.nextTicket
    BY <2>1, <2>2 DEF Fields
  <2>4. FollowsPlan(tx[q])' /\ Knows(tx[q])'
    <3>1. FollowsPlan(tx[q])'
      <4>1. /\ ProductRow(tx[q])' = ProductRow(t) /\ EntryRow(tx[q])' = EntryRow(t)
            /\ GrantRow(tx[q])' = GrantRow(t)
        BY <2>3 DEF ProductRow, EntryRow, GrantRow
      <4>2. CASE t.op = "checkout"
        <5>1. CheckoutPlan(t)
          BY <2>2, <4>2 DEF FollowsPlan
        <5>2. CheckoutPlan(tx[q])'
          BY <2>3, <4>1, <5>1 DEF CheckoutPlan
        <5> QED BY <2>2, <2>3, <4>2, <5>2 DEF FollowsPlan
      <4>3. CASE t.op # "checkout"
        <5>1. ProductPlan(t)
          BY <2>2, <4>3 DEF FollowsPlan
        <5>2. ProductPlan(tx[q])'
          BY <2>3, <4>1, <5>1 DEF ProductPlan
        <5> QED BY <2>2, <2>3, <4>3, <5>2 DEF FollowsPlan
      <4> QED BY <4>2, <4>3
    <3>2. Knows(tx[q])'
      BY <1>1, <1>5, <2>2, <2>3 DEF Knows
    <3> QED BY <3>1, <3>2
  <2>5. Tables(Over(t.entries, entries), Over(t.grants, grants'))
    <3> HIDE DEF t
    <3>1. Tables(Over(t.entries, entries), Over(t.grants, grants))
      BY <2>2 DEF Writes
    <3>2. Tables(entries, grants') /\ DOMAIN grants \subseteq DOMAIN grants'
      BY <1>1, <1>5, <1>6
    <3> QED BY <3>1, <3>2, OverTables
  <2>6. /\ Tables(Over(tx[q].entries, entries), Over(tx[q].grants, grants))'
        /\ Issued(Over(tx[q].entries, entries), Over(tx[q].nextTicket, nextTicket))'
    <3>1. /\ Over(tx[q].entries, entries)' = Over(t.entries, entries)
          /\ Over(tx[q].grants, grants)' = Over(t.grants, grants')
          /\ Over(tx[q].nextTicket, nextTicket)' = Over(t.nextTicket, nextTicket)
      BY <1>1, <2>3 DEF Over
    <3>2. Issued(Over(t.entries, entries), Over(t.nextTicket, nextTicket))
      BY <2>2 DEF Writes
    <3> HIDE DEF t, u
    <3> QED BY <2>5, <3>1, <3>2 DEF Tables, Issued
  <2>7. Writes(tx[q])'
    BY <1>1, <2>2, <2>3, <2>6 DEF Writes
  <2>8. OwnRows(tx[q])' = OwnRows(t)
    BY <2>3 DEF OwnRows, ProductRow, GrantRow, KeyRow
  <2>9. u.lag \in Nat
    BY <2>2, <2>3
  <2> QED BY <2>2, <2>3, <2>4, <2>7, <2>8, <2>9 DEF Legal
<1>8. Exclusive'
  <2>1. \A q \in Sessions : tx'[q] # None => tx[q] # None /\ tx'[q].locks = tx[q].locks
    <3>1. SUFFICES ASSUME NEW q \in Sessions, tx'[q] # None
                   PROVE  tx[q] # None /\ tx'[q].locks = tx[q].locks
      OBVIOUS
    <3>2. tx[q] # None
      BY <1>2, <3>1
    <3>3. tx[q] = [f \in Fields |-> tx[q][f]]
      BY <3>2 DEF LockInv, Legal
    <3> QED BY <1>2, <3>2, <3>3 DEF Fields
  <2> QED BY <2>1 DEF LockInv, Exclusive
<1>9. Tables(entries, grants)' /\ Issued(entries, nextTicket)'
  BY <1>6 DEF Tables, Issued
<1> QED BY <1>2, <1>7, <1>8, <1>9 DEF LockInv

-----------------------------------------------------------------------------
LEMMA LockInit ==
    TxInit => LockInv
<1> SUFFICES ASSUME TxInit PROVE LockInv
  OBVIOUS
<1>1. Tables(entries, grants) /\ Issued(entries, nextTicket)
  BY DEF TxInit, Init, Tables, Issued
<1> QED BY <1>1 DEF TxInit, LockInv, Exclusive

LEMMA LockStep ==
    ASSUME LockInv, [TxNext]_txVars
    PROVE  LockInv'
<1>1. CASE UNCHANGED txVars
  <2>1. UNCHANGED vars /\ tx' = tx
    BY <1>1 DEF txVars, vars
  <2>2. CASE Sessions = {}
    BY <2>1, <2>2 DEF LockInv, vars, Tables, Issued, Exclusive
  <2>3. ASSUME NEW s \in Sessions PROVE LockInv'
    <3> DEFINE t == tx[s]
    <3>1. tx' = [tx EXCEPT ![s] = t]
      BY <2>1 DEF LockInv
    <3>2. /\ t # None => Legal(t)
          /\ t # None => \A q \in Sessions \ {s} :
                            tx[q] # None => tx[q].locks \cap t.locks = {}
      BY DEF LockInv, Exclusive
    <3> HIDE DEF t
    <3> QED BY <2>1, <3>1, <3>2, OneMoves
  <2> QED BY <2>2, <2>3
<1>2. ASSUME NEW s \in Sessions, Statement(s) PROVE LockInv'
  BY <1>2, LockProductKeeps, InsertKeeps, LeaveLocksEntryKeeps, CheckoutLocksEntryKeeps,
     LockGrantKeeps, InsertAttemptKeeps, SettleKeeps, CloseKeeps, PromoteOneKeeps,
     LeaveMarksEntryKeeps, CommitKeeps
     DEF Statement
<1>3. ASSUME NEW s \in Sessions, DeadlockAbort(s) \/ Crash(s) PROVE LockInv'
  BY <1>3, EndKeeps DEF DeadlockAbort, Crash
<1>4. CASE TxTick
  BY <1>4, TxTickKeeps
<1> QED BY <1>1, <1>2, <1>3, <1>4, Beginnings DEF TxNext

(* The services lock what they write, in the order their plan says, and    *)
(* nobody reads a row that another holds as anything but what it is.       *)
THEOREM LockDiscipline == TxSpec => []LockInv
<1> QED BY LockInit, LockStep, PTL DEF TxSpec

-----------------------------------------------------------------------------
(***************************************************************************)
(* Deadlocks.  Whoever waits for the product holds nothing, and whoever    *)
(* holds an idempotency key waits for nothing, so neither is on a cycle;   *)
(* of the rest, those that hold the product could only be waited for by    *)
(* one another.                                                            *)
(***************************************************************************)

Leaving(t) ==
    /\ t.op = "leave" /\ t.at = "grant" /\ t.locks = {ProductRow(t), EntryRow(t)}
CheckingOut(t) ==
    /\ t.op = "checkout" /\ t.at = "entry" /\ t.locks = {GrantRow(t)}

LEMMA OnACycle ==
    ASSUME LockInv, NEW C \in SUBSET Sessions, NEW next \in Bijection(C, C),
           \A a \in C : WaitsFor(a, next[a])
    PROVE  \A a \in C : tx[a] # None /\ (Leaving(tx[a]) \/ CheckingOut(tx[a]))
<1>1. /\ \A a \in C : next[a] \in C
      /\ \A a \in C : \E b \in C : next[b] = a
  BY DEF Bijection, Injection, Surjection
<1>2. ASSUME NEW a \in C
      PROVE  /\ tx[a] # None /\ Legal(tx[a]) /\ FollowsPlan(tx[a]) /\ a \in Sessions
             /\ tx[a].locks # {} /\ Wanted(a) # {}
  <2>1. PICK b \in C : WaitsFor(b, a)
    BY <1>1
  <2>2. tx[a] # None /\ tx[a].locks # {}
    BY <2>1 DEF WaitsFor
  <2>3. Wanted(a) # {}
    BY DEF WaitsFor
  <2> QED BY <2>2, <2>3, SeenFacts
<1>3. ASSUME NEW a \in C
      PROVE  \/ Leaving(tx[a]) \/ CheckingOut(tx[a])
             \/ /\ tx[a].op # "checkout" /\ tx[a].at \in {"entry", "grant"}
                /\ tx[a].locks = {ProductRow(tx[a])}
             \/ /\ tx[a].op # "checkout" /\ tx[a].at = "attempt"
                /\ tx[a].locks = {ProductRow(tx[a]), GrantRow(tx[a])}
  BY <1>2 DEF Wanted, FollowsPlan, CheckoutPlan, ProductPlan, Leaving, CheckingOut
<1>4. ASSUME NEW a \in C
      PROVE  \/ Wanted(a) = {<<"entry", tx[a].e>>}
             \/ Wanted(a) = {<<"grant", tx[a].e>>} /\ tx[a].op # "checkout"
             \/ Wanted(a) = {<<"key", tx[a].key>>}
  BY <1>2, <1>3 DEF Wanted, Leaving, CheckingOut
<1>5. ASSUME NEW a \in C, ~(Leaving(tx[a]) \/ CheckingOut(tx[a]))
      PROVE  FALSE
  <2>1. PICK b \in C : next[b] = a
    BY <1>1
  <2>2. PICK r : r \in Wanted(b) /\ r \in tx[a].locks /\ b # a
    BY <2>1 DEF WaitsFor
  <2>3. r = <<"grant", tx[b].e>> /\ tx[b].op # "checkout"
        /\ tx[a].locks = {ProductRow(tx[a]), GrantRow(tx[a])}
    BY <1>3, <1>4, <1>5, <2>2 DEF ProductRow, GrantRow
  <2>4. tx[b].e = tx[a].e
    BY <2>2, <2>3 DEF ProductRow, GrantRow
  <2>5. ProductRow(tx[b]) \in tx[b].locks
    <3>1. ~CheckingOut(tx[b])
      BY <2>3 DEF CheckingOut
    <3> QED BY <1>3, <3>1 DEF Leaving
  <2>6. ProductRow(tx[b]) \in tx[a].locks
    BY <2>3, <2>4 DEF ProductRow
  <2> QED BY <1>2, <2>2, <2>5, <2>6 DEF LockInv, Exclusive
<1> QED BY <1>2, <1>5

(* Each of the two holds what the other asks for, so the cycle has two.    *)
LEMMA TwoOnACycle ==
    ASSUME LockInv, NEW s \in Sessions, Deadlocked(s)
    PROVE  \E t \in Sessions \ {s} :
              /\ WaitsFor(s, t) /\ WaitsFor(t, s)
              /\ {tx[s].op, tx[t].op} = {"leave", "checkout"}
              /\ tx[s].e = tx[t].e
<1>1. PICK C \in SUBSET Sessions :
         s \in C /\ \E next \in Bijection(C, C) : \A a \in C : WaitsFor(a, next[a])
  BY DEF Deadlocked
<1>2. PICK next \in Bijection(C, C) : \A a \in C : WaitsFor(a, next[a])
  BY <1>1
<1>3. \A a \in C : next[a] \in C
  BY DEF Bijection, Injection
<1>4. \A a \in C : tx[a] # None /\ (Leaving(tx[a]) \/ CheckingOut(tx[a]))
  BY <1>2, OnACycle
<1> DEFINE t == next[s]
<1>5. ASSUME NEW a \in C
      PROVE  /\ next[a] # a
             /\ tx[next[a]].e = tx[a].e
             /\ \/ Leaving(tx[a]) /\ CheckingOut(tx[next[a]])
                \/ CheckingOut(tx[a]) /\ Leaving(tx[next[a]])
  <2>1. PICK r : r \in Wanted(a) /\ r \in tx[next[a]].locks /\ a # next[a]
    BY <1>2 DEF WaitsFor
  <2>2. CASE Leaving(tx[a])
    <3>1. r = <<"grant", tx[a].e>>
      BY <1>4, <2>1, <2>2 DEF Wanted, Leaving
    <3>2. CheckingOut(tx[next[a]])
      BY <1>3, <1>4, <2>1, <3>1 DEF Leaving, ProductRow, EntryRow
    <3> QED BY <2>1, <2>2, <3>1, <3>2 DEF CheckingOut, GrantRow
  <2>3. CASE CheckingOut(tx[a])
    <3>1. r = <<"entry", tx[a].e>>
      BY <1>4, <2>1, <2>3 DEF Wanted, CheckingOut
    <3>2. Leaving(tx[next[a]])
      BY <1>3, <1>4, <2>1, <3>1 DEF CheckingOut, GrantRow
    <3> QED BY <2>1, <2>3, <3>1, <3>2 DEF Leaving, ProductRow, EntryRow
  <2> QED BY <1>4, <2>2, <2>3
<1>6. /\ t \in Sessions \ {s} /\ tx[s].e = tx[t].e /\ tx[s] # None /\ tx[t] # None
      /\ WaitsFor(s, t)
      /\ \/ Leaving(tx[s]) /\ CheckingOut(tx[t])
         \/ CheckingOut(tx[s]) /\ Leaving(tx[t])
  BY <1>1, <1>2, <1>3, <1>4, <1>5
<1> HIDE DEF t
<1>7. WaitsFor(t, s)
  <2>1. CASE Leaving(tx[s]) /\ CheckingOut(tx[t])
    <3>1. Wanted(t) = {<<"entry", tx[s].e>>} /\ <<"entry", tx[s].e>> \in tx[s].locks
      BY <1>6, <2>1 DEF Wanted, Leaving, CheckingOut, EntryRow
    <3> QED BY <1>6, <3>1 DEF WaitsFor
  <2>2. CASE CheckingOut(tx[s]) /\ Leaving(tx[t])
    <3>1. Wanted(t) = {<<"grant", tx[s].e>>} /\ <<"grant", tx[s].e>> \in tx[s].locks
      BY <1>6, <2>2 DEF Wanted, Leaving, CheckingOut, GrantRow
    <3> QED BY <1>6, <3>1 DEF WaitsFor
  <2> QED BY <1>6, <2>1, <2>2
<1>8. {tx[s].op, tx[t].op} = {"leave", "checkout"}
  BY <1>6 DEF Leaving, CheckingOut
<1> QED BY <1>6, <1>7, <1>8

(* A cycle of waiting sessions, of whatever length one looks for, is a     *)
(* LeaveQueue of a granted place and the StartCheckout of the same place.  *)
THEOREM DeadlocksArePairs == TxSpec => []OnlyLeaveMeetsCheckout
<1>1. LockInv => OnlyLeaveMeetsCheckout
  BY TwoOnACycle DEF OnlyLeaveMeetsCheckout
<1> QED BY <1>1, LockDiscipline, PTL

(***************************************************************************)
(* Writes that cannot wait.  While a session holds the product, whoever    *)
(* else holds a row of it is a checkout about to commit: it holds one      *)
(* entry, which is GRANTED, and that entry's grant.                        *)
(***************************************************************************)

LEMMA OthersHoldNoUnit ==
    ASSUME LockInv, NEW s \in Sessions, NEW q \in Sessions, s # q,
           tx[s] # None, tx[q] # None, ProductRow(tx[s]) \in tx[s].locks,
           NEW u \in UnitsOf(tx[s].e[1])
    PROVE  <<"unit", u>> \notin tx[q].locks
<1> SUFFICES ASSUME <<"unit", u>> \in tx[q].locks PROVE FALSE
  OBVIOUS
<1>1. /\ FollowsPlan(tx[q]) /\ tx[q].locks \subseteq OwnRows(tx[q])
      /\ tx[q].locks \cap tx[s].locks = {}
  BY SeenFacts DEF LockInv, Legal, Exclusive
<1>2. u \in UnitsOf(tx[q].e[1])
  BY <1>1 DEF OwnRows, ProductRow, GrantRow, KeyRow
<1>3. ProductRow(tx[q]) \notin tx[q].locks
  BY <1>1, <1>2 DEF ProductRow, UnitsOf
<1>4. tx[q].locks = {} \/ tx[q].locks = {GrantRow(tx[q])}
      \/ tx[q].locks = {GrantRow(tx[q]), EntryRow(tx[q])}
  BY <1>1, <1>3 DEF FollowsPlan, CheckoutPlan, ProductPlan
<1> QED BY <1>4 DEF GrantRow, EntryRow

LEMMA OthersHoldGranted ==
    ASSUME LockInv, NEW s \in Sessions, NEW q \in Sessions, s # q,
           tx[s] # None, tx[q] # None, ProductRow(tx[s]) \in tx[s].locks,
           NEW e, <<"entry", e>> \in tx[q].locks, e[1] = tx[s].e[1]
    PROVE  /\ e \in DOMAIN entries /\ entries[e].status = "GRANTED"
           /\ <<"entry", e>> \notin tx[s].locks /\ <<"grant", e>> \notin tx[s].locks
<1>1. /\ Legal(tx[q]) /\ FollowsPlan(tx[q]) /\ Knows(tx[q])
      /\ tx[q].locks \subseteq OwnRows(tx[q])
      /\ tx[q].locks \cap tx[s].locks = {}
      /\ DOMAIN grants \subseteq DOMAIN entries
  BY SeenFacts DEF LockInv, Legal, Exclusive, Tables
<1>2. tx[q].e[1] = e[1]
  BY <1>1 DEF OwnRows, ProductRow, GrantRow, KeyRow
<1>3. ProductRow(tx[q]) \notin tx[q].locks
  BY <1>1, <1>2 DEF ProductRow
<1>4. \/ tx[q].op = "checkout" /\ tx[q].at = "commit"
         /\ tx[q].locks = {GrantRow(tx[q]), EntryRow(tx[q])}
      \/ tx[q].locks = {} \/ tx[q].locks = {GrantRow(tx[q])}
  BY <1>1, <1>3 DEF FollowsPlan, CheckoutPlan, ProductPlan
<1>5. /\ tx[q].op = "checkout" /\ tx[q].at = "commit"
      /\ tx[q].locks = {GrantRow(tx[q]), EntryRow(tx[q])}
  BY <1>4 DEF GrantRow
<1>6. e = tx[q].e
  BY <1>5 DEF GrantRow, EntryRow
<1>7. e \in DOMAIN entries /\ entries[e].status = "GRANTED"
  BY <1>1, <1>5, <1>6 DEF Knows
<1>8. <<"grant", e>> \in tx[q].locks
  BY <1>5, <1>6 DEF GrantRow
<1> QED BY <1>1, <1>7, <1>8

LEMMA NothingToWaitFor ==
    ASSUME LockInv, NEW s \in Sessions
    PROVE  Free(s, WriteSet(s))
<1>1. CASE tx[s] = None \/ tx[s].at \notin {"promote", "settle", "close"}
  BY <1>1 DEF Free, WriteSet, At
<1>2. CASE tx[s] # None /\ tx[s].at \in {"promote", "settle", "close"}
  <2> DEFINE p == tx[s].e[1]
  <2>1. /\ FollowsPlan(tx[s]) /\ Knows(tx[s])
        /\ \A x \in DOMAIN SeenEntries(s) :
              \/ x \in DOMAIN entries /\ SeenEntries(s)[x] = entries[x]
              \/ <<"entry", x>> \in tx[s].locks
        /\ DOMAIN grants \subseteq DOMAIN entries
        /\ \A x \in DOMAIN grants : grants[x].unit \in UnitsOf(x[1])
    BY <1>2, SeenFacts DEF LockInv, Legal, Tables, UnitsOf
  <2>2. ProductRow(tx[s]) \in tx[s].locks
    BY <1>2, <2>1 DEF FollowsPlan, CheckoutPlan, ProductPlan
  <2>3. SUFFICES ASSUME NEW q \in Sessions \ {s}, tx[q] # None,
                        NEW r, r \in tx[q].locks, r \in WriteSet(s)
                 PROVE  FALSE
    BY DEF Free
  <2>4. ASSUME NEW e, r = <<"entry", e>>, e[1] = p
        PROVE  /\ e \in DOMAIN entries /\ entries[e].status = "GRANTED"
               /\ <<"entry", e>> \notin tx[s].locks /\ <<"grant", e>> \notin tx[s].locks
    BY <1>2, <2>2, <2>3, <2>4, OthersHoldGranted
  <2>5. ASSUME NEW u \in UnitsOf(p), r = <<"unit", u>> PROVE FALSE
    BY <1>2, <2>2, <2>3, <2>5, OthersHoldNoUnit
  <2>6. CASE tx[s].at = "promote"
    <3>1. \/ \E e \in Oldest(s) : r = <<"entry", e>>
          \/ \E m \in NextPair(s) : r = <<"unit", m[2]>>
      BY <1>2, <2>3, <2>6 DEF WriteSet, At
    <3>2. \A e \in Oldest(s) : e \in DOMAIN SeenEntries(s) /\ e[1] = p
                               /\ SeenEntries(s)[e].status = "WAITING"
      BY DEF Oldest, Waiting
    <3>3. \A m \in NextPair(s) : m[2] \in UnitsOf(p)
      BY DEF NextPair, Available
    <3> QED BY <2>1, <2>4, <2>5, <3>1, <3>2, <3>3
  <2>7. CASE tx[s].at = "settle"
    <3>1. r \in {<<"entry", tx[s].e>>, <<"unit", grants[tx[s].e].unit>>}
      BY <1>2, <2>3, <2>7 DEF WriteSet, At
    <3>2. GrantRow(tx[s]) \in tx[s].locks /\ tx[s].op \in {"pay", "expire"}
      BY <2>1, <2>7 DEF FollowsPlan, CheckoutPlan, ProductPlan
    <3>3. grants[tx[s].e].unit \in UnitsOf(p)
      BY <2>1, <3>2 DEF Knows
    <3> QED BY <2>4, <2>5, <3>1, <3>2, <3>3 DEF GrantRow
  <2>8. CASE tx[s].at = "close"
    <3>1. \E e \in Waiting(entries, p) : r = <<"entry", e>>
      BY <1>2, <2>3, <2>8 DEF WriteSet, At
    <3> QED BY <2>4, <3>1 DEF Waiting
  <2> QED BY <1>2, <2>6, <2>7, <2>8
<1> QED BY <1>1, <1>2

(* What Promote, CloseQueueIfSoldOut and the settling of a right write is  *)
(* not locked by anybody else when they come to write it.                  *)
THEOREM WritesAreUncontended == TxSpec => []WritesNeverWait
<1>1. LockInv => WritesNeverWait
  BY NothingToWaitFor DEF WritesNeverWait
<1> QED BY <1>1, LockDiscipline, PTL

=============================================================================
