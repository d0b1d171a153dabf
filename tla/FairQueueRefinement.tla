------------------------ MODULE FairQueueRefinement ------------------------
(***************************************************************************)
(* The two specifications that are closer to the code implement FairQueue, *)
(* for any number of workers, sessions, products, units, users and keys:   *)
(* what the workers do is what FairQueue allows of Expire (ExpiryWorker),  *)
(* and transactions that run statement by statement, wait for each other   *)
(* and crash behave as if each were one step (FairQueueTx).                *)
(*                                                                         *)
(* For the workers it is enough to know that a batch holds rights that     *)
(* were granted, since each is looked at again in its own transaction.     *)
(*                                                                         *)
(* For the transactions the invariant TxInv says, beside the discipline of *)
(* the locks (LockInv) and the consistency of the committed rows (IInv),   *)
(* that each open transaction is Sound: what it found still holds, and     *)
(* what it has written, over whatever is committed now, is what the step   *)
(* of FairQueue would leave if it were made now and had come as far.       *)
(*                                                                         *)
(* - A statement of the transaction itself takes what it sees one row      *)
(*   further towards that (LoopPairs for the turns of promotion).          *)
(* - A commit of another transaction touches no row that is locked; all    *)
(*   but a checkout leave the locked product alone, and a checkout changes *)
(*   no entry that promotion or closing would (Kept, Still, Timed).        *)
(* - A tick makes rights older and the transactions that look at them too. *)
(* - At a commit, what the transaction has written is all of the step.     *)
(***************************************************************************)
EXTENDS FairQueueTxProofs, FairQueueProofs, ExpiryWorker, SequenceTheorems

(***************************************************************************)
(* The expiry worker.                                                      *)
(***************************************************************************)
(* What a worker holds: rights that were granted, at least one while it    *)
(* treats a batch.                                                         *)
Batch(w) == worker[w].batch

WorkerInv ==
    /\ IInv
    /\ worker = [w \in Workers |-> worker[w]]
    /\ \A w \in Workers :
          /\ worker[w] = [at |-> worker[w].at, batch |-> worker[w].batch]
          /\ worker[w].at \in {"ticker", "scan", "treat", "down"}
          /\ worker[w].at = "treat" => Batch(w) \in Seq(DOMAIN grants) /\ Batch(w) # <<>>

(* No grant is ever deleted. *)
LEMMA GrantsRemain ==
    ASSUME IInv, [Next]_vars
    PROVE  DOMAIN grants \subseteq DOMAIN grants'
<1>1. PICK p \in Products \cup {None} : StepOf(p)
  BY NextStep
<1> QED BY <1>1 DEF StepOf, GrantsMove

(* What the scan returns are granted rights. *)
LEMMA ScanReturnsRights ==
    ASSUME NEW R \in SUBSET DOMAIN grants, NEW b \in Batches(R)
    PROVE  b \in Seq(DOMAIN grants)
<1>1. PICK n \in 0 .. BatchSize : b \in [1 .. n -> R]
  BY DEF Batches
<1>2. n \in Nat
  BY <1>1, BatchAssumption
<1>3. b \in Seq(R)
  BY <1>1, <1>2
<1> QED BY <1>3

(* A worker treats rights of its batch only, and what it does to one is    *)
(* what FairQueue's Expire does, or nothing.                               *)
LEMMA WorkerStep ==
    ASSUME WorkerInv, [WorkerNext]_workerVars
    PROVE  WorkerInv' /\ [Next]_vars
<1>1. ASSUME NEW w \in Workers, NEW r, worker' = [worker EXCEPT ![w] = r], [Next]_vars,
             r = [at |-> r.at, batch |-> r.batch],
             r.at \in {"ticker", "scan", "treat", "down"},
             r.at = "treat" => r.batch \in Seq(DOMAIN grants) /\ r.batch # <<>>
      PROVE  WorkerInv' /\ [Next]_vars
  <2>1. IInv' /\ DOMAIN grants \subseteq DOMAIN grants'
    BY <1>1, NextIInv, GrantsRemain DEF WorkerInv
  <2>2. \A b \in Seq(DOMAIN grants) : b \in Seq(DOMAIN grants')
    BY <2>1
  <2>3. /\ worker' = [v \in Workers |-> worker'[v]]
        /\ worker'[w] = r
        /\ \A v \in Workers : v # w => worker'[v] = worker[v]
    BY <1>1 DEF WorkerInv
  <2>4. ASSUME NEW v \in Workers
        PROVE  /\ worker'[v] = [at |-> worker'[v].at, batch |-> worker'[v].batch]
               /\ worker'[v].at \in {"ticker", "scan", "treat", "down"}
               /\ worker'[v].at = "treat" =>
                     worker'[v].batch \in Seq(DOMAIN grants') /\ worker'[v].batch # <<>>
    <3>1. CASE v = w
      BY <1>1, <2>2, <2>3, <3>1
    <3>2. CASE v # w
      BY <2>2, <2>3, <3>2 DEF WorkerInv, Batch
    <3> QED BY <3>1, <3>2
  <2> QED BY <1>1, <2>1, <2>3, <2>4 DEF WorkerInv, Batch
<1>2. ASSUME [Next]_vars, worker' = worker PROVE WorkerInv' /\ [Next]_vars
  <2>1. IInv' /\ DOMAIN grants \subseteq DOMAIN grants'
    BY <1>2, NextIInv, GrantsRemain DEF WorkerInv
  <2>2. \A b \in Seq(DOMAIN grants) : b \in Seq(DOMAIN grants')
    BY <2>1
  <2> QED BY <1>2, <2>1, <2>2 DEF WorkerInv, Batch
<1>3. CASE Others \/ WorkerTick \/ UNCHANGED workerVars
  <2>1. [Next]_vars /\ worker' = worker
    BY <1>3 DEF Others, WorkerTick, Next, workerVars, vars, Overdue
  <2> QED BY <1>2, <2>1
<1>4. ASSUME NEW w \in Workers, Wake(w) \/ Fail(w) \/ Restart(w)
      PROVE  WorkerInv' /\ [Next]_vars
  BY <1>1, <1>4 DEF Wake, Fail, Restart, Waits, Scans, Down
<1>5. ASSUME NEW w \in Workers, Scan(w) PROVE WorkerInv' /\ [Next]_vars
  <2>1. PICK locked \in SUBSET Overdue : ScanSkipping(w, locked)
    BY <1>5 DEF Scan
  <2>2. PICK b \in Batches(Overdue \ locked) :
           worker' = [worker EXCEPT ![w] =
                         IF b = <<>> THEN Waits ELSE [at |-> "treat", batch |-> b]]
    BY <2>1 DEF ScanSkipping
  <2>3. b \in Seq(DOMAIN grants)
    BY ScanReturnsRights DEF Overdue
  <2>4. [Next]_vars
    BY <2>1 DEF ScanSkipping
  <2> DEFINE r == IF b = <<>> THEN Waits ELSE [at |-> "treat", batch |-> b]
  <2>5. /\ r = [at |-> r.at, batch |-> r.batch]
        /\ r.at \in {"ticker", "scan", "treat", "down"}
        /\ r.at = "treat" => r.batch \in Seq(DOMAIN grants) /\ r.batch # <<>>
    BY <2>3 DEF Waits
  <2> QED BY <1>1, <2>2, <2>4, <2>5
<1>6. ASSUME NEW w \in Workers, Treat(w) PROVE WorkerInv' /\ [Next]_vars
  <2>1. worker[w].at = "treat"
    BY <1>6 DEF Treat
  <2>2. Batch(w) \in Seq(DOMAIN grants) /\ Batch(w) # <<>>
    BY <2>1 DEF WorkerInv, Batch
  <2>3. Head(Batch(w)) \in DOMAIN grants /\ Tail(Batch(w)) \in Seq(DOMAIN grants)
    BY <2>2, HeadTailProperties
  <2>4. [Next]_vars
    BY <1>6, <2>3 DEF Treat, Next, Batch
  <2> DEFINE rest == Tail(Batch(w))
             r == IF rest = <<>> THEN Scans ELSE [at |-> "treat", batch |-> rest]
  <2>5. worker' = [worker EXCEPT ![w] = r]
    <3>1. Proceed(w)
      BY <1>6 DEF Treat
    <3> QED BY <3>1 DEF Proceed, Batch
  <2>6. rest \in Seq(DOMAIN grants)
    BY <2>3
  <2> HIDE DEF rest
  <2>7. /\ r = [at |-> r.at, batch |-> r.batch]
        /\ r.at \in {"ticker", "scan", "treat", "down"}
        /\ r.at = "treat" => r.batch \in Seq(DOMAIN grants) /\ r.batch # <<>>
    BY <2>6 DEF Scans
  <2> QED BY <1>1, <2>4, <2>5, <2>7
<1> QED BY <1>3, <1>4, <1>5, <1>6 DEF WorkerNext

(* Whatever workers there are, however large their batches, and wherever   *)
(* they fail, they do to the queue what FairQueue allows.                  *)
THEOREM WorkersOnlyExpire == WorkerSpec => Spec
<1>1. WorkerInit => WorkerInv /\ Init
  BY InitIInv DEF WorkerInit, WorkerInv, Waits
<1>2. WorkerInv /\ [WorkerNext]_workerVars => WorkerInv' /\ [Next]_vars
  BY WorkerStep
<1> QED BY <1>1, <1>2, PTL DEF WorkerSpec, Spec

(* So no worker takes away a right that has time left, however long ago it *)
(* has read the right in a batch.                                          *)
THEOREM WorkersRespectDeadlines == WorkerSpec => DeadlineRespected
BY WorkersOnlyExpire, Deadlines

-----------------------------------------------------------------------------
(***************************************************************************)
(* What an open transaction t is going to do to the committed tables: nt   *)
(* of tickets, es of entries, gs of grants, us of units, at of attempts.   *)
(***************************************************************************)
Working == {"promote", "close", "mark", "commit"}

Firsts(M) == {m[1] : m \in M}

Sells(t) == t.op = "pay" /\ t.result = "success"

(* It is about a right, which it has locked or is going to lock.           *)
HasRight(t, es) ==
    \/ t.op \in {"checkout", "pay", "expire"}
    \/ t.op = "leave" /\ es[t.e].status = "GRANTED"

EntryTo(t) ==
    CASE t.op = "join" -> "WAITING"
      [] t.op = "leave" -> "CANCELLED"
      [] t.op = "checkout" -> "CHECKOUT_PENDING"
      [] t.op = "expire" -> "EXPIRED"
      [] t.op = "pay" -> IF Sells(t) THEN "PURCHASED" ELSE "PAYMENT_FAILED"

GrantTo(t) ==
    CASE t.op = "leave" -> "CANCELLED"
      [] t.op = "checkout" -> "CHECKOUT_PENDING"
      [] t.op = "expire" -> "EXPIRED"
      [] t.op = "pay" -> IF Sells(t) THEN "PURCHASED" ELSE "FAILED"

(* The rows it writes itself, before it promotes or closes; a leave marks  *)
(* its entry last.                                                         *)
OwnEntry(t, es) ==
    IF t.op = "leave" /\ t.at # "commit" THEN <<>>
    ELSE Row(t.e, [user |-> IF t.op = "join" THEN t.user ELSE es[t.e].user,
                   status |-> EntryTo(t)])

OwnGrant(t, es, gs) ==
    IF HasRight(t, es)
    THEN Row(t.e, [unit |-> gs[t.e].unit, status |-> GrantTo(t), left |-> 0, age |-> 0])
    ELSE <<>>

OwnUnit(t, es, gs) ==
    IF HasRight(t, es) /\ t.op # "checkout"
    THEN Row(gs[t.e].unit, IF Sells(t) THEN [status |-> "SOLD", grant |-> t.e]
                           ELSE [status |-> "AVAILABLE", grant |-> None])
    ELSE <<>>

OwnSaid(t, es) == IF HasRight(t, es) THEN {t.e} ELSE {}

BaseEntries(t, es) == Over(OwnEntry(t, es), es)
BaseGrants(t, es, gs) == Over(OwnGrant(t, es, gs), gs)
BaseUnits(t, es, gs, us) == Over(OwnUnit(t, es, gs), us)

(* The line and the stock that promotion finds, and the pairs it makes.    *)
Line(t, es) == Waiting(BaseEntries(t, es), t.e[1])
Stock(t, es, gs, us) == Available(BaseUnits(t, es, gs, us), t.e[1])
PairsOf(t, es, gs, us) == Pairs(BaseEntries(t, es), BaseUnits(t, es, gs, us), t.e[1])

Promotes(t, es) == t.op = "join" \/ (HasRight(t, es) /\ t.op # "checkout" /\ ~Sells(t))

(* The pairs made so far. *)
Turned(t, M, es, gs, us) ==
    /\ M \subseteq PairsOf(t, es, gs, us)
    /\ \A m \in M : <<"entry", m[1]>> \in t.locks /\ <<"unit", m[2]>> \in t.locks
    /\ t.at # "promote" =>
          M = IF Promotes(t, es) THEN PairsOf(t, es, gs, us) ELSE {}

ClosedBy(t, es, gs, us) ==
    IF Sells(t) /\ t.at = "commit" /\ AllSold(BaseUnits(t, es, gs, us), t.e[1])
    THEN Line(t, es) ELSE {}

ClosedEntries(es, C) ==
    [e \in DOMAIN es |-> IF e \in C THEN [es[e] EXCEPT !.status = "SOLD_OUT"] ELSE es[e]]

(* What the transaction sees, and will leave when it commits.              *)
Sees(t, M, es, gs, us) ==
    /\ Over(t.entries, es) = ClosedEntries(PromotedEntries(BaseEntries(t, es), M),
                                           ClosedBy(t, es, gs, us))
    /\ Over(t.grants, gs) = PromotedGrants(BaseGrants(t, es, gs), M, 0)
    /\ DOMAIN t.grants = DOMAIN OwnGrant(t, es, gs) \cup Firsts(M)
    /\ Over(t.units, us) = PromotedUnits(BaseUnits(t, es, gs, us), M)
    /\ t.said = OwnSaid(t, es) \cup Firsts(M) \cup ClosedBy(t, es, gs, us)

(* What it has found and relies on. *)
GrantFits(t, gs) ==
    /\ t.e \in DOMAIN gs
    /\ t.op = "pay" => gs[t.e].status = "CHECKOUT_PENDING"
    /\ t.op # "pay" => gs[t.e].status = "ACTIVE"
    /\ t.op = "checkout" => gs[t.e].left + t.lag > 0
    /\ t.op = "expire" => gs[t.e].left + t.lag < 0

MayJoin(t, nt, es, us) ==
    LET p == t.e[1]
    IN  /\ t.e = <<p, nt[p]>> /\ nt[p] <= MaxTicket
        /\ t.nextTicket = Row(p, nt[p] + 1)
        /\ ProductStatus[p] = "ACTIVE" /\ QueueEnabled[p]
        /\ ~AllSold(us, p) /\ Active(es, t.user, p) = {}

Records(t) == t.op = "pay" /\ t.at \in {"settle"} \cup Working

Found(t, nt, es, gs, us, at) ==
    /\ t.lag \in Lags
    /\ t.op \in {"checkout", "expire"} /\ gs[t.e].status = "ACTIVE" => t.lag <= gs[t.e].age
    /\ t.op = "pay" => t.key \in Keys /\ t.result \in Results
    /\ IF t.op = "join" /\ t.at \in Working THEN MayJoin(t, nt, es, us)
       ELSE t.nextTicket = <<>>
    /\ IF Records(t)
       THEN /\ t.key \notin DOMAIN at /\ <<"key", t.key>> \in t.locks
            /\ t.attempts = Row(t.key, [entry |-> t.e, result |-> t.result])
       ELSE t.attempts = <<>>
    /\ HasRight(t, es) /\ (\/ t.at \in {"attempt", "settle"} \cup Working
                           \/ t.op = "checkout" /\ t.at = "entry")
          => <<"grant", t.e>> \in t.locks /\ GrantFits(t, gs)

Sound(t, nt, es, gs, us, at) ==
    /\ Found(t, nt, es, gs, us, at)
    /\ \A u \in DOMAIN t.units : u \in Units /\ <<"unit", u>> \in t.locks
    /\ t.at \in Reading => DOMAIN t.units = {} /\ t.said = {}
    /\ t.at \in Working =>
          /\ <<"entry", t.e>> \in t.locks
          /\ t.at = "promote" => Promotes(t, es)
          /\ t.at = "close" => Sells(t)
          /\ t.op = "leave" => \/ es[t.e].status = "GRANTED"
                               \/ es[t.e].status = "WAITING" /\ t.at = "commit"
          /\ \A u \in DOMAIN OwnUnit(t, es, gs) : <<"unit", u>> \in t.locks
          /\ \A e \in ClosedBy(t, es, gs, us) : <<"entry", e>> \in t.locks
          /\ \E M \in SUBSET PairsOf(t, es, gs, us) :
                Turned(t, M, es, gs, us) /\ Sees(t, M, es, gs, us)

IsTable(T) == T = [x \in DOMAIN T |-> T[x]]

TxInv ==
    /\ LockInv /\ IInv /\ IsTable(attempts)
    /\ \A s \in Sessions : tx[s] # None =>
          Sound(tx[s], nextTicket, entries, grants, units, attempts)

-----------------------------------------------------------------------------
(***************************************************************************)
(* The loop of Promote.                                                    *)
(***************************************************************************)
Seconds(M) == {m[2] : m \in M}

(* A finite set that is not empty has a first element. *)
LEMMA FirstInOrder ==
    ASSUME NEW key, NEW S, Numbered(key, S), S # {}
    PROVE  \E x \in S : Behind(key, S, x) = {}
<1>1. IsFiniteSet(S) /\ Cardinality(S) \in Nat /\ Cardinality(S) # 0
  BY FS_CardinalityType, FS_EmptySet DEF Numbered
<1>2. 0 \in 0 .. Cardinality(S) - 1
  BY <1>1
<1>3. PICK x \in S : Rank(key, S, x) = 0
  BY <1>2, RankOnto
<1>4. IsFiniteSet(Behind(key, S, x))
  <2>1. Behind(key, S, x) \in SUBSET S
    BY DEF Behind
  <2> QED BY <1>1, <2>1, FS_Subset
<1>5. Behind(key, S, x) = {}
  BY <1>3, <1>4, FS_EmptySet DEF Rank
<1> QED BY <1>5

(* Taking the first of both again and again makes the pairs of P, and when *)
(* one of the two sides has run out, all of them.                          *)
OneByOne(P, W, A, M) ==
    /\ \A w \in W \ Firsts(M), u \in A \ Seconds(M) :
          /\ Before(w, W \ Firsts(M)) = {} /\ Below(u, A \ Seconds(M)) = {}
          => <<w, u>> \in P
    /\ \/ M = P
       \/ \E w \in W \ Firsts(M), u \in A \ Seconds(M) :
             Before(w, W \ Firsts(M)) = {} /\ Below(u, A \ Seconds(M)) = {}

(* The turns of Promote's loop, taken one by one, make the pairs that      *)
(* Pairs gives at once.                                                    *)
LEMMA LoopPairs ==
    ASSUME NEW es, NEW us, EntriesOK(es), NEW p \in Products,
           NEW W, W = Waiting(es, p), NEW A, A = Available(us, p),
           NEW M, M \subseteq Pairs(es, us, p)
    PROVE  OneByOne(Pairs(es, us, p), W, A, M)
<1> DEFINE P == Pairs(es, us, p)
           wkey == [e \in W |-> e[2]]
           akey == [u \in A |-> u]
<1>1. Numbered(wkey, W) /\ Numbered(akey, A)
  BY WaitingNumbered, AvailableNumbered
<1>2. \A e \in W : Before(e, W) = Behind(wkey, W, e)
  BY DEF Before, Behind
<1>3. \A u \in A : Below(u, A) = Behind(akey, A, u)
  BY DEF Below, Behind
<1>4. /\ \A e \in W : wkey[e] = e[2]
      /\ \A u \in A : akey[u] = u
  OBVIOUS
<1> HIDE DEF wkey, akey
<1>5. P = {m \in W \X A : Rank(wkey, W, m[1]) = Rank(akey, A, m[2])}
  BY <1>2, <1>3 DEF Pairs, Rank
<1>6. Pairing(P, W, A)
  BY PairsPair
<1> HIDE DEF P
<1>7. /\ \A m \in P : m = <<m[1], m[2]>> /\ m[1] \in W /\ m[2] \in A
      /\ \A m, n \in P : m[1] = n[1] => m = n
      /\ \A m, n \in P : m[2] = n[2] => m = n
      /\ M \subseteq P
  BY <1>6 DEF Pairing, P
<1>8. /\ IsFiniteSet(W) /\ IsFiniteSet(A)
      /\ Cardinality(W) \in Nat /\ Cardinality(A) \in Nat
  BY <1>1, FS_CardinalityType DEF Numbered
<1>9. ASSUME NEW w \in W \ Firsts(M), NEW u \in A \ Seconds(M),
             Before(w, W \ Firsts(M)) = {}, Below(u, A \ Seconds(M)) = {}
      PROVE  <<w, u>> \in P
  <2> DEFINE i == Rank(wkey, W, w)
             j == Rank(akey, A, u)
  <2>1. i \in 0 .. Cardinality(W) - 1 /\ j \in 0 .. Cardinality(A) - 1
    BY <1>1, RankBound
  <2> HIDE DEF i, j
  <2>2. ~(i < j)
    <3>1. SUFFICES ASSUME i < j PROVE FALSE
      OBVIOUS
    <3>2. i \in 0 .. Cardinality(A) - 1
      BY <1>8, <2>1, <3>1
    <3>3. PICK v \in A : Rank(akey, A, v) = i
      BY <1>1, <3>2, RankOnto
    <3>4. <<w, v>> \in P
      BY <1>5, <3>3 DEF i
    <3>5. v \notin Seconds(M)
      BY <1>7, <3>4 DEF Firsts, Seconds
    <3>6. ~(v < u)
      BY <1>9, <3>5 DEF Below
    <3>7. u # v
      BY <2>1, <3>1, <3>3 DEF j
    <3>8. akey[u] < akey[v]
      <4>1. akey[u] \in Nat /\ akey[v] \in Nat
        BY <1>1 DEF Numbered
      <4> QED BY <1>4, <3>6, <3>7, <4>1
    <3>9. j < i
      BY <1>1, <3>3, <3>8, RankMonotone DEF j
    <3> QED BY <2>1, <3>1, <3>9
  <2>3. ~(j < i)
    <3>1. SUFFICES ASSUME j < i PROVE FALSE
      OBVIOUS
    <3>2. j \in 0 .. Cardinality(W) - 1
      BY <1>8, <2>1, <3>1
    <3>3. PICK v \in W : Rank(wkey, W, v) = j
      BY <1>1, <3>2, RankOnto
    <3>4. <<v, u>> \in P
      BY <1>5, <3>3 DEF j
    <3>5. v \notin Firsts(M)
      BY <1>7, <3>4 DEF Firsts, Seconds
    <3>6. ~(v[2] < w[2])
      BY <1>9, <3>5 DEF Before
    <3>7. w # v
      BY <2>1, <3>1, <3>3 DEF i
    <3>8. wkey[w] < wkey[v]
      <4>1. wkey[w] \in Nat /\ wkey[v] \in Nat /\ wkey[w] # wkey[v]
        BY <1>1, <3>7 DEF Numbered
      <4> QED BY <1>4, <3>6, <4>1
    <3>9. i < j
      BY <1>1, <3>3, <3>8, RankMonotone DEF i
    <3> QED BY <2>1, <3>1, <3>9
  <2>4. i = j
    BY <2>1, <2>2, <2>3
  <2> QED BY <1>5, <2>4 DEF i, j
<1>10. ASSUME W \ Firsts(M) = {} PROVE M = P
  <2>1. \A n \in P : \E m \in M : m[1] = n[1]
    BY <1>7, <1>10 DEF Firsts
  <2>2. P \subseteq M
    BY <1>7, <2>1
  <2> QED BY <1>7, <2>2
<1>11. ASSUME A \ Seconds(M) = {} PROVE M = P
  <2>1. \A n \in P : \E m \in M : m[2] = n[2]
    BY <1>7, <1>11 DEF Seconds
  <2>2. P \subseteq M
    BY <1>7, <2>1
  <2> QED BY <1>7, <2>2
<1>12. ASSUME W \ Firsts(M) # {}, A \ Seconds(M) # {}
       PROVE  \E w \in W \ Firsts(M), u \in A \ Seconds(M) :
                 Before(w, W \ Firsts(M)) = {} /\ Below(u, A \ Seconds(M)) = {}
  <2> DEFINE V == W \ Firsts(M)
             B == A \ Seconds(M)
  <2>1. Numbered(wkey, V) /\ Numbered(akey, B)
    <3>1. IsFiniteSet(V) /\ IsFiniteSet(B)
      BY <1>8, FS_Subset
    <3> QED BY <1>1, <3>1 DEF Numbered
  <2>2. PICK w \in V : Behind(wkey, V, w) = {}
    BY <1>12, <2>1, FirstInOrder
  <2>3. PICK u \in B : Behind(akey, B, u) = {}
    BY <1>12, <2>1, FirstInOrder
  <2>4. Before(w, V) = {} /\ Below(u, B) = {}
    BY <1>4, <2>2, <2>3 DEF Before, Below, Behind
  <2> QED BY <2>4
<1> QED BY <1>9, <1>10, <1>11, <1>12 DEF P, OneByOne

-----------------------------------------------------------------------------
(***************************************************************************)
(* Tables, and the rows put over them.                                     *)
(***************************************************************************)
(* Two tables with the same rows are the same. *)
LEMMA SameRows ==
    ASSUME NEW S, NEW T, IsTable(S), IsTable(T), DOMAIN S = DOMAIN T,
           \A x \in DOMAIN T : S[x] = T[x]
    PROVE  S = T
BY DEF IsTable

(* A table put over another is a table. *)
LEMMA OverIsTable ==
    ASSUME NEW f, NEW T
    PROVE  IsTable(Over(f, T))
BY DEF Over, IsTable

(* No rows over a table leave it as it is. *)
LEMMA OverEmpty ==
    ASSUME NEW f, DOMAIN f = {}, NEW T, IsTable(T)
    PROVE  Over(f, T) = T
BY DEF Over, IsTable

(* The rows of a table put over another. *)
LEMMA OverRows ==
    ASSUME NEW f, NEW T
    PROVE  /\ \A x : x \in DOMAIN Over(f, T) <=> x \in DOMAIN f \/ x \in DOMAIN T
           /\ \A x \in DOMAIN f : Over(f, T)[x] = f[x]
           /\ \A x \in DOMAIN T : x \notin DOMAIN f => Over(f, T)[x] = T[x]
BY DEF Over

(* The row of a table of one row. *)
LEMMA RowRows ==
    ASSUME NEW x, NEW r
    PROVE  /\ \A y : y \in DOMAIN Row(x, r) <=> y = x
           /\ Row(x, r)[x] = r
BY DEF Row

(* The rows of a table with one row over it. *)
LEMMA OverRow ==
    ASSUME NEW T, NEW x, NEW r
    PROVE  /\ \A y : y \in DOMAIN Over(Row(x, r), T) <=> y = x \/ y \in DOMAIN T
           /\ Over(Row(x, r), T)[x] = r
           /\ \A y \in DOMAIN T : y # x => Over(Row(x, r), T)[y] = T[y]
BY OverRows, RowRows

(* One row over a table that has it replaces that row. *)
LEMMA OverRowIn ==
    ASSUME NEW T, NEW x \in DOMAIN T, NEW r, NEW E, IsTable(E), DOMAIN E = DOMAIN T,
           E[x] = r, \A y \in DOMAIN T : y # x => E[y] = T[y]
    PROVE  Over(Row(x, r), T) = E
<1> DEFINE O == Over(Row(x, r), T)
<1>1. /\ \A y : y \in DOMAIN O <=> y = x \/ y \in DOMAIN T
      /\ O[x] = r
      /\ \A y \in DOMAIN T : y # x => O[y] = T[y]
  BY OverRow
<1>2. IsTable(O)
  BY OverIsTable
<1> HIDE DEF O
<1>3. DOMAIN E = DOMAIN O /\ \A y \in DOMAIN O : E[y] = O[y]
  BY <1>1
<1>4. E = O
  BY <1>2, <1>3, SameRows
<1> QED BY <1>4 DEF O

(* The conditional updates, when their condition holds, put one row over   *)
(* the table.                                                              *)
LEMMA MarkedRow ==
    ASSUME NEW es, IsTable(es), EntriesOK(es), NEW e \in DOMAIN es,
           NEW from, es[e].status = from, NEW to
    PROVE  MarkEntryStatus(es, e, from, to)
              = Over(Row(e, [user |-> es[e].user, status |-> to]), es)
<1> DEFINE r == [user |-> es[e].user, status |-> to]
           E == [es EXCEPT ![e] = [es[e] EXCEPT !.status = to]]
<1>1. es[e] = [user |-> es[e].user, status |-> es[e].status]
  BY DEF EntriesOK
<1>2. [es[e] EXCEPT !.status = to] = r
  BY <1>1
<1>3. MarkEntryStatus(es, e, from, to) = E
  BY DEF MarkEntryStatus, IsTable
<1>4. /\ IsTable(E) /\ DOMAIN E = DOMAIN es /\ E[e] = r
      /\ \A y \in DOMAIN es : y # e => E[y] = es[y]
  BY <1>2 DEF IsTable
<1> HIDE DEF r, E
<1>5. Over(Row(e, r), es) = E
  BY <1>4, OverRowIn
<1> QED BY <1>3, <1>5 DEF r

(* UpdateGrantStatus, likewise. *)
LEMMA UpdatedRow ==
    ASSUME NEW es, NEW gs, IsTable(gs), GrantsOK(es, gs), NEW e \in DOMAIN gs,
           NEW from, gs[e].status = from, NEW to
    PROVE  UpdateGrantStatus(gs, e, from, to)
              = Over(Row(e, [unit |-> gs[e].unit, status |-> to, left |-> 0, age |-> 0]), gs)
<1> DEFINE r == [unit |-> gs[e].unit, status |-> to, left |-> 0, age |-> 0]
           x == [gs[e] EXCEPT !.status = to, !.left = 0, !.age = 0]
           E == [gs EXCEPT ![e] = x]
<1>1. gs[e] \in [unit : Units, status : GrantStatus, left : Floor .. TTL, age : Lags]
  BY DEF GrantsOK
<1>2. x = r
  <2> DEFINE a == [gs[e] EXCEPT !.status = to]
             b == [a EXCEPT !.left = 0]
  <2>1. a = [unit |-> gs[e].unit, status |-> to, left |-> gs[e].left, age |-> gs[e].age]
    BY <1>1
  <2>2. x = [b EXCEPT !.age = 0]
    OBVIOUS
  <2> HIDE DEF a
  <2>3. b = [unit |-> gs[e].unit, status |-> to, left |-> 0, age |-> gs[e].age]
    BY <2>1
  <2> HIDE DEF b, x
  <2> QED BY <2>2, <2>3
<1>3. UpdateGrantStatus(gs, e, from, to) = E
  BY DEF UpdateGrantStatus, IsTable
<1> HIDE DEF x
<1>4. /\ IsTable(E) /\ DOMAIN E = DOMAIN gs /\ E[e] = r
      /\ \A y \in DOMAIN gs : y # e => E[y] = gs[y]
  BY <1>2 DEF IsTable
<1> HIDE DEF r, E
<1>5. Over(Row(e, r), gs) = E
  BY <1>4, OverRowIn
<1> QED BY <1>3, <1>5 DEF r

(* MarkUnitAvailable and MarkUnitSold, likewise, of a unit that is         *)
(* RESERVED.                                                               *)
LEMMA MarkedUnit ==
    ASSUME NEW us, UnitsOK(us), NEW u \in Units, us[u].status = "RESERVED"
    PROVE  /\ MarkUnitAvailable(us, u)
                 = Over(Row(u, [status |-> "AVAILABLE", grant |-> None]), us)
           /\ MarkUnitSold(us, u)
                 = Over(Row(u, [status |-> "SOLD", grant |-> us[u].grant]), us)
<1> DEFINE a == [status |-> "AVAILABLE", grant |-> None]
           b == [status |-> "SOLD", grant |-> us[u].grant]
           A == [us EXCEPT ![u] = a]
           B == [us EXCEPT ![u] = [us[u] EXCEPT !.status = "SOLD"]]
<1>1. IsTable(us) /\ DOMAIN us = Units
      /\ us[u] = [status |-> us[u].status, grant |-> us[u].grant]
  BY DEF UnitsOK, IsTable
<1>2. MarkUnitAvailable(us, u) = A
  BY DEF MarkUnitAvailable
<1>3. MarkUnitSold(us, u) = B
  BY <1>1 DEF MarkUnitSold, IsTable
<1>4. [us[u] EXCEPT !.status = "SOLD"] = b
  BY <1>1
<1>5. /\ IsTable(A) /\ DOMAIN A = DOMAIN us /\ A[u] = a
      /\ \A y \in DOMAIN us : y # u => A[y] = us[y]
  BY <1>1 DEF IsTable
<1>6. /\ IsTable(B) /\ DOMAIN B = DOMAIN us /\ B[u] = b
      /\ \A y \in DOMAIN us : y # u => B[y] = us[y]
  BY <1>1, <1>4 DEF IsTable
<1> HIDE DEF a, b, A, B
<1>7. Over(Row(u, a), us) = A /\ Over(Row(u, b), us) = B
  BY <1>1, <1>5, <1>6, OverRowIn
<1> QED BY <1>2, <1>3, <1>7 DEF a, b

(***************************************************************************)
(* Promotion, pair by pair.                                                *)
(***************************************************************************)
OneEach(M) ==
    \A m, n \in M : m[1] = n[1] \/ m[2] = n[2] => m = n

(* The tables after promotion, row by row, with no pair and with one more. *)
LEMMA PromotedNobody ==
    ASSUME NEW es, IsTable(es), NEW gs, IsTable(gs), NEW us, IsTable(us),
           DOMAIN us = Units
    PROVE  /\ PromotedEntries(es, {}) = es
           /\ PromotedGrants(gs, {}, 0) = gs
           /\ PromotedUnits(us, {}) = us
           /\ ClosedEntries(es, {}) = es
<1>1. PromotedEntries(es, {}) = [x \in DOMAIN es |-> es[x]]
  BY DEF PromotedEntries
<1>2. PromotedGrants(gs, {}, 0) = [x \in DOMAIN gs |-> gs[x]]
  BY DEF PromotedGrants
<1>3. PromotedUnits(us, {}) = [x \in DOMAIN us |-> us[x]]
  BY DEF PromotedUnits
<1>4. ClosedEntries(es, {}) = [x \in DOMAIN es |-> es[x]]
  BY DEF ClosedEntries
<1> QED BY <1>1, <1>2, <1>3, <1>4 DEF IsTable

(* The rows of the entries after promotion. *)
LEMMA EntriesPromoted ==
    ASSUME NEW es, NEW M
    PROVE  /\ IsTable(PromotedEntries(es, M)) /\ DOMAIN PromotedEntries(es, M) = DOMAIN es
           /\ \A x \in DOMAIN es : PromotedEntries(es, M)[x] =
                 IF x \in Firsts(M) THEN [es[x] EXCEPT !.status = "GRANTED"] ELSE es[x]
BY DEF IsTable, PromotedEntries, Firsts

(* The rows of the grants after promotion. *)
LEMMA GrantsPromoted ==
    ASSUME NEW gs, NEW M, OneEach(M), NEW lag
    PROVE  /\ IsTable(PromotedGrants(gs, M, lag))
           /\ \A x : x \in DOMAIN PromotedGrants(gs, M, lag)
                       <=> x \in DOMAIN gs \/ x \in Firsts(M)
           /\ \A m \in M : PromotedGrants(gs, M, lag)[m[1]] =
                 [unit |-> m[2], status |-> "ACTIVE", left |-> TTL - lag, age |-> 0]
           /\ \A x \in DOMAIN gs \ Firsts(M) : PromotedGrants(gs, M, lag)[x] = gs[x]
<1>1. \A m \in M : (CHOOSE n \in M : n[1] = m[1]) = m
  BY DEF OneEach
<1>2. /\ IsTable(PromotedGrants(gs, M, lag))
      /\ \A x : x \in DOMAIN PromotedGrants(gs, M, lag)
                  <=> x \in DOMAIN gs \/ x \in Firsts(M)
  BY DEF IsTable, PromotedGrants, Firsts
<1>3. \A m \in M : PromotedGrants(gs, M, lag)[m[1]] =
            [unit |-> m[2], status |-> "ACTIVE", left |-> TTL - lag, age |-> 0]
  BY <1>1 DEF PromotedGrants
<1>4. \A x \in DOMAIN gs \ Firsts(M) : PromotedGrants(gs, M, lag)[x] = gs[x]
  BY DEF PromotedGrants, Firsts
<1> QED BY <1>2, <1>3, <1>4

(* The rows of the units after promotion. *)
LEMMA UnitsPromoted ==
    ASSUME NEW us, NEW M, OneEach(M)
    PROVE  /\ IsTable(PromotedUnits(us, M)) /\ DOMAIN PromotedUnits(us, M) = Units
           /\ \A m \in M : m[2] \in Units => PromotedUnits(us, M)[m[2]] =
                 [status |-> "RESERVED", grant |-> m[1]]
           /\ \A u \in Units \ Seconds(M) : PromotedUnits(us, M)[u] = us[u]
<1>1. \A m \in M : (CHOOSE n \in M : n[2] = m[2]) = m
  BY DEF OneEach
<1>2. IsTable(PromotedUnits(us, M)) /\ DOMAIN PromotedUnits(us, M) = Units
  BY DEF IsTable, PromotedUnits
<1>3. \A m \in M : m[2] \in Units => PromotedUnits(us, M)[m[2]] =
            [status |-> "RESERVED", grant |-> m[1]]
  BY <1>1 DEF PromotedUnits
<1>4. \A u \in Units \ Seconds(M) : PromotedUnits(us, M)[u] = us[u]
  BY DEF PromotedUnits, Seconds
<1> QED BY <1>2, <1>3, <1>4

(* The pairs of M and one more leave the tables that the loop's next turn  *)
(* writes.                                                                 *)
OneMore(M, N, w, u, es, gs, us) ==
    /\ OneEach(N) /\ Firsts(N) = Firsts(M) \cup {w}
    /\ MarkEntryStatus(PromotedEntries(es, M), w, "WAITING", "GRANTED")
          = PromotedEntries(es, N)
    /\ Over(Row(w, [unit |-> u, status |-> "ACTIVE", left |-> TTL, age |-> 0]),
            PromotedGrants(gs, M, 0)) = PromotedGrants(gs, N, 0)
    /\ [PromotedUnits(us, M) EXCEPT ![u] = [status |-> "RESERVED", grant |-> w]]
          = PromotedUnits(us, N)

(* What a turn of the loop writes is one more pair. *)
LEMMA OneMorePair ==
    ASSUME NEW M, OneEach(M), NEW es, NEW gs, NEW us, EntriesOK(es),
           NEW w \in DOMAIN es, es[w].status = "WAITING", w \notin Firsts(M),
           NEW u \in Units, u \notin Seconds(M)
    PROVE  OneMore(M, M \cup {<<w, u>>}, w, u, es, gs, us)
<1> DEFINE N == M \cup {<<w, u>>}
           ES == PromotedEntries(es, M)
           GS == PromotedGrants(gs, M, 0)
           US == PromotedUnits(us, M)
           g == [unit |-> u, status |-> "ACTIVE", left |-> TTL, age |-> 0]
           v == [status |-> "RESERVED", grant |-> w]
<1>1. Firsts(N) = Firsts(M) \cup {w} /\ Seconds(N) = Seconds(M) \cup {u}
  <2>1. <<w, u>>[1] = w /\ <<w, u>>[2] = u
    OBVIOUS
  <2>2. Firsts(N) = Firsts(M) \cup {<<w, u>>[1]}
    BY DEF Firsts
  <2>3. Seconds(N) = Seconds(M) \cup {<<w, u>>[2]}
    BY DEF Seconds
  <2> QED BY <2>1, <2>2, <2>3
<1>2. OneEach(N)
  BY DEF OneEach, Firsts, Seconds
<1>3. <<w, u>> \in N /\ M \subseteq N
  OBVIOUS
<1>4. TTL - 0 = TTL
  BY ConstantsAssumption
<1>4a. /\ \A m \in M : m[2] \in Seconds(M) /\ m[1] \in Firsts(M)
       /\ \A x \in Seconds(M) : \E m \in M : m[2] = x
       /\ \A x \in Firsts(M) : \E m \in M : m[1] = x
  BY DEF Firsts, Seconds
<1> HIDE DEF N
<1>5. MarkEntryStatus(ES, w, "WAITING", "GRANTED") = PromotedEntries(es, N)
  <2>1. ES[w] = es[w] /\ w \in DOMAIN ES /\ IsTable(ES) /\ DOMAIN ES = DOMAIN es
    BY EntriesPromoted
  <2>2. MarkEntryStatus(ES, w, "WAITING", "GRANTED")
           = [ES EXCEPT ![w] = [es[w] EXCEPT !.status = "GRANTED"]]
    BY <2>1 DEF MarkEntryStatus, IsTable
  <2> DEFINE E == [ES EXCEPT ![w] = [es[w] EXCEPT !.status = "GRANTED"]]
  <2> HIDE DEF ES
  <2>3. IsTable(E) /\ DOMAIN E = DOMAIN es
        /\ \A x \in DOMAIN es : E[x] = IF x = w THEN [es[w] EXCEPT !.status = "GRANTED"]
                                                ELSE ES[x]
    BY <2>1 DEF IsTable
  <2> HIDE DEF E
  <2>4. \A x \in DOMAIN es : E[x] =
           IF x \in Firsts(N) THEN [es[x] EXCEPT !.status = "GRANTED"] ELSE es[x]
    BY <1>1, <2>3, EntriesPromoted DEF ES
  <2>5. E = PromotedEntries(es, N)
    <3>1. /\ IsTable(PromotedEntries(es, N)) /\ DOMAIN PromotedEntries(es, N) = DOMAIN es
          /\ \A x \in DOMAIN es : PromotedEntries(es, N)[x] =
               IF x \in Firsts(N) THEN [es[x] EXCEPT !.status = "GRANTED"] ELSE es[x]
      BY <1>2, EntriesPromoted
    <3>2. \A x \in DOMAIN es : E[x] = PromotedEntries(es, N)[x]
      BY <2>4, <3>1
    <3> QED BY <2>3, <3>1, <3>2, SameRows
  <2> QED BY <2>2, <2>5 DEF E, ES
<1>6. Over(Row(w, g), GS) = PromotedGrants(gs, N, 0)
  <2> DEFINE G == Over(Row(w, g), GS)
             H == PromotedGrants(gs, N, 0)
  <2>1. /\ IsTable(GS) /\ (\A x : x \in DOMAIN GS <=> x \in DOMAIN gs \/ x \in Firsts(M))
        /\ \A m \in M : GS[m[1]] =
              [unit |-> m[2], status |-> "ACTIVE", left |-> TTL - 0, age |-> 0]
        /\ \A x \in DOMAIN gs \ Firsts(M) : GS[x] = gs[x]
    BY GrantsPromoted
  <2>2. /\ IsTable(H) /\ (\A x : x \in DOMAIN H <=> x \in DOMAIN gs \/ x \in Firsts(N))
        /\ \A m \in N : H[m[1]] =
              [unit |-> m[2], status |-> "ACTIVE", left |-> TTL - 0, age |-> 0]
        /\ \A x \in DOMAIN gs \ Firsts(N) : H[x] = gs[x]
    BY <1>2, GrantsPromoted
  <2> HIDE DEF GS, H, g
  <2>3. /\ IsTable(G) /\ (\A x : x \in DOMAIN G <=> x \in DOMAIN GS \/ x = w) /\ G[w] = g
        /\ \A x \in DOMAIN GS : x # w => G[x] = GS[x]
    BY <2>1, OverRow, OverIsTable
  <2> HIDE DEF G
  <2>4. H[w] = g
    <3>1. <<w, u>>[1] = w /\ <<w, u>>[2] = u
      OBVIOUS
    <3> QED BY <1>3, <1>4, <2>2, <3>1 DEF g
  <2>5. ASSUME NEW x \in DOMAIN gs \cup Firsts(N), x # w
        PROVE  G[x] = H[x]
    <3>1. CASE x \in Firsts(M)
      <4>1. PICK m \in M : m[1] = x
        BY <1>4a, <3>1
      <4>2. m \in N
        BY <1>3
      <4> QED BY <2>1, <2>2, <2>3, <2>5, <3>1, <4>1, <4>2
    <3>2. CASE x \notin Firsts(M)
      BY <1>1, <2>1, <2>2, <2>3, <2>5, <3>2
    <3> QED BY <3>1, <3>2
  <2>6. DOMAIN G = DOMAIN H
    BY <1>1, <2>1, <2>2, <2>3
  <2>7. \A x \in DOMAIN H : G[x] = H[x]
    BY <2>2, <2>3, <2>4, <2>5
  <2>8. G = H
    BY <2>2, <2>3, <2>6, <2>7, SameRows
  <2> QED BY <2>8 DEF G, H, GS
<1>7. [US EXCEPT ![u] = v] = PromotedUnits(us, N)
  <2> DEFINE G == [US EXCEPT ![u] = v]
             H == PromotedUnits(us, N)
  <2>1. /\ IsTable(US) /\ DOMAIN US = Units
        /\ \A m \in M : m[2] \in Units => US[m[2]] = [status |-> "RESERVED", grant |-> m[1]]
        /\ \A x \in Units \ Seconds(M) : US[x] = us[x]
    BY UnitsPromoted
  <2>2. /\ IsTable(H) /\ DOMAIN H = Units
        /\ \A m \in N : m[2] \in Units => H[m[2]] = [status |-> "RESERVED", grant |-> m[1]]
        /\ \A x \in Units \ Seconds(N) : H[x] = us[x]
    BY <1>2, UnitsPromoted
  <2> HIDE DEF US, H, v
  <2>3. /\ IsTable(G) /\ DOMAIN G = Units /\ G[u] = v
        /\ \A x \in Units : x # u => G[x] = US[x]
    BY <2>1 DEF IsTable
  <2> HIDE DEF G
  <2>4. H[u] = v
    <3>1. <<w, u>>[1] = w /\ <<w, u>>[2] = u
      OBVIOUS
    <3> QED BY <1>3, <2>2, <3>1 DEF v
  <2>5. ASSUME NEW x \in Units, x # u
        PROVE  G[x] = H[x]
    <3>1. CASE x \in Seconds(M)
      <4>1. PICK m \in M : m[2] = x
        BY <1>4a, <3>1
      <4>2. m \in N
        BY <1>3
      <4> QED BY <2>1, <2>2, <2>3, <2>5, <4>1, <4>2
    <3>2. CASE x \notin Seconds(M)
      BY <1>1, <2>1, <2>2, <2>3, <2>5, <3>2
    <3> QED BY <3>1, <3>2
  <2>6. \A x \in DOMAIN H : G[x] = H[x]
    BY <2>2, <2>4, <2>3, <2>5
  <2>7. G = H
    BY <2>2, <2>3, <2>6, SameRows
  <2> QED BY <2>7 DEF G, H, US
<1> QED BY <1>1, <1>2, <1>5, <1>6, <1>7 DEF N, OneMore

-----------------------------------------------------------------------------
(***************************************************************************)
(* The tables before promotion, and what a transaction will leave.         *)
(***************************************************************************)
Good(es, gs, us) == IsTable(es) /\ IsTable(gs) /\ Consistent(es, gs, us)

Ready(t, es, gs) ==
    /\ t.op \in {"join", "leave", "checkout", "pay", "expire"}
    /\ t.e \in EntryIds
    /\ t.op = "join" => t.e \notin DOMAIN es /\ t.user \in Users
    /\ t.op = "leave" => /\ t.e \in DOMAIN es
                         /\ \/ es[t.e].status = "GRANTED"
                            \/ es[t.e].status = "WAITING" /\ t.at = "commit"
    /\ HasRight(t, es) => GrantFits(t, gs)

WillEntries(t, M, es, gs, us) ==
    ClosedEntries(PromotedEntries(BaseEntries(t, es), M), ClosedBy(t, es, gs, us))
WillGrants(t, M, es, gs) == PromotedGrants(BaseGrants(t, es, gs), M, 0)
WillUnits(t, M, es, gs, us) == PromotedUnits(BaseUnits(t, es, gs, us), M)
WillSay(t, M, es, gs, us) == OwnSaid(t, es) \cup Firsts(M) \cup ClosedBy(t, es, gs, us)

(* The right a transaction is about is held, with its unit. *)
LEMMA RightFits ==
    ASSUME NEW es, NEW gs, NEW us, Good(es, gs, us), NEW t, Ready(t, es, gs),
           HasRight(t, es)
    PROVE  /\ t.e \in DOMAIN gs /\ t.e \in DOMAIN es
           /\ gs[t.e].status \in {"ACTIVE", "CHECKOUT_PENDING"}
           /\ t.op = "pay" => gs[t.e].status = "CHECKOUT_PENDING"
           /\ t.op # "pay" => gs[t.e].status = "ACTIVE"
           /\ gs[t.e].unit \in Units /\ ProductOf[gs[t.e].unit] = t.e[1]
           /\ us[gs[t.e].unit].status = "RESERVED" /\ us[gs[t.e].unit].grant = t.e
           /\ es[t.e].status = IF t.op = "pay" THEN "CHECKOUT_PENDING" ELSE "GRANTED"
<1>1. /\ t.e \in DOMAIN gs
      /\ t.op = "pay" => gs[t.e].status = "CHECKOUT_PENDING"
      /\ t.op # "pay" => gs[t.e].status = "ACTIVE"
  BY DEF Ready, GrantFits
<1>2. gs[t.e].status \in LiveGrant
  BY <1>1 DEF LiveGrant
<1>3. Consistent(es, gs, us)
  BY DEF Good
<1> QED BY <1>1, <1>2, <1>3, HeldRight

(* The rows it writes itself. *)
LEMMA OwnRowsAre ==
    ASSUME NEW es, NEW gs, NEW us, Good(es, gs, us), NEW t, Ready(t, es, gs)
    PROVE  /\ \A x \in DOMAIN OwnEntry(t, es) : x = t.e
           /\ t.op # "leave" \/ t.at = "commit" =>
                 /\ t.e \in DOMAIN OwnEntry(t, es)
                 /\ OwnEntry(t, es)[t.e].status = EntryTo(t)
           /\ \A x \in DOMAIN OwnEntry(t, es) :
                 OwnEntry(t, es)[x] \in [user : Users, status : EntryStatus]
           /\ \A x \in DOMAIN OwnGrant(t, es, gs) :
                 /\ x = t.e /\ HasRight(t, es)
                 /\ OwnGrant(t, es, gs)[x].status = GrantTo(t)
           /\ HasRight(t, es) => t.e \in DOMAIN OwnGrant(t, es, gs)
           /\ \A u \in DOMAIN OwnUnit(t, es, gs) :
                 /\ u = gs[t.e].unit /\ HasRight(t, es) /\ t.op # "checkout"
                 /\ ~Sells(t) => OwnUnit(t, es, gs)[u].status = "AVAILABLE"
                 /\ Sells(t) => OwnUnit(t, es, gs)[u].status = "SOLD"
<1>1. DOMAIN <<>> = {}
  OBVIOUS
<1>2. t.op = "join" \/ t.e \in DOMAIN es
  <2>1. CASE HasRight(t, es)
    BY <2>1, RightFits
  <2>2. CASE ~HasRight(t, es)
    BY <2>2 DEF Ready, HasRight
  <2> QED BY <2>1, <2>2
<1>3. (IF t.op = "join" THEN t.user ELSE es[t.e].user) \in Users
  BY <1>2 DEF Ready, Good, Consistent, EntriesOK
<1>4. EntryTo(t) \in EntryStatus
  BY Statuses DEF EntryTo, Ready
<1>5. /\ \A x \in DOMAIN OwnEntry(t, es) :
            x = t.e /\ OwnEntry(t, es)[x] =
               [user |-> IF t.op = "join" THEN t.user ELSE es[t.e].user, status |-> EntryTo(t)]
      /\ t.op # "leave" \/ t.at = "commit" => t.e \in DOMAIN OwnEntry(t, es)
  BY <1>1 DEF OwnEntry, Row
<1>6. \A x \in DOMAIN OwnEntry(t, es) :
                 /\ OwnEntry(t, es)[x] \in [user : Users, status : EntryStatus]
                 /\ OwnEntry(t, es)[x].status = EntryTo(t)
  BY <1>3, <1>4, <1>5
<1>7. /\ \A x \in DOMAIN OwnGrant(t, es, gs) :
                 /\ x = t.e /\ HasRight(t, es)
                 /\ OwnGrant(t, es, gs)[x].status = GrantTo(t)
      /\ HasRight(t, es) => t.e \in DOMAIN OwnGrant(t, es, gs)
  BY <1>1 DEF OwnGrant, Row
<1>8. \A u \in DOMAIN OwnUnit(t, es, gs) :
                 /\ u = gs[t.e].unit /\ HasRight(t, es) /\ t.op # "checkout"
                 /\ ~Sells(t) => OwnUnit(t, es, gs)[u].status = "AVAILABLE"
                 /\ Sells(t) => OwnUnit(t, es, gs)[u].status = "SOLD"
  BY <1>1 DEF OwnUnit, Row
<1> QED BY <1>5, <1>6, <1>7, <1>8

(* The tables with these rows, before promotion. *)
LEMMA BaseTables ==
    ASSUME NEW es, NEW gs, NEW us, Good(es, gs, us), NEW t, Ready(t, es, gs)
    PROVE  /\ IsTable(BaseEntries(t, es)) /\ EntriesOK(BaseEntries(t, es))
           /\ \A x : x \in DOMAIN BaseEntries(t, es)
                        <=> x \in DOMAIN es \/ (t.op = "join" /\ x = t.e)
           /\ \A x \in DOMAIN es : x # t.e => BaseEntries(t, es)[x] = es[x]
           /\ IsTable(BaseGrants(t, es, gs))
           /\ \A x : x \in DOMAIN BaseGrants(t, es, gs) <=> x \in DOMAIN gs
           /\ IsTable(BaseUnits(t, es, gs, us)) /\ DOMAIN BaseUnits(t, es, gs, us) = Units
<1>1. t.op = "join" \/ t.e \in DOMAIN es
  <2>1. CASE HasRight(t, es)
    BY <2>1, RightFits
  <2>2. CASE ~HasRight(t, es)
    BY <2>2 DEF Ready, HasRight
  <2> QED BY <2>1, <2>2
<1>2. \A x : x \in DOMAIN BaseEntries(t, es)
                        <=> x \in DOMAIN es \/ (t.op = "join" /\ x = t.e)
  BY <1>1, OwnRowsAre, OverRows DEF BaseEntries
<1>3. /\ \A x \in DOMAIN es : x # t.e => BaseEntries(t, es)[x] = es[x]
      /\ \A x \in DOMAIN OwnEntry(t, es) : BaseEntries(t, es)[x] = OwnEntry(t, es)[x]
      /\ \A x \in DOMAIN es : x \notin DOMAIN OwnEntry(t, es) => BaseEntries(t, es)[x] = es[x]
  BY OwnRowsAre, OverRows DEF BaseEntries
<1>4. EntriesOK(BaseEntries(t, es))
  <2>1. EntriesOK(es) /\ t.e \in EntryIds
    BY DEF Good, Consistent, Ready
  <2>2. \A x \in DOMAIN BaseEntries(t, es) : x \in DOMAIN es \/ x \in DOMAIN OwnEntry(t, es)
    BY OverRows DEF BaseEntries
  <2>3. \A x \in DOMAIN OwnEntry(t, es) :
                 OwnEntry(t, es)[x] \in [user : Users, status : EntryStatus]
    BY OwnRowsAre
  <2> QED BY <1>2, <1>3, <2>1, <2>2, <2>3 DEF EntriesOK
<1>5. \A x : x \in DOMAIN BaseGrants(t, es, gs) <=> x \in DOMAIN gs
  BY OwnRowsAre, RightFits, OverRows DEF BaseGrants
<1>6. DOMAIN BaseUnits(t, es, gs, us) = Units
  <2>1. DOMAIN us = Units
    BY DEF Good, Consistent, UnitsOK
  <2>2. \A u : u \in DOMAIN BaseUnits(t, es, gs, us) <=> u \in Units
    BY <2>1, OwnRowsAre, RightFits, OverRows DEF BaseUnits
  <2> QED BY <2>2
<1>7. /\ IsTable(BaseEntries(t, es)) /\ IsTable(BaseGrants(t, es, gs))
      /\ IsTable(BaseUnits(t, es, gs, us))
  BY OverIsTable DEF BaseEntries, BaseGrants, BaseUnits
<1> QED BY <1>2, <1>3, <1>4, <1>5, <1>6, <1>7

(* Who stands in line has no grant, and is the transaction's own entry only*)
(* if that has just joined; what is in stock is free, or just came free.   *)
LEMMA LineAndStock ==
    ASSUME NEW es, NEW gs, NEW us, Good(es, gs, us), NEW t, Ready(t, es, gs)
    PROVE  /\ \A x \in Line(t, es) :
                 /\ x \notin DOMAIN gs /\ x[1] = t.e[1]
                 /\ x \in DOMAIN BaseEntries(t, es) /\ x \in EntryIds
                 /\ BaseEntries(t, es)[x].status = "WAITING"
                 /\ x = t.e => t.op = "join"
           /\ \A u \in Stock(t, es, gs, us) : u \in Units /\ ProductOf[u] = t.e[1]
<1>1. EntriesOK(BaseEntries(t, es))
  BY BaseTables
<1>2. \A u \in Stock(t, es, gs, us) : u \in Units /\ ProductOf[u] = t.e[1]
  BY DEF Stock, Available, UnitsOf
<1>3. ASSUME NEW x \in Line(t, es)
      PROVE  /\ x \notin DOMAIN gs /\ x[1] = t.e[1]
             /\ x \in DOMAIN BaseEntries(t, es) /\ x \in EntryIds
             /\ BaseEntries(t, es)[x].status = "WAITING"
             /\ x = t.e => t.op = "join"
  <2>1. /\ x[1] = t.e[1] /\ x \in DOMAIN BaseEntries(t, es) /\ x \in EntryIds
        /\ BaseEntries(t, es)[x].status = "WAITING"
    BY <1>1 DEF Line, Waiting, EntriesOK
  <2>2. x = t.e => t.op = "join"
    <3>1. SUFFICES ASSUME x = t.e, t.op # "join" PROVE FALSE
      OBVIOUS
    <3>2. CASE t.op # "leave" \/ t.at = "commit"
      <4>1. t.e \in DOMAIN OwnEntry(t, es) /\ OwnEntry(t, es)[t.e].status = EntryTo(t)
        BY <3>2, OwnRowsAre
      <4>2. BaseEntries(t, es)[t.e] = OwnEntry(t, es)[t.e]
        BY <4>1, OverRows DEF BaseEntries
      <4>3. EntryTo(t) # "WAITING"
        BY <3>1 DEF EntryTo, Ready
      <4> QED BY <2>1, <3>1, <4>1, <4>2, <4>3
    <3>3. CASE t.op = "leave" /\ t.at # "commit"
      <4>1. DOMAIN OwnEntry(t, es) = {}
        BY <3>3 DEF OwnEntry
      <4>2. t.e \in DOMAIN es /\ es[t.e].status = "GRANTED"
        BY <3>3 DEF Ready
      <4>3. BaseEntries(t, es)[t.e] = es[t.e]
        BY <4>1, <4>2, OverRows DEF BaseEntries
      <4> QED BY <2>1, <3>1, <4>2, <4>3
    <3> QED BY <3>2, <3>3
  <2>3. x \notin DOMAIN gs
    <3>1. CASE x = t.e
      BY <2>2, <3>1 DEF Ready, Good, Consistent, GrantsOK
    <3>2. CASE x # t.e
      <4>1. x \in DOMAIN es /\ es[x].status = "WAITING"
        BY <2>1, <3>2, BaseTables
      <4>2. GrantsFollow(es, gs)
        BY DEF Good, Consistent
      <4> QED BY <4>1, <4>2, WaitingHasNoGrant
    <3> QED BY <3>1, <3>2
  <2> QED BY <2>1, <2>2, <2>3
<1> QED BY <1>2, <1>3

(* The pairs made are between the line and the stock, nobody's two.        *)
LEMMA PairsFit ==
    ASSUME NEW es, NEW gs, NEW us, Good(es, gs, us), NEW t, Ready(t, es, gs),
           NEW M, M \subseteq PairsOf(t, es, gs, us)
    PROVE  /\ OneEach(M)
           /\ \A m \in M : m = <<m[1], m[2]>> /\ m[1] \in Line(t, es)
                           /\ m[2] \in Stock(t, es, gs, us)
           /\ \A x \in Firsts(M) : x \in Line(t, es)
           /\ \A u \in Seconds(M) : u \in Stock(t, es, gs, us)
<1>1. EntriesOK(BaseEntries(t, es)) /\ t.e[1] \in Products
  BY BaseTables DEF Ready, EntryIds
<1>2. Pairing(PairsOf(t, es, gs, us), Line(t, es), Stock(t, es, gs, us))
  BY <1>1, PairsPair DEF PairsOf, Line, Stock
<1>3. OneEach(M) /\ \A m \in M : m = <<m[1], m[2]>> /\ m[1] \in Line(t, es)
                           /\ m[2] \in Stock(t, es, gs, us)
  BY <1>2 DEF Pairing, OneEach
<1> QED BY <1>3 DEF Firsts, Seconds

(* The tables it will leave are tables, with no row less.                  *)
LEMMA WillTables ==
    ASSUME NEW es, NEW gs, NEW us, Good(es, gs, us), NEW t, Ready(t, es, gs),
           NEW M, M \subseteq PairsOf(t, es, gs, us)
    PROVE  /\ IsTable(WillEntries(t, M, es, gs, us))
           /\ \A x : x \in DOMAIN WillEntries(t, M, es, gs, us)
                        <=> x \in DOMAIN es \/ (t.op = "join" /\ x = t.e)
           /\ IsTable(WillGrants(t, M, es, gs))
           /\ \A x : x \in DOMAIN WillGrants(t, M, es, gs)
                        <=> x \in DOMAIN gs \/ x \in Firsts(M)
           /\ IsTable(WillUnits(t, M, es, gs, us))
           /\ DOMAIN WillUnits(t, M, es, gs, us) = Units
<1> DEFINE B == BaseEntries(t, es)
<1>1. OneEach(M)
  BY PairsFit
<1>2. /\ IsTable(WillEntries(t, M, es, gs, us))
      /\ DOMAIN WillEntries(t, M, es, gs, us) = DOMAIN PromotedEntries(B, M)
  BY DEF WillEntries, ClosedEntries, IsTable
<1>3. DOMAIN PromotedEntries(B, M) = DOMAIN B
  BY EntriesPromoted
<1>4. \A x : x \in DOMAIN B <=> x \in DOMAIN es \/ (t.op = "join" /\ x = t.e)
  BY BaseTables
<1>5. /\ IsTable(WillGrants(t, M, es, gs))
      /\ \A x : x \in DOMAIN WillGrants(t, M, es, gs)
                        <=> x \in DOMAIN gs \/ x \in Firsts(M)
  BY <1>1, GrantsPromoted, BaseTables DEF WillGrants
<1>6. /\ IsTable(WillUnits(t, M, es, gs, us))
      /\ DOMAIN WillUnits(t, M, es, gs, us) = Units
  BY <1>1, UnitsPromoted DEF WillUnits
<1> QED BY <1>2, <1>3, <1>4, <1>5, <1>6

(* The rows that Written finds. *)
LEMMA WrittenRows ==
    ASSUME NEW new, NEW old
    PROVE  \A x : x \in DOMAIN Written(new, old)
                     <=> x \in DOMAIN new /\ (x \in DOMAIN old => new[x] # old[x])
BY DEF Written

(* The rows a session keeps, over the committed ones, are those it sees. *)
LEMMA OverWrittenIs ==
    ASSUME NEW new, NEW old, IsTable(new), \A x \in DOMAIN old : x \in DOMAIN new
    PROVE  Over(Written(new, old), old) = new
BY OverWritten DEF IsTable

(* A transaction that has written the difference sees what it will leave.  *)
LEMMA Lands ==
    ASSUME NEW es, NEW gs, NEW us, Good(es, gs, us), NEW t, Ready(t, es, gs),
           NEW M, M \subseteq PairsOf(t, es, gs, us),
           t.entries = Written(WillEntries(t, M, es, gs, us), es),
           t.grants = Written(WillGrants(t, M, es, gs), gs),
           t.units = Written(WillUnits(t, M, es, gs, us), us),
           t.said = WillSay(t, M, es, gs, us)
    PROVE  /\ Sees(t, M, es, gs, us)
           /\ \A u \in DOMAIN t.units :
                 u \in Units /\ (u \in Seconds(M) \/ u \in DOMAIN OwnUnit(t, es, gs))
<1> DEFINE E == WillEntries(t, M, es, gs, us)
           G == WillGrants(t, M, es, gs)
           U == WillUnits(t, M, es, gs, us)
           BG == BaseGrants(t, es, gs)
           BU == BaseUnits(t, es, gs, us)
           OG == OwnGrant(t, es, gs)
           OU == OwnUnit(t, es, gs)
<1>0. /\ t.entries = Written(E, es) /\ t.grants = Written(G, gs)
      /\ t.units = Written(U, us)
  OBVIOUS
<1>1. OneEach(M)
  BY PairsFit
<1>2. /\ IsTable(E) /\ \A x \in DOMAIN es : x \in DOMAIN E
      /\ IsTable(G) /\ (\A x : x \in DOMAIN G <=> x \in DOMAIN gs \/ x \in Firsts(M))
      /\ IsTable(U) /\ DOMAIN U = Units /\ DOMAIN us = Units
  BY WillTables DEF Good, Consistent, UnitsOK
<1>3. Over(t.entries, es) = E /\ Over(t.grants, gs) = G /\ Over(t.units, us) = U
  <2> HIDE DEF E, G, U
  <2> QED BY <1>0, <1>2, OverWrittenIs
<1>4. \A x : x \in DOMAIN t.grants <=> x \in DOMAIN OG \/ x \in Firsts(M)
  <2>1. \A x : x \in DOMAIN t.grants <=> x \in DOMAIN G /\ (x \in DOMAIN gs => G[x] # gs[x])
    <3> HIDE DEF G
    <3> QED BY <1>0, WrittenRows
  <2>2. /\ \A x \in DOMAIN BG \ Firsts(M) : G[x] = BG[x]
        /\ \A x : x \in DOMAIN BG <=> x \in DOMAIN gs
    BY <1>1, GrantsPromoted, BaseTables DEF WillGrants
  <2>3. \A x \in DOMAIN OG : x \in DOMAIN gs /\ BG[x] = OG[x] /\ OG[x].status # gs[x].status
                             /\ x \notin Firsts(M)
    <3>1. \A x \in DOMAIN OG : /\ x = t.e /\ HasRight(t, es) /\ OG[x].status = GrantTo(t)
                               /\ BG[x] = OG[x]
      BY OwnRowsAre, OverRows DEF BaseGrants
    <3>2. HasRight(t, es) => /\ t.e \in DOMAIN gs /\ GrantTo(t) # gs[t.e].status
      <4>1. SUFFICES ASSUME HasRight(t, es)
                     PROVE  t.e \in DOMAIN gs /\ GrantTo(t) # gs[t.e].status
        OBVIOUS
      <4>2. /\ t.e \in DOMAIN gs
            /\ t.op = "pay" => gs[t.e].status = "CHECKOUT_PENDING"
            /\ t.op # "pay" => gs[t.e].status = "ACTIVE"
        BY <4>1, RightFits
      <4> QED BY <4>1, <4>2 DEF GrantTo, HasRight
    <3>3. \A x \in Firsts(M) : x \notin DOMAIN gs
      BY PairsFit, LineAndStock
    <3> QED BY <3>1, <3>2, <3>3
  <2>4. \A x \in DOMAIN gs : x \notin DOMAIN OG => BG[x] = gs[x]
    BY OverRows DEF BaseGrants
  <2>5. \A x \in Firsts(M) : x \notin DOMAIN gs
    BY PairsFit, LineAndStock
  <2> HIDE DEF BG, OG, G
  <2> QED BY <1>2, <2>1, <2>2, <2>3, <2>4, <2>5
<1>5. \A u \in DOMAIN t.units : u \in Units /\ (u \in Seconds(M) \/ u \in DOMAIN OU)
  <2>1. \A u : u \in DOMAIN t.units <=> u \in DOMAIN U /\ (u \in DOMAIN us => U[u] # us[u])
    <3> HIDE DEF U
    <3> QED BY <1>0, WrittenRows
  <2>2. \A u \in Units \ Seconds(M) : U[u] = BU[u]
    BY <1>1, UnitsPromoted DEF WillUnits
  <2>3. \A u \in Units : u \notin DOMAIN OU => BU[u] = us[u]
    BY <1>2, OverRows DEF BaseUnits
  <2> HIDE DEF U, BU, OU
  <2> QED BY <1>2, <2>1, <2>2, <2>3
<1>6. DOMAIN t.grants = DOMAIN OG \cup Firsts(M)
  BY <1>4
<1>7. Sees(t, M, es, gs, us)
  BY <1>3, <1>6 DEF Sees, WillEntries, WillGrants, WillUnits, WillSay
<1> QED BY <1>5, <1>7

-----------------------------------------------------------------------------
(***************************************************************************)
(* One session moves.                                                      *)
(***************************************************************************)

(* What no statement but the first two changes of a transaction.           *)
SameWork(t, r) ==
    /\ r.op = t.op /\ r.e = t.e /\ r.user = t.user /\ r.key = t.key
    /\ r.result = t.result /\ r.lag = t.lag
    /\ r.nextTicket = t.nextTicket /\ r.attempts = t.attempts

(* What a statement changes of its session's transaction. *)
LEMMA DoAll ==
    ASSUME LockInv, NEW s \in Sessions, tx[s] # None,
           NEW next, NEW rows, NEW es, NEW gs, NEW us, NEW said,
           Do(s, next, rows, es, gs, us, said)
    PROVE  /\ tx' = [tx EXCEPT ![s] = tx'[s]] /\ UNCHANGED vars
           /\ SameWork(tx[s], tx'[s])
           /\ tx'[s].at = next
           /\ \A x : x \in tx'[s].locks <=> x \in tx[s].locks \/ x \in rows
           /\ \A x : x \in tx'[s].said <=> x \in tx[s].said \/ x \in said
           /\ tx'[s].entries = Written(es, entries)
           /\ tx'[s].grants = Written(gs, grants)
           /\ tx'[s].units = Written(us, units)
<1> DEFINE t == [tx[s] EXCEPT !.at = next, !.locks = @ \cup rows,
                   !.said = @ \cup said, !.entries = Written(es, entries),
                   !.grants = Written(gs, grants), !.units = Written(us, units)]
<1>0. tx = [q \in Sessions |-> tx[q]] /\ tx[s] = [f \in Fields |-> tx[s][f]]
  BY DEF LockInv, Legal
<1>1. tx' = [tx EXCEPT ![s] = t] /\ UNCHANGED vars
  BY DEF Do
<1>2. tx'[s] = t
  BY <1>0, <1>1
<1>3. /\ t.at = next /\ t.locks = tx[s].locks \cup rows /\ t.said = tx[s].said \cup said
      /\ t.entries = Written(es, entries) /\ t.grants = Written(gs, grants)
      /\ t.units = Written(us, units)
      /\ SameWork(tx[s], t)
  BY <1>0 DEF Fields, SameWork
<1> HIDE DEF t
<1> QED BY <1>1, <1>2, <1>3

(* The rows that are written depend on what the transaction is about, and  *)
(* in a leave on whether it has marked its entry.                          *)
LEMMA SameRowsOwned ==
    ASSUME NEW t, NEW r, r.op = t.op, r.e = t.e, r.user = t.user, r.result = t.result,
           t.op = "leave" => (r.at = "commit" <=> t.at = "commit"),
           NEW es, NEW gs, NEW us
    PROVE  /\ HasRight(r, es) <=> HasRight(t, es)
           /\ Sells(r) <=> Sells(t)
           /\ Promotes(r, es) <=> Promotes(t, es)
           /\ OwnEntry(r, es) = OwnEntry(t, es)
           /\ OwnGrant(r, es, gs) = OwnGrant(t, es, gs)
           /\ OwnUnit(r, es, gs) = OwnUnit(t, es, gs)
           /\ OwnSaid(r, es) = OwnSaid(t, es)
           /\ BaseEntries(r, es) = BaseEntries(t, es)
           /\ BaseGrants(r, es, gs) = BaseGrants(t, es, gs)
           /\ BaseUnits(r, es, gs, us) = BaseUnits(t, es, gs, us)
           /\ Line(r, es) = Line(t, es)
           /\ Stock(r, es, gs, us) = Stock(t, es, gs, us)
           /\ PairsOf(r, es, gs, us) = PairsOf(t, es, gs, us)
<1>1. /\ HasRight(r, es) <=> HasRight(t, es)
      /\ Sells(r) <=> Sells(t)
  BY DEF HasRight, Sells
<1>2. Promotes(r, es) <=> Promotes(t, es)
  BY <1>1 DEF Promotes
<1>3. EntryTo(r) = EntryTo(t) /\ GrantTo(r) = GrantTo(t)
  BY <1>1 DEF EntryTo, GrantTo
<1>4. OwnEntry(r, es) = OwnEntry(t, es)
  BY <1>3 DEF OwnEntry
<1>5. OwnGrant(r, es, gs) = OwnGrant(t, es, gs)
  BY <1>1, <1>3 DEF OwnGrant
<1>6. OwnUnit(r, es, gs) = OwnUnit(t, es, gs)
  BY <1>1 DEF OwnUnit
<1>7. OwnSaid(r, es) = OwnSaid(t, es)
  BY <1>1 DEF OwnSaid
<1>8. /\ BaseEntries(r, es) = BaseEntries(t, es)
      /\ BaseGrants(r, es, gs) = BaseGrants(t, es, gs)
      /\ BaseUnits(r, es, gs, us) = BaseUnits(t, es, gs, us)
  BY <1>4, <1>5, <1>6 DEF BaseEntries, BaseGrants, BaseUnits
<1> QED BY <1>1, <1>2, <1>4, <1>5, <1>6, <1>7, <1>8 DEF Line, Stock, PairsOf

(* A statement that adds locks and moves on keeps what was found. *)
LEMMA SameFound ==
    ASSUME NEW nt, NEW es, NEW gs, NEW us, NEW at, NEW t, NEW r,
           Found(t, nt, es, gs, us, at), SameWork(t, r),
           \A x \in t.locks : x \in r.locks,
           t.op = "join" => (t.at \in Working <=> r.at \in Working),
           Records(r) <=> Records(t),
           HasRight(t, es) /\ (\/ r.at \in {"attempt", "settle"} \cup Working
                               \/ t.op = "checkout" /\ r.at = "entry")
              => <<"grant", t.e>> \in r.locks /\ GrantFits(t, gs)
    PROVE  Found(r, nt, es, gs, us, at)
<1>1. /\ HasRight(r, es) <=> HasRight(t, es)
      /\ GrantFits(r, gs) <=> GrantFits(t, gs)
      /\ MayJoin(r, nt, es, us) <=> MayJoin(t, nt, es, us)
  BY DEF SameWork, HasRight, GrantFits, MayJoin
<1> QED BY <1>1 DEF Found, SameWork, Records

(* An open transaction that has found what it needed fits the tables.      *)
LEMMA TxGood ==
    ASSUME TxInv
    PROVE  /\ LockInv /\ IInv /\ TypeOK /\ TicketsFresh
           /\ Good(entries, grants, units)
<1>1. LockInv /\ IInv
  BY DEF TxInv
<1>2. Consistent(entries, grants, units) /\ TypeOK
  BY <1>1, IInvConsistent
<1>3. IsTable(entries) /\ IsTable(grants)
  BY <1>1 DEF LockInv, Tables, IsTable
<1> QED BY <1>1, <1>2, <1>3 DEF Good, IInv

(* A transaction that has found its grant, or has begun to write, fits the *)
(* tables.                                                                 *)
LEMMA TxReady ==
    ASSUME TxInv, NEW s \in Sessions, tx[s] # None,
           \/ tx[s].at \in Working
           \/ tx[s].at \in {"attempt", "settle"}
           \/ tx[s].op = "checkout" /\ tx[s].at = "entry"
    PROVE  Ready(tx[s], entries, grants)
<1> DEFINE t == tx[s]
<1>1. /\ LockInv /\ TypeOK /\ TicketsFresh /\ Good(entries, grants, units)
      /\ Sound(t, nextTicket, entries, grants, units, attempts)
  BY TxGood DEF TxInv
<1>2. Legal(t)
  BY <1>1 DEF LockInv
<1>3. t.op \in {"join", "leave", "checkout", "pay", "expire"} /\ t.e[1] \in Products
  BY <1>2 DEF Legal, FollowsPlan
<1>4. t.op = "join" => /\ t.e \notin DOMAIN entries /\ t.user \in Users /\ t.e \in EntryIds
  <2>1. SUFFICES ASSUME t.op = "join"
                 PROVE  t.e \notin DOMAIN entries /\ t.user \in Users /\ t.e \in EntryIds
    OBVIOUS
  <2>2. t.at \in Working
    BY <1>2, <2>1 DEF Legal, FollowsPlan, ProductPlan
  <2>3. MayJoin(t, nextTicket, entries, units)
    BY <1>1, <2>1, <2>2 DEF Sound, Found
  <2>4. /\ t.e = <<t.e[1], nextTicket[t.e[1]]>> /\ nextTicket[t.e[1]] <= MaxTicket
        /\ nextTicket[t.e[1]] \in 1 .. MaxTicket + 1
    BY <1>1, <1>3, <2>3 DEF MayJoin, TypeOK
  <2>5. nextTicket[t.e[1]] \in 1 .. MaxTicket
    BY <2>4, ConstantsAssumption
  <2>6. t.e \in EntryIds
    BY <1>3, <2>4, <2>5 DEF EntryIds
  <2>7. <<t.e[1], nextTicket[t.e[1]]>> \notin DOMAIN entries
    BY <1>1, <1>3, <2>5 DEF TicketsFresh
  <2>8. t.user \in Users
    BY <1>2, <2>1 DEF Legal, Knows
  <2> QED BY <2>4, <2>6, <2>7, <2>8
<1>5. t.op = "leave" => /\ t.e \in DOMAIN entries
                        /\ \/ entries[t.e].status = "GRANTED"
                           \/ entries[t.e].status = "WAITING" /\ t.at = "commit"
  <2>1. SUFFICES ASSUME t.op = "leave"
                 PROVE  /\ t.e \in DOMAIN entries
                        /\ \/ entries[t.e].status = "GRANTED"
                           \/ entries[t.e].status = "WAITING" /\ t.at = "commit"
    OBVIOUS
  <2>2. t.at \in Working
    BY <1>2, <2>1 DEF Legal, FollowsPlan, ProductPlan, Working
  <2> QED BY <1>1, <1>2, <2>1, <2>2 DEF Sound, Legal, Knows
<1>6. HasRight(t, entries) => GrantFits(t, grants)
  BY <1>1 DEF Sound, Found
<1>7. t.e \in EntryIds
  <2>1. t.op \in {"leave", "checkout", "pay", "expire"} => t.e \in DOMAIN entries
    BY <1>1, <1>2, <1>5 DEF Legal, Knows, TypeOK, GrantsOK
  <2> QED BY <1>1, <1>3, <1>4, <2>1 DEF TypeOK, EntriesOK
<1> QED BY <1>3, <1>4, <1>5, <1>6, <1>7 DEF Ready

(* One session has moved: only its own record has to be looked at.         *)
LEMMA OneSound ==
    ASSUME TxInv, LockInv', UNCHANGED vars, NEW s \in Sessions,
           tx' = [tx EXCEPT ![s] = tx'[s]],
           tx'[s] # None => Sound(tx'[s], nextTicket, entries, grants, units, attempts)
    PROVE  TxInv'
<1>1. \A q \in Sessions : tx'[q] # None =>
         Sound(tx'[q], nextTicket, entries, grants, units, attempts)
  <2>1. tx = [q \in Sessions |-> tx[q]]
    BY DEF TxInv, LockInv
  <2>2. \A q \in Sessions : q # s => tx'[q] = tx[q]
    BY <2>1
  <2>3. \A q \in Sessions : tx[q] # None =>
           Sound(tx[q], nextTicket, entries, grants, units, attempts)
    BY DEF TxInv
  <2> QED BY <2>2, <2>3
<1>2. /\ nextTicket' = nextTicket /\ entries' = entries /\ grants' = grants
      /\ units' = units /\ attempts' = attempts
  BY DEF vars
<1>3. \A q \in Sessions : tx'[q] # None =>
         Sound(tx'[q], nextTicket', entries', grants', units', attempts')
  BY <1>1, <1>2
<1>4. IInv'
  BY NextIInv DEF TxInv
<1>5. IsTable(attempts)'
  BY <1>2 DEF TxInv, IsTable
<1> QED BY <1>3, <1>4, <1>5 DEF TxInv

(* A statement that leaves in the transaction's rows what they should be   *)
(* leaves it sound.                                                        *)
LEMMA WorkingSound ==
    ASSUME NEW nt, NEW es, NEW gs, NEW us, NEW at, NEW r,
           Good(es, gs, us), Ready(r, es, gs), Found(r, nt, es, gs, us, at),
           r.at \in Working, r.at = "promote" => Promotes(r, es), r.at = "close" => Sells(r),
           <<"entry", r.e>> \in r.locks,
           \A u \in DOMAIN OwnUnit(r, es, gs) : <<"unit", u>> \in r.locks,
           \A e \in ClosedBy(r, es, gs, us) : <<"entry", e>> \in r.locks,
           NEW M, Turned(r, M, es, gs, us),
           r.entries = Written(WillEntries(r, M, es, gs, us), es),
           r.grants = Written(WillGrants(r, M, es, gs), gs),
           r.units = Written(WillUnits(r, M, es, gs, us), us),
           r.said = WillSay(r, M, es, gs, us)
    PROVE  Sound(r, nt, es, gs, us, at)
<1>1. M \subseteq PairsOf(r, es, gs, us)
  BY DEF Turned
<1>2. /\ Sees(r, M, es, gs, us)
      /\ \A u \in DOMAIN r.units :
            u \in Units /\ (u \in Seconds(M) \/ u \in DOMAIN OwnUnit(r, es, gs))
  BY <1>1, Lands
<1>3. \A u \in Seconds(M) : <<"unit", u>> \in r.locks
  BY DEF Turned, Seconds
<1>4. \A u \in DOMAIN r.units : u \in Units /\ <<"unit", u>> \in r.locks
  BY <1>2, <1>3
<1>5. r.at \notin Reading
  BY DEF Reading, Working
<1>6. r.op = "leave" => \/ es[r.e].status = "GRANTED"
                        \/ es[r.e].status = "WAITING" /\ r.at = "commit"
  BY DEF Ready
<1>7. \E N \in SUBSET PairsOf(r, es, gs, us) :
         Turned(r, N, es, gs, us) /\ Sees(r, N, es, gs, us)
  BY <1>1, <1>2
<1> QED BY <1>4, <1>5, <1>6, <1>7 DEF Sound

(* One that has written nothing yet is sound if it has found what it needs.*)
LEMMA ReadingSound ==
    ASSUME NEW nt, NEW es, NEW gs, NEW us, NEW at, NEW r, Found(r, nt, es, gs, us, at),
           r.at \notin Working, DOMAIN r.units = {}, r.said = {}
    PROVE  Sound(r, nt, es, gs, us, at)
BY DEF Sound

(* The transactions as they begin.                                         *)
LEMMA OpenedSound ==
    ASSUME TxInv, NEW op, NEW at \in {"product", "grant"}, NEW e, NEW u, NEW k, NEW r,
           op = "pay" => k \in Keys /\ r \in Results,
           op \in {"checkout", "expire"} => e \in DOMAIN grants
    PROVE  Sound(Opened(op, at, e, u, k, r), nextTicket, entries, grants, units, attempts)
<1> DEFINE t == Opened(op, at, e, u, k, r)
<1>1. /\ t.op = op /\ t.at = at /\ t.e = e /\ t.key = k /\ t.result = r /\ t.lag = 0
      /\ t.locks = {} /\ t.said = {} /\ DOMAIN t.units = {}
      /\ t.nextTicket = <<>> /\ t.attempts = <<>>
  BY DEF Opened
<1>2. 0 \in Lags /\ \A x \in DOMAIN grants : 0 <= grants[x].age
  <2>1. GrantsOK(entries, grants)
    BY TxGood DEF TypeOK
  <2> QED BY <2>1, ConstantsAssumption DEF Lags, GrantsOK
<1> HIDE DEF t
<1>3. t.at \notin Working /\ t.at \notin {"attempt", "settle", "entry"}
  BY <1>1 DEF Working
<1>4. Found(t, nextTicket, entries, grants, units, attempts)
  BY <1>1, <1>2, <1>3 DEF Found, Records
<1>5. Sound(t, nextTicket, entries, grants, units, attempts)
  BY <1>1, <1>3, <1>4, ReadingSound
<1> QED BY <1>5 DEF t

(* A transaction just opened has done nothing yet. *)
LEMMA BegunSound ==
    ASSUME TxInv, LockInv', NEW s \in Sessions,
           NEW op, NEW at \in {"product", "grant"}, NEW e, NEW u, NEW k, NEW r,
           op = "pay" => k \in Keys /\ r \in Results,
           op \in {"checkout", "expire"} => e \in DOMAIN grants,
           Begin(s, Opened(op, at, e, u, k, r))
    PROVE  TxInv'
<1> DEFINE t == Opened(op, at, e, u, k, r)
<1>1. Sound(t, nextTicket, entries, grants, units, attempts)
  BY OpenedSound
<1>2. tx' = [tx EXCEPT ![s] = t] /\ UNCHANGED vars /\ tx = [q \in Sessions |-> tx[q]]
  BY DEF Begin, TxInv, LockInv
<1> HIDE DEF t
<1>3. tx'[s] = t
  BY <1>2
<1> QED BY <1>1, <1>2, <1>3, OneSound

(* Every request and every row of the worker's scan opens such a           *)
(* transaction.                                                            *)
LEMMA BeginSound ==
    ASSUME TxInv, NEW s \in Sessions,
           \/ \E u \in Users, p \in Products : BeginJoin(s, u, p)
           \/ BeginLeave(s) \/ BeginCheckout(s)
           \/ \E k \in Keys, r \in Results : BeginPay(s, k, r)
           \/ BeginExpire(s)
    PROVE  TxInv'
<1>1. LockInv'
  BY Beginnings DEF TxInv
<1>2. ASSUME NEW u \in Users, NEW p \in Products, BeginJoin(s, u, p)
      PROVE  TxInv'
  <2>1. Begin(s, Opened("join", "product", <<p, 0>>, u, None, None))
    BY <1>2 DEF BeginJoin
  <2> QED BY <1>1, <2>1, BegunSound
<1>3. CASE BeginLeave(s)
  <2>1. PICK e \in DOMAIN entries :
           Begin(s, Opened("leave", "product", e, entries[e].user, None, None))
    BY <1>3 DEF BeginLeave
  <2> QED BY <1>1, <2>1, BegunSound
<1>4. CASE BeginCheckout(s)
  <2>1. PICK e \in DOMAIN grants :
           Begin(s, Opened("checkout", "grant", e, entries[e].user, None, None))
    BY <1>4 DEF BeginCheckout
  <2> QED BY <1>1, <2>1, BegunSound
<1>5. ASSUME NEW k \in Keys, NEW r \in Results, BeginPay(s, k, r)
      PROVE  TxInv'
  <2>1. PICK e \in DOMAIN grants :
           Begin(s, Opened("pay", "product", e, entries[e].user, k, r))
    BY <1>5 DEF BeginPay
  <2> QED BY <1>1, <2>1, BegunSound
<1>6. CASE BeginExpire(s)
  <2>1. PICK e \in DOMAIN grants :
           Begin(s, Opened("expire", "product", e, None, None, None))
    BY <1>6 DEF BeginExpire
  <2> QED BY <1>1, <2>1, BegunSound
<1> QED BY <1>2, <1>3, <1>4, <1>5, <1>6

(* A rollback, for whatever reason, leaves the other transactions as they  *)
(* are.                                                                    *)
LEMMA EndSound ==
    ASSUME TxInv, NEW s \in Sessions, End(s)
    PROVE  TxInv'
<1>1. LockInv'
  BY EndKeeps DEF TxInv
<1>2. tx' = [tx EXCEPT ![s] = None] /\ UNCHANGED vars /\ tx = [q \in Sessions |-> tx[q]]
  BY DEF End, TxInv, LockInv
<1>3. tx'[s] = None
  BY <1>2
<1> QED BY <1>1, <1>2, <1>3, OneSound

(* Before its first write a transaction sees the committed rows.           *)
LEMMA SeesCommitted ==
    ASSUME TxInv, NEW s \in Sessions, tx[s] # None, tx[s].at \in Reading
    PROVE  /\ SeenEntries(s) = entries /\ SeenGrants(s) = grants /\ SeenUnits(s) = units
           /\ tx[s].said = {} /\ DOMAIN tx[s].units = {} /\ tx[s].at \notin Working
           /\ Found(tx[s], nextTicket, entries, grants, units, attempts)
<1>1. SeenEntries(s) = entries /\ SeenGrants(s) = grants
  BY SeenFacts DEF TxInv
<1>2. Sound(tx[s], nextTicket, entries, grants, units, attempts)
  BY DEF TxInv
<1>3. tx[s].said = {} /\ DOMAIN tx[s].units = {}
      /\ Found(tx[s], nextTicket, entries, grants, units, attempts)
  BY <1>2 DEF Sound
<1>4. IsTable(units)
  BY TxGood DEF TypeOK, UnitsOK, IsTable
<1>5. SeenUnits(s) = units
  BY <1>3, <1>4, OverEmpty DEF SeenUnits
<1> QED BY <1>1, <1>3, <1>5 DEF Reading, Working

(* A statement that only locks, before the first write.                    *)
LEMMA LockSound ==
    ASSUME TxInv, LockInv', NEW s \in Sessions, tx[s] # None, NEW next, NEW row,
           Lock(s, next, row), tx[s].at \in Reading, next \notin Working,
           tx[s].op = "pay" => next # "settle" /\ tx[s].at # "settle",
           next \in {"attempt", "settle"} \/ (tx[s].op = "checkout" /\ next = "entry")
              => row = <<"grant", tx[s].e>> /\ GrantFits(tx[s], grants)
    PROVE  TxInv'
<1> DEFINE t == tx[s]
           r == tx'[s]
<1>1. /\ LockInv /\ SeenUnits(s) = units /\ t.said = {} /\ t.at \notin Working
      /\ Found(t, nextTicket, entries, grants, units, attempts)
  BY SeesCommitted DEF TxInv
<1>2. /\ tx' = [tx EXCEPT ![s] = r] /\ UNCHANGED vars
      /\ SameWork(t, r) /\ r.at = next
      /\ \A x : x \in r.locks <=> x \in t.locks \/ x \in {row}
      /\ \A x : x \in r.said <=> x \in t.said \/ x \in {}
      /\ r.units = Written(units, units)
  BY <1>1, DoAll DEF Lock
<1>3. DOMAIN r.units = {} /\ r.said = {}
  BY <1>1, <1>2 DEF Written
<1> HIDE DEF t, r
<1>4. Found(r, nextTicket, entries, grants, units, attempts)
  <2>1. Records(r) <=> Records(t)
    BY <1>1, <1>2 DEF SameWork, Records, t
  <2>2. \A x \in t.locks : x \in r.locks
    BY <1>2
  <2>3. t.op = "join" => (t.at \in Working <=> r.at \in Working)
    BY <1>1, <1>2
  <2>4. HasRight(t, entries) /\ (\/ r.at \in {"attempt", "settle"} \cup Working
                                 \/ t.op = "checkout" /\ r.at = "entry")
          => <<"grant", t.e>> \in r.locks /\ GrantFits(t, grants)
    BY <1>2 DEF t
  <2> QED BY <1>1, <1>2, <2>1, <2>2, <2>3, <2>4, SameFound
<1>5. Sound(r, nextTicket, entries, grants, units, attempts)
  BY <1>2, <1>3, <1>4, ReadingSound
<1> QED BY <1>2, <1>5, OneSound DEF r

(* LockProduct keeps the invariant. *)
LEMMA LockProductSound ==
    ASSUME TxInv, NEW s \in Sessions, LockProduct(s)
    PROVE  TxInv'
<1> DEFINE next == CASE tx[s].op = "join" -> "insert"
                     [] tx[s].op = "leave" -> "entry"
                     [] OTHER -> "grant"
<1>1. /\ LockInv /\ LockInv' /\ tx[s] # None /\ tx[s].at = "product"
      /\ Lock(s, next, <<"product", tx[s].e[1]>>)
  BY LockProductKeeps DEF TxInv, LockProduct, At
<1>2. next \in {"insert", "entry", "grant"}
  OBVIOUS
<1>3. tx[s].op # "checkout"
  BY <1>1, SeenFacts DEF FollowsPlan, CheckoutPlan
<1> HIDE DEF next
<1>4. next \notin Working /\ tx[s].at \in Reading
  BY <1>1, <1>2 DEF Working, Reading
<1> QED BY <1>1, <1>2, <1>3, <1>4, LockSound

(* LeaveQueue that finds its entry GRANTED goes on to the grant. *)
LEMMA LeaveLocksGranted ==
    ASSUME TxInv, LockInv', NEW s \in Sessions, At(s, "entry"), tx[s].op = "leave",
           Lock(s, "grant", <<"entry", tx[s].e>>)
    PROVE  TxInv'
<1>1. tx[s].at \in Reading /\ "grant" \notin Working /\ tx[s] # None
  BY DEF Reading, Working, At
<1> QED BY <1>1, LockSound

(* An operation that finds the grant as it demands goes on with it locked. *)
LEMMA LockGrantSound ==
    ASSUME TxInv, LockInv', NEW s \in Sessions, At(s, "grant"), GrantAllows(s),
           tx[s].op # "leave",
           Lock(s, CASE tx[s].op = "checkout" -> "entry"
                     [] tx[s].op = "pay" -> "attempt"
                     [] tx[s].op = "expire" -> "settle",
                <<"grant", tx[s].e>>)
    PROVE  TxInv'
<1> DEFINE next == CASE tx[s].op = "checkout" -> "entry"
                     [] tx[s].op = "pay" -> "attempt"
                     [] tx[s].op = "expire" -> "settle"
<1>1. LockInv /\ tx[s] # None /\ tx[s].at = "grant"
  BY DEF TxInv, At
<1>2. /\ tx[s].op \in {"checkout", "pay", "expire"} /\ tx[s].e \in DOMAIN grants
  BY <1>1, SeenFacts DEF Legal, FollowsPlan, CheckoutPlan, ProductPlan, Knows
<1>3. /\ next \in {"entry", "attempt", "settle"} /\ (tx[s].op = "pay" => next = "attempt")
  BY <1>2
<1>4. GrantFits(tx[s], grants)
  BY <1>2 DEF GrantAllows, GrantFits
<1>5. Lock(s, next, <<"grant", tx[s].e>>)
  OBVIOUS
<1> HIDE DEF next
<1>6. next \notin Working /\ tx[s].at \in Reading
  BY <1>1, <1>3 DEF Working, Reading
<1> QED BY <1>1, <1>3, <1>4, <1>5, <1>6, LockSound

(* InsertAttempt keeps the invariant: the key it locks is not in use. *)
LEMMA InsertAttemptSound ==
    ASSUME TxInv, NEW s \in Sessions, InsertAttempt(s)
    PROVE  TxInv'
<1> DEFINE t == tx[s]
           r == [t EXCEPT !.at = "settle", !.locks = @ \cup {<<"key", t.key>>},
                          !.attempts = Row(t.key, [entry |-> t.e, result |-> t.result])]
<1>1. /\ LockInv /\ LockInv' /\ t # None /\ t.at = "attempt"
      /\ t = [f \in Fields |-> t[f]] /\ tx = [q \in Sessions |-> tx[q]]
      /\ t.op = "pay"
  <2>1. LockInv /\ LockInv' /\ t # None /\ t.at = "attempt"
    BY InsertAttemptKeeps DEF TxInv, InsertAttempt, At
  <2>2. Legal(t)
    BY <2>1, SeenFacts
  <2> QED BY <2>1, <2>2 DEF LockInv, Legal, FollowsPlan, CheckoutPlan, ProductPlan
<1>2. CASE t.key \in DOMAIN attempts
  BY <1>2, EndSound DEF InsertAttempt
<1>3. CASE t.key \notin DOMAIN attempts
  <2>1. tx' = [tx EXCEPT ![s] = r] /\ UNCHANGED vars
    BY <1>3 DEF InsertAttempt
  <2>2. /\ r.at = "settle" /\ (\A x : x \in r.locks <=> x \in t.locks \/ x = <<"key", t.key>>)
        /\ r.attempts = Row(t.key, [entry |-> t.e, result |-> t.result])
        /\ r.op = t.op /\ r.e = t.e /\ r.user = t.user /\ r.key = t.key
        /\ r.result = t.result /\ r.lag = t.lag /\ r.nextTicket = t.nextTicket
        /\ r.units = t.units /\ r.said = t.said
    BY <1>1 DEF Fields
  <2>3. /\ Found(t, nextTicket, entries, grants, units, attempts)
        /\ t.said = {} /\ DOMAIN t.units = {} /\ t.at \notin Working
    BY <1>1, SeesCommitted DEF Reading
  <2> HIDE DEF r, t
  <2>4. tx'[s] = r
    BY <1>1, <2>1
  <2>5. Found(r, nextTicket, entries, grants, units, attempts)
    <3>1. HasRight(r, entries) /\ HasRight(t, entries) /\ r.at \notin Working
          /\ (GrantFits(r, grants) <=> GrantFits(t, grants)) /\ ~Records(t) /\ Records(r)
      BY <1>1, <2>2, <2>3 DEF HasRight, GrantFits, Records, Working
    <3> QED BY <1>1, <1>3, <2>2, <2>3, <3>1 DEF Found
  <2>6. Sound(r, nextTicket, entries, grants, units, attempts)
    <3>1. r.at \notin Working
      BY <2>2 DEF Working
    <3> QED BY <2>2, <2>3, <2>5, <3>1, ReadingSound
  <2> QED BY <1>1, <2>1, <2>4, <2>6, OneSound
<1> QED BY <1>2, <1>3

(***************************************************************************)
(* The statements that write.                                              *)
(***************************************************************************)
(* With no pair made, a transaction leaves its own rows over the tables.   *)
LEMMA NothingPromoted ==
    ASSUME NEW es, NEW gs, NEW us, Good(es, gs, us), NEW r, Ready(r, es, gs),
           ClosedBy(r, es, gs, us) = {}
    PROVE  /\ WillEntries(r, {}, es, gs, us) = BaseEntries(r, es)
           /\ WillGrants(r, {}, es, gs) = BaseGrants(r, es, gs)
           /\ WillUnits(r, {}, es, gs, us) = BaseUnits(r, es, gs, us)
           /\ \A x : x \in WillSay(r, {}, es, gs, us) <=> x \in OwnSaid(r, es)
<1>1. Firsts({}) = {}
  BY DEF Firsts
<1>2. /\ IsTable(BaseEntries(r, es)) /\ IsTable(BaseGrants(r, es, gs))
      /\ IsTable(BaseUnits(r, es, gs, us)) /\ DOMAIN BaseUnits(r, es, gs, us) = Units
  BY BaseTables
<1>3. /\ PromotedEntries(BaseEntries(r, es), {}) = BaseEntries(r, es)
      /\ PromotedGrants(BaseGrants(r, es, gs), {}, 0) = BaseGrants(r, es, gs)
      /\ PromotedUnits(BaseUnits(r, es, gs, us), {}) = BaseUnits(r, es, gs, us)
      /\ ClosedEntries(BaseEntries(r, es), {}) = BaseEntries(r, es)
  BY <1>2, PromotedNobody
<1> QED BY <1>1, <1>3 DEF WillEntries, WillGrants, WillUnits, WillSay

(* The statement in which a transaction writes its own rows.               *)
LEMMA FirstWriteSound ==
    ASSUME TxInv, LockInv', NEW s \in Sessions, tx[s] # None, tx[s].at \in Reading,
           tx[s].op # "join", tx[s].op = "pay" => tx[s].at = "settle",
           NEW next \in Working, NEW rows, NEW es, NEW gs, NEW us, NEW said,
           Do(s, next, rows, es, gs, us, said),
           tx[s].op = "leave" => \/ entries[tx[s].e].status = "GRANTED"
                                 \/ entries[tx[s].e].status = "WAITING" /\ next = "commit",
           HasRight(tx[s], entries) =>
              <<"grant", tx[s].e>> \in tx[s].locks \cup rows /\ GrantFits(tx[s], grants),
           <<"entry", tx[s].e>> \in tx[s].locks \cup rows,
           \A u \in DOMAIN OwnUnit(tx'[s], entries, grants) : <<"unit", u>> \in rows,
           next = "promote" <=> Promotes(tx[s], entries),
           next = "close" <=> Sells(tx[s]),
           es = BaseEntries(tx'[s], entries), gs = BaseGrants(tx'[s], entries, grants),
           us = BaseUnits(tx'[s], entries, grants, units), said = OwnSaid(tx'[s], entries)
    PROVE  TxInv'
<1> DEFINE t == tx[s]
           r == tx'[s]
<1>1. /\ LockInv /\ Good(entries, grants, units) /\ t.said = {} /\ t.at \notin Working
      /\ Found(t, nextTicket, entries, grants, units, attempts) /\ TypeOK
  BY SeesCommitted, TxGood
<1>2. /\ tx' = [tx EXCEPT ![s] = r] /\ UNCHANGED vars
      /\ SameWork(t, r) /\ r.at = next
      /\ \A x : x \in r.locks <=> x \in t.locks \/ x \in rows
      /\ \A x : x \in r.said <=> x \in t.said \/ x \in said
      /\ r.entries = Written(es, entries)
      /\ r.grants = Written(gs, grants)
      /\ r.units = Written(us, units)
  BY <1>1, DoAll
<1>3. /\ t.op \in {"leave", "checkout", "pay", "expire"}
      /\ t.e \in DOMAIN entries /\ t.e \in EntryIds
  <2>1. Legal(t)
    BY <1>1 DEF LockInv
  <2>2. t.op \in {"leave", "checkout", "pay", "expire"}
    BY <2>1 DEF Legal, FollowsPlan
  <2>3. t.e \in DOMAIN entries
    BY <1>1, <2>1, <2>2 DEF Legal, Knows, TypeOK, GrantsOK
  <2> QED BY <1>1, <2>2, <2>3 DEF TypeOK, EntriesOK
<1>4. r.op = t.op /\ r.e = t.e /\ r.result = t.result
  BY <1>2 DEF SameWork
<1>5. /\ HasRight(r, entries) <=> HasRight(t, entries)
      /\ Promotes(r, entries) <=> Promotes(t, entries)
      /\ Sells(r) <=> Sells(t)
      /\ GrantFits(r, grants) <=> GrantFits(t, grants)
  BY <1>2, <1>4 DEF SameWork, HasRight, Promotes, Sells, GrantFits
<1> HIDE DEF t, r
<1>6. Ready(r, entries, grants)
  BY <1>2, <1>3, <1>4, <1>5 DEF Ready, t
<1>7. Found(r, nextTicket, entries, grants, units, attempts)
  <2>1. Records(r) <=> Records(t)
    BY <1>1, <1>2, <1>4 DEF Records, t
  <2> QED BY <1>1, <1>2, <1>3, <1>5, <2>1, SameFound DEF t
<1>8. ClosedBy(r, entries, grants, units) = {}
  BY <1>2, <1>5 DEF ClosedBy, t
<1>9. /\ es = WillEntries(r, {}, entries, grants, units)
      /\ gs = WillGrants(r, {}, entries, grants)
      /\ us = WillUnits(r, {}, entries, grants, units)
      /\ \A x : x \in WillSay(r, {}, entries, grants, units) <=> x \in said
  BY <1>1, <1>6, <1>8, NothingPromoted DEF r
<1>10. r.said = WillSay(r, {}, entries, grants, units)
  BY <1>1, <1>2, <1>9
<1>11. Turned(r, {}, entries, grants, units)
  BY <1>2, <1>5 DEF Turned, t
<1>12. Sound(r, nextTicket, entries, grants, units, attempts)
  <2>1. /\ r.at \in Working /\ (r.at = "promote" => Promotes(r, entries))
        /\ (r.at = "close" => Sells(r))
        /\ <<"entry", r.e>> \in r.locks
    BY <1>2, <1>4, <1>5 DEF t
  <2>2. \A u \in DOMAIN OwnUnit(r, entries, grants) : <<"unit", u>> \in r.locks
    BY <1>2 DEF r
  <2>3. \A e \in ClosedBy(r, entries, grants, units) : <<"entry", e>> \in r.locks
    BY <1>8
  <2> QED BY <1>1, <1>2, <1>6, <1>7, <1>9, <1>10, <1>11, <2>1, <2>2, <2>3, WorkingSound
<1> QED BY <1>2, <1>12, OneSound DEF r

(* LeaveQueue's lock of the entry, with the update of a waiting one, keeps *)
(* the invariant.                                                          *)
LEMMA LeaveLocksEntrySound ==
    ASSUME TxInv, NEW s \in Sessions, LeaveLocksEntry(s)
    PROVE  TxInv'
<1> DEFINE t == tx[s]
           r == tx'[s]
           e == t.e
           es == MarkEntryStatus(entries, e, "WAITING", "CANCELLED")
<1>1. /\ LockInv /\ LockInv' /\ t # None /\ t.at = "entry" /\ t.op = "leave"
      /\ Good(entries, grants, units) /\ t.at \in Reading
  BY TxGood, LeaveLocksEntryKeeps DEF LeaveLocksEntry, At, Reading
<1>2. e \in DOMAIN entries
  BY <1>1 DEF LockInv, Legal, Knows
<1>3. CASE /\ entries[e].status = "WAITING"
           /\ Do(s, "commit", {<<"entry", e>>}, es, grants, units, {})
  <2>1. r.op = "leave" /\ r.e = e /\ r.at = "commit"
    BY <1>1, <1>3, DoAll DEF SameWork
  <2>2. ~HasRight(r, entries) /\ ~HasRight(t, entries) /\ ~Promotes(t, entries) /\ ~Sells(t)
    BY <1>1, <1>3, <2>1 DEF HasRight, Promotes, Sells
  <2>3. es = BaseEntries(r, entries)
    <3>1. OwnEntry(r, entries) = Row(e, [user |-> entries[e].user, status |-> "CANCELLED"])
      BY <2>1 DEF OwnEntry, EntryTo
    <3>2. es = Over(Row(e, [user |-> entries[e].user, status |-> "CANCELLED"]), entries)
      BY <1>1, <1>2, <1>3, MarkedRow DEF Good, Consistent
    <3> QED BY <3>1, <3>2 DEF BaseEntries
  <2>4. DOMAIN OwnGrant(r, entries, grants) = {} /\ DOMAIN OwnUnit(r, entries, grants) = {}
        /\ OwnSaid(r, entries) = {}
    BY <2>2 DEF OwnGrant, OwnUnit, OwnSaid
  <2>5. grants = BaseGrants(r, entries, grants) /\ units = BaseUnits(r, entries, grants, units)
    <3>1. IsTable(grants) /\ IsTable(units)
      BY <1>1 DEF Good, Consistent, UnitsOK, IsTable
    <3> QED BY <2>4, <3>1, OverEmpty DEF BaseGrants, BaseUnits
  <2>6. "commit" \in Working
    BY DEF Working
  <2> HIDE DEF es
  <2> QED BY <1>1, <1>3, <2>2, <2>3, <2>4, <2>5, <2>6, FirstWriteSound
<1>4. CASE entries[e].status = "GRANTED" /\ Lock(s, "grant", <<"entry", e>>)
  BY <1>1, <1>4, LeaveLocksGranted DEF At
<1>5. CASE End(s)
  BY <1>5, EndSound
<1> QED BY <1>3, <1>4, <1>5 DEF LeaveLocksEntry

(* The rows of a right that is released, paid for or taken to the checkout,*)
(* as the statements write them.                                           *)
LEMMA RightWritten ==
    ASSUME NEW es, NEW gs, NEW us, Good(es, gs, us), NEW r, Ready(r, es, gs),
           HasRight(r, es), NEW e, e = r.e,
           NEW from, from = IF r.op = "pay" THEN "CHECKOUT_PENDING" ELSE "GRANTED",
           NEW gfrom, gfrom = IF r.op = "pay" THEN "CHECKOUT_PENDING" ELSE "ACTIVE"
    PROVE  /\ r.op # "leave" \/ r.at = "commit" =>
                 MarkEntryStatus(es, e, from, EntryTo(r)) = BaseEntries(r, es)
           /\ r.op = "leave" /\ r.at # "commit" => es = BaseEntries(r, es)
           /\ UpdateGrantStatus(gs, e, gfrom, GrantTo(r)) = BaseGrants(r, es, gs)
           /\ r.op = "checkout" => us = BaseUnits(r, es, gs, us)
           /\ r.op # "checkout" /\ ~Sells(r) =>
                 MarkUnitAvailable(us, gs[e].unit) = BaseUnits(r, es, gs, us)
           /\ Sells(r) => MarkUnitSold(us, gs[e].unit) = BaseUnits(r, es, gs, us)
           /\ \A u \in DOMAIN OwnUnit(r, es, gs) : u = gs[e].unit /\ r.op # "checkout"
           /\ OwnSaid(r, es) = {e}
<1>1. /\ e \in DOMAIN gs /\ e \in DOMAIN es /\ es[e].status = from /\ gs[e].status = gfrom
      /\ gs[e].unit \in Units /\ us[gs[e].unit].status = "RESERVED"
      /\ us[gs[e].unit].grant = e
      /\ r.op # "join"
  BY RightFits DEF HasRight
<1>2. EntriesOK(es) /\ GrantsOK(es, gs) /\ UnitsOK(us) /\ IsTable(es) /\ IsTable(gs)
      /\ IsTable(us)
  BY DEF Good, Consistent, UnitsOK, IsTable
<1>3. ASSUME r.op # "leave" \/ r.at = "commit"
      PROVE  MarkEntryStatus(es, e, from, EntryTo(r)) = BaseEntries(r, es)
  <2>1. OwnEntry(r, es) = Row(e, [user |-> es[e].user, status |-> EntryTo(r)])
    BY <1>1, <1>3 DEF OwnEntry
  <2>2. MarkEntryStatus(es, e, from, EntryTo(r))
           = Over(Row(e, [user |-> es[e].user, status |-> EntryTo(r)]), es)
    BY <1>1, <1>2, MarkedRow
  <2> QED BY <2>1, <2>2 DEF BaseEntries
<1>4. ASSUME r.op = "leave", r.at # "commit"
      PROVE  es = BaseEntries(r, es)
  <2>1. DOMAIN OwnEntry(r, es) = {}
    BY <1>4 DEF OwnEntry
  <2> QED BY <1>2, <2>1, OverEmpty DEF BaseEntries
<1>5. UpdateGrantStatus(gs, e, gfrom, GrantTo(r)) = BaseGrants(r, es, gs)
  <2>1. OwnGrant(r, es, gs)
           = Row(e, [unit |-> gs[e].unit, status |-> GrantTo(r), left |-> 0, age |-> 0])
    BY DEF OwnGrant
  <2>2. UpdateGrantStatus(gs, e, gfrom, GrantTo(r))
          = Over(Row(e, [unit |-> gs[e].unit, status |-> GrantTo(r), left |-> 0, age |-> 0]), gs)
    BY <1>1, <1>2, UpdatedRow
  <2> QED BY <2>1, <2>2 DEF BaseGrants
<1>6. ASSUME r.op = "checkout" PROVE us = BaseUnits(r, es, gs, us)
  <2>1. DOMAIN OwnUnit(r, es, gs) = {}
    BY <1>6 DEF OwnUnit
  <2> QED BY <1>2, <2>1, OverEmpty DEF BaseUnits
<1>7. /\ MarkUnitAvailable(us, gs[e].unit)
            = Over(Row(gs[e].unit, [status |-> "AVAILABLE", grant |-> None]), us)
      /\ MarkUnitSold(us, gs[e].unit)
            = Over(Row(gs[e].unit, [status |-> "SOLD", grant |-> us[gs[e].unit].grant]), us)
  BY <1>1, <1>2, MarkedUnit
<1>8. ASSUME r.op # "checkout", ~Sells(r)
      PROVE  MarkUnitAvailable(us, gs[e].unit) = BaseUnits(r, es, gs, us)
  BY <1>7, <1>8 DEF BaseUnits, OwnUnit
<1>9. ASSUME Sells(r)
      PROVE  MarkUnitSold(us, gs[e].unit) = BaseUnits(r, es, gs, us)
  BY <1>1, <1>7, <1>9 DEF BaseUnits, OwnUnit, Sells
<1>10. \A u \in DOMAIN OwnUnit(r, es, gs) : u = gs[e].unit /\ r.op # "checkout"
  BY OwnRowsAre
<1>11. OwnSaid(r, es) = {e}
  BY DEF OwnSaid
<1> QED BY <1>3, <1>4, <1>5, <1>6, <1>8, <1>9, <1>10, <1>11

(* A transaction that writes for the first time fits the tables. *)
LEMMA MovedReady ==
    ASSUME TxInv, NEW s \in Sessions, tx[s] # None, tx[s].op # "join",
           NEW next, NEW rows, NEW es, NEW gs, NEW us, NEW said,
           Do(s, next, rows, es, gs, us, said),
           tx[s].op = "leave" => \/ entries[tx[s].e].status = "GRANTED"
                                 \/ entries[tx[s].e].status = "WAITING" /\ next = "commit",
           HasRight(tx[s], entries) => GrantFits(tx[s], grants)
    PROVE  /\ Ready(tx'[s], entries, grants)
           /\ tx'[s].op = tx[s].op /\ tx'[s].e = tx[s].e /\ tx'[s].at = next
           /\ tx'[s].result = tx[s].result
           /\ HasRight(tx'[s], entries) <=> HasRight(tx[s], entries)
<1>1. /\ LockInv /\ Good(entries, grants, units) /\ TypeOK /\ Legal(tx[s])
  BY TxGood DEF LockInv
<1>2. SameWork(tx[s], tx'[s]) /\ tx'[s].at = next
  BY <1>1, DoAll
<1>3. /\ tx[s].op \in {"leave", "checkout", "pay", "expire"}
      /\ tx[s].e \in DOMAIN entries /\ tx[s].e \in EntryIds
  <2>2. tx[s].op \in {"leave", "checkout", "pay", "expire"}
    BY <1>1 DEF Legal, FollowsPlan
  <2>3. tx[s].e \in DOMAIN entries
    BY <1>1, <2>2 DEF Legal, Knows, TypeOK, GrantsOK
  <2> QED BY <1>1, <2>2, <2>3 DEF TypeOK, EntriesOK
<1>4. HasRight(tx'[s], entries) <=> HasRight(tx[s], entries)
  BY <1>2 DEF SameWork, HasRight
<1>5. GrantFits(tx'[s], grants) <=> GrantFits(tx[s], grants)
  BY <1>2 DEF SameWork, GrantFits
<1> QED BY <1>2, <1>3, <1>4, <1>5 DEF Ready, SameWork

(* StartCheckout's lock and updates keep the invariant. *)
LEMMA CheckoutLocksEntrySound ==
    ASSUME TxInv, NEW s \in Sessions, CheckoutLocksEntry(s)
    PROVE  TxInv'
<1> DEFINE t == tx[s]
           r == tx'[s]
           e == t.e
           es == MarkEntryStatus(entries, e, "GRANTED", "CHECKOUT_PENDING")
           gs == UpdateGrantStatus(grants, e, "ACTIVE", "CHECKOUT_PENDING")
<1>1. /\ LockInv /\ LockInv' /\ t # None /\ t.at = "entry" /\ t.op = "checkout"
      /\ Good(entries, grants, units) /\ t.at \in Reading
      /\ Found(t, nextTicket, entries, grants, units, attempts)
  BY TxGood, CheckoutLocksEntryKeeps, SeesCommitted DEF CheckoutLocksEntry, At, Reading
<1>2. HasRight(t, entries) /\ ~Promotes(t, entries) /\ ~Sells(t)
  BY <1>1 DEF HasRight, Promotes, Sells
<1>3. <<"grant", e>> \in t.locks /\ GrantFits(t, grants)
  BY <1>1, <1>2 DEF Found
<1>4. CASE Do(s, "commit", {<<"entry", e>>}, es, gs, units, {e})
  <2>1. /\ Ready(r, entries, grants) /\ r.op = "checkout" /\ r.e = e /\ r.at = "commit"
        /\ HasRight(r, entries)
    BY <1>1, <1>2, <1>3, <1>4, MovedReady
  <2>2. /\ EntryTo(r) = "CHECKOUT_PENDING" /\ GrantTo(r) = "CHECKOUT_PENDING"
    BY <2>1 DEF EntryTo, GrantTo
  <2>3. /\ es = BaseEntries(r, entries) /\ gs = BaseGrants(r, entries, grants)
        /\ units = BaseUnits(r, entries, grants, units) /\ OwnSaid(r, entries) = {e}
        /\ \A u \in DOMAIN OwnUnit(r, entries, grants) : FALSE
    BY <1>1, <2>1, <2>2, RightWritten
  <2>4. "commit" \in Working
    BY DEF Working
  <2> HIDE DEF es, gs
  <2> QED BY <1>1, <1>2, <1>3, <1>4, <2>3, <2>4, FirstWriteSound
<1>5. CASE End(s)
  BY <1>5, EndSound
<1> QED BY <1>4, <1>5 DEF CheckoutLocksEntry

(* LockGrant keeps the invariant, with the release that follows in         *)
(* LeaveQueue.                                                             *)
LEMMA ReleaseSound ==
    ASSUME TxInv, NEW s \in Sessions, LockGrant(s)
    PROVE  TxInv'
<1> DEFINE t == tx[s]
           r == tx'[s]
           e == t.e
           gs == UpdateGrantStatus(grants, e, "ACTIVE", "CANCELLED")
           us == MarkUnitAvailable(units, grants[e].unit)
           rows == {<<"grant", e>>, <<"unit", grants[e].unit>>}
<1>1. /\ LockInv /\ LockInv' /\ t # None /\ t.at = "grant"
      /\ Good(entries, grants, units) /\ t.at \in Reading
      /\ SeenEntries(s) = entries
  BY TxGood, LockGrantKeeps, SeesCommitted DEF LockGrant, At, Reading
<1>2. CASE End(s)
  BY <1>2, EndSound
<1>3. CASE GrantAllows(s) /\ t.op # "leave"
  BY <1>1, <1>3, LockGrantSound DEF LockGrant, End, At
<1>4. CASE /\ GrantAllows(s) /\ t.op = "leave"
           /\ Do(s, "promote", rows, SeenEntries(s), gs, us, {e})
  <2>1. /\ e \in DOMAIN grants /\ e \in DOMAIN entries
        /\ <<"entry", e>> \in t.locks
    BY <1>1, <1>4 DEF LockInv, Legal, Knows, FollowsPlan, ProductPlan, EntryRow
  <2>2. GrantFits(t, grants)
    BY <1>4, <2>1 DEF GrantAllows, GrantFits
  <2>3. entries[e].status = "GRANTED"
    <3>1. grants[e].status = "ACTIVE"
      BY <1>4, <2>2 DEF GrantFits
    <3> QED BY <1>1, <2>1, <3>1, HeldRight DEF Good, LiveGrant
  <2>4. HasRight(t, entries) /\ Promotes(t, entries) /\ ~Sells(t)
    BY <1>4, <2>3 DEF HasRight, Promotes, Sells
  <2>5. /\ Ready(r, entries, grants) /\ r.op = "leave" /\ r.e = e /\ r.at = "promote"
        /\ HasRight(r, entries)
    BY <1>1, <1>4, <2>2, <2>3, <2>4, MovedReady
  <2>6. GrantTo(r) = "CANCELLED" /\ ~Sells(r)
    BY <2>5 DEF GrantTo, Sells
  <2>7. /\ entries = BaseEntries(r, entries) /\ gs = BaseGrants(r, entries, grants)
        /\ us = BaseUnits(r, entries, grants, units) /\ OwnSaid(r, entries) = {e}
        /\ \A u \in DOMAIN OwnUnit(r, entries, grants) : u = grants[e].unit
    BY <1>1, <2>5, <2>6, RightWritten
  <2>8. "promote" \in Working
    BY DEF Working
  <2>9. Do(s, "promote", rows, entries, gs, us, {e})
    BY <1>1, <1>4
  <2>10. /\ <<"grant", e>> \in t.locks \cup rows /\ <<"entry", e>> \in t.locks \cup rows
         /\ \A u \in DOMAIN OwnUnit(r, entries, grants) : <<"unit", u>> \in rows
    BY <2>1, <2>7
  <2> HIDE DEF gs, us, rows
  <2> QED BY <1>1, <1>4, <2>2, <2>3, <2>4, <2>7, <2>8, <2>9, <2>10, FirstWriteSound
<1> QED BY <1>1, <1>2, <1>3, <1>4 DEF LockGrant

(* Settle keeps the invariant, for each operation that settles. *)
LEMMA SettleSound ==
    ASSUME TxInv, NEW s \in Sessions, Settle(s)
    PROVE  TxInv'
<1> DEFINE t == tx[s]
           r == tx'[s]
           e == t.e
           rows == {<<"entry", e>>, <<"unit", grants[e].unit>>}
<1>1. /\ LockInv /\ LockInv' /\ t # None /\ t.at = "settle"
      /\ Good(entries, grants, units) /\ t.at \in Reading
      /\ Found(t, nextTicket, entries, grants, units, attempts)
  BY TxGood, SettleKeeps, SeesCommitted DEF Settle, At, Reading
<1>2. t.op \in {"pay", "expire"}
  BY <1>1 DEF LockInv, Legal, FollowsPlan, CheckoutPlan, ProductPlan
<1>3. HasRight(t, entries) /\ (Promotes(t, entries) <=> ~Sells(t))
  BY <1>2 DEF HasRight, Promotes
<1>4. <<"grant", e>> \in t.locks /\ GrantFits(t, grants)
  BY <1>1, <1>3 DEF Found
<1>5. ASSUME NEW next \in Working, NEW from, NEW to, NEW gfrom, NEW gto, NEW us,
             Do(s, next, rows, MarkEntryStatus(entries, e, from, to),
                UpdateGrantStatus(grants, e, gfrom, gto), us, {e}),
             from = IF t.op = "pay" THEN "CHECKOUT_PENDING" ELSE "GRANTED",
             gfrom = IF t.op = "pay" THEN "CHECKOUT_PENDING" ELSE "ACTIVE",
             to = EntryTo(t), gto = GrantTo(t),
             us = IF Sells(t) THEN MarkUnitSold(units, grants[e].unit)
                  ELSE MarkUnitAvailable(units, grants[e].unit),
             next = IF Sells(t) THEN "close" ELSE "promote"
      PROVE  TxInv'
  <2>1. /\ Ready(r, entries, grants) /\ r.op = t.op /\ r.e = e /\ r.at = next
        /\ r.result = t.result /\ HasRight(r, entries)
    BY <1>1, <1>2, <1>3, <1>4, <1>5, MovedReady
  <2>2. (Sells(r) <=> Sells(t)) /\ EntryTo(r) = to /\ GrantTo(r) = gto
    BY <1>5, <2>1 DEF EntryTo, GrantTo, Sells
  <2>3. /\ MarkEntryStatus(entries, e, from, to) = BaseEntries(r, entries)
        /\ UpdateGrantStatus(grants, e, gfrom, gto) = BaseGrants(r, entries, grants)
        /\ us = BaseUnits(r, entries, grants, units) /\ OwnSaid(r, entries) = {e}
        /\ \A u \in DOMAIN OwnUnit(r, entries, grants) : u = grants[e].unit
    BY <1>1, <1>2, <1>5, <2>1, <2>2, RightWritten
  <2>4. /\ <<"grant", e>> \in t.locks \cup rows /\ <<"entry", e>> \in t.locks \cup rows
        /\ \A u \in DOMAIN OwnUnit(r, entries, grants) : <<"unit", u>> \in rows
    BY <1>4, <2>3
  <2>5. (next = "promote" <=> Promotes(t, entries)) /\ (next = "close" <=> Sells(t))
    BY <1>3, <1>5
  <2> HIDE DEF rows
  <2> QED BY <1>1, <1>2, <1>4, <1>5, <2>3, <2>4, <2>5, FirstWriteSound
<1>6. "promote" \in Working /\ "close" \in Working
  BY DEF Working
<1>7. CASE t.op = "expire"
  <2>1. /\ EntryTo(t) = "EXPIRED" /\ GrantTo(t) = "EXPIRED" /\ ~Sells(t)
    BY <1>7 DEF EntryTo, GrantTo, Sells
  <2>2. Do(s, "promote", rows, MarkEntryStatus(entries, e, "GRANTED", "EXPIRED"),
           UpdateGrantStatus(grants, e, "ACTIVE", "EXPIRED"),
           MarkUnitAvailable(units, grants[e].unit), {e})
    BY <1>7 DEF Settle
  <2> HIDE DEF rows
  <2> QED BY <1>5, <1>6, <1>7, <2>1, <2>2
<1>8. CASE t.op = "pay" /\ t.result = "success"
  <2>1. /\ EntryTo(t) = "PURCHASED" /\ GrantTo(t) = "PURCHASED" /\ Sells(t)
    BY <1>8 DEF EntryTo, GrantTo, Sells
  <2>2. Do(s, "close", rows, MarkEntryStatus(entries, e, "CHECKOUT_PENDING", "PURCHASED"),
           UpdateGrantStatus(grants, e, "CHECKOUT_PENDING", "PURCHASED"),
           MarkUnitSold(units, grants[e].unit), {e})
    BY <1>8 DEF Settle
  <2> HIDE DEF rows
  <2> QED BY <1>5, <1>6, <1>8, <2>1, <2>2
<1>9. CASE t.op = "pay" /\ t.result # "success"
  <2>1. /\ EntryTo(t) = "PAYMENT_FAILED" /\ GrantTo(t) = "FAILED" /\ ~Sells(t)
    BY <1>9 DEF EntryTo, GrantTo, Sells
  <2>2. Do(s, "promote", rows,
           MarkEntryStatus(entries, e, "CHECKOUT_PENDING", "PAYMENT_FAILED"),
           UpdateGrantStatus(grants, e, "CHECKOUT_PENDING", "FAILED"),
           MarkUnitAvailable(units, grants[e].unit), {e})
    BY <1>9 DEF Settle
  <2> HIDE DEF rows
  <2> QED BY <1>5, <1>6, <1>9, <2>1, <2>2
<1> QED BY <1>2, <1>7, <1>8, <1>9

(* JoinQueue's checks and insert keep the invariant. *)
LEMMA InsertSound ==
    ASSUME TxInv, NEW s \in Sessions, Insert(s)
    PROVE  TxInv'
<1> DEFINE t == tx[s]
           p == t.e[1]
           e == <<p, nextTicket[p]>>
           row == [user |-> t.user, status |-> "WAITING"]
           r == [t EXCEPT !.at = "promote", !.e = e, !.locks = @ \cup {<<"entry", e>>},
                          !.nextTicket = Row(p, nextTicket[p] + 1), !.entries = Row(e, row)]
<1>1. /\ LockInv /\ LockInv' /\ t # None /\ t.at = "insert" /\ TypeOK /\ TicketsFresh
      /\ Good(entries, grants, units) /\ t.at \in Reading
      /\ Found(t, nextTicket, entries, grants, units, attempts)
      /\ t.said = {} /\ DOMAIN t.units = {} /\ t.at \notin Working
  BY TxGood, InsertKeeps, SeesCommitted DEF Insert, At, Reading
<1>2. /\ t.op = "join" /\ t.user \in Users /\ p \in Products /\ DOMAIN t.grants = {}
      /\ t = [f \in Fields |-> t[f]] /\ tx = [q \in Sessions |-> tx[q]]
  <2>1. Legal(t)
    BY <1>1 DEF LockInv
  <2>2. t.op = "join"
    BY <1>1, <2>1 DEF Legal, FollowsPlan, CheckoutPlan, ProductPlan
  <2> QED BY <1>1, <2>1, <2>2 DEF Legal, Knows, Writes, LockInv
<1>3. CASE End(s)
  BY <1>3, EndSound
<1>4. CASE /\ ProductStatus[p] = "ACTIVE" /\ QueueEnabled[p]
           /\ ~AllSold(units, p) /\ Active(entries, t.user, p) = {}
           /\ ~(nextTicket[p] > MaxTicket)
           /\ tx' = [tx EXCEPT ![s] = r] /\ UNCHANGED vars
  <2>1. /\ nextTicket[p] \in 1 .. MaxTicket /\ nextTicket[p] <= MaxTicket
        /\ e \in EntryIds /\ e \notin DOMAIN entries
    <3>1. nextTicket[p] \in 1 .. MaxTicket + 1
      BY <1>1, <1>2 DEF TypeOK
    <3>2. nextTicket[p] \in 1 .. MaxTicket /\ nextTicket[p] <= MaxTicket
      BY <1>4, <3>1, ConstantsAssumption
    <3> QED BY <1>1, <1>2, <3>2 DEF TicketsFresh, EntryIds
  <2>2. /\ r.at = "promote" /\ r.e = e
        /\ \A x : x \in r.locks <=> x \in t.locks \/ x = <<"entry", e>>
        /\ r.nextTicket = Row(p, nextTicket[p] + 1) /\ r.entries = Row(e, row)
        /\ r.op = t.op /\ r.user = t.user /\ r.lag = t.lag /\ r.attempts = t.attempts
        /\ r.grants = t.grants /\ r.units = t.units /\ r.said = t.said
    BY <1>2 DEF Fields
  <2> HIDE DEF r
  <2>3. tx'[s] = r
    BY <1>2, <1>4
  <2>4. e[1] = p
    OBVIOUS
  <2> HIDE DEF e
  <2>5. /\ ~HasRight(r, entries) /\ Promotes(r, entries) /\ ~Sells(r) /\ ~Records(r)
        /\ ~Records(t) /\ EntryTo(r) = "WAITING"
    BY <1>2, <2>2 DEF HasRight, Promotes, Sells, Records, EntryTo
  <2>6. Ready(r, entries, grants)
    BY <1>2, <2>1, <2>2, <2>5 DEF Ready
  <2>7. /\ OwnEntry(r, entries) = Row(e, row) /\ DOMAIN OwnGrant(r, entries, grants) = {}
        /\ DOMAIN OwnUnit(r, entries, grants) = {} /\ OwnSaid(r, entries) = {}
        /\ ClosedBy(r, entries, grants, units) = {}
    <3>1. OwnEntry(r, entries) = Row(e, row)
      BY <1>2, <2>2, <2>5 DEF OwnEntry
    <3> HIDE DEF row
    <3> QED BY <2>5, <3>1 DEF OwnGrant, OwnUnit, OwnSaid, ClosedBy
  <2> HIDE DEF row
  <2>8. Found(r, nextTicket, entries, grants, units, attempts)
    <3>1. MayJoin(r, nextTicket, entries, units)
      BY <1>4, <2>1, <2>2, <2>4 DEF MayJoin, e
    <3> QED BY <1>1, <1>2, <2>2, <2>5, <3>1 DEF Found, Working
  <2>9. Turned(r, {}, entries, grants, units)
    BY <2>2 DEF Turned
  <2>10. Sees(r, {}, entries, grants, units)
    <3>1. /\ WillEntries(r, {}, entries, grants, units) = BaseEntries(r, entries)
          /\ WillGrants(r, {}, entries, grants) = BaseGrants(r, entries, grants)
          /\ WillUnits(r, {}, entries, grants, units) = BaseUnits(r, entries, grants, units)
      BY <1>1, <2>6, <2>7, NothingPromoted
    <3>2. Over(r.entries, entries) = BaseEntries(r, entries)
      BY <2>2, <2>7 DEF BaseEntries
    <3>3. IsTable(grants) /\ IsTable(units)
      BY <1>1 DEF Good, Consistent, UnitsOK, IsTable
    <3>4. /\ Over(r.grants, grants) = BaseGrants(r, entries, grants)
          /\ Over(r.units, units) = BaseUnits(r, entries, grants, units)
      BY <1>1, <1>2, <2>2, <2>7, <3>3, OverEmpty DEF BaseGrants, BaseUnits
    <3>5. Firsts({}) = {}
      BY DEF Firsts
    <3> QED BY <1>1, <1>2, <2>2, <2>7, <3>1, <3>2, <3>4, <3>5
            DEF Sees, WillEntries, WillGrants, WillUnits
  <2>11. Sound(r, nextTicket, entries, grants, units, attempts)
    <3>1. r.at \in Working /\ r.at \notin Reading /\ r.at # "close"
      BY <2>2 DEF Working, Reading
    <3>2. DOMAIN r.units = {}
      BY <1>1, <2>2
    <3>3. \E M \in SUBSET PairsOf(r, entries, grants, units) :
            Turned(r, M, entries, grants, units) /\ Sees(r, M, entries, grants, units)
      BY <2>9, <2>10
    <3>4. <<"entry", r.e>> \in r.locks /\ r.op # "leave"
      BY <1>2, <2>2
    <3> QED BY <2>5, <2>7, <2>8, <3>1, <3>2, <3>3, <3>4 DEF Sound
  <2> QED BY <1>1, <1>4, <2>3, <2>11, OneSound
<1> QED BY <1>3, <1>4 DEF Insert

(* A transaction at work, and what its tables are.                         *)
LEMMA AtWork ==
    ASSUME TxInv, NEW s \in Sessions, tx[s] # None, tx[s].at \in Working
    PROVE  /\ Ready(tx[s], entries, grants) /\ Good(entries, grants, units)
           /\ Found(tx[s], nextTicket, entries, grants, units, attempts)
           /\ <<"entry", tx[s].e>> \in tx[s].locks
           /\ tx[s].at = "promote" => Promotes(tx[s], entries)
           /\ tx[s].at = "close" => Sells(tx[s])
           /\ tx[s].op = "leave" => \/ entries[tx[s].e].status = "GRANTED"
                                    \/ /\ entries[tx[s].e].status = "WAITING"
                                       /\ tx[s].at = "commit"
           /\ \A u \in DOMAIN OwnUnit(tx[s], entries, grants) : <<"unit", u>> \in tx[s].locks
           /\ \A e \in ClosedBy(tx[s], entries, grants, units) : <<"entry", e>> \in tx[s].locks
           /\ \E M \in SUBSET PairsOf(tx[s], entries, grants, units) :
                 /\ Turned(tx[s], M, entries, grants, units)
                 /\ SeenEntries(s) = WillEntries(tx[s], M, entries, grants, units)
                 /\ SeenGrants(s) = WillGrants(tx[s], M, entries, grants)
                 /\ SeenUnits(s) = WillUnits(tx[s], M, entries, grants, units)
                 /\ tx[s].said = WillSay(tx[s], M, entries, grants, units)
                 /\ Sees(tx[s], M, entries, grants, units)
<1>1. Sound(tx[s], nextTicket, entries, grants, units, attempts)
  BY DEF TxInv
<1>2. Ready(tx[s], entries, grants) /\ Good(entries, grants, units)
  BY TxGood, TxReady
<1>3. PICK M \in SUBSET PairsOf(tx[s], entries, grants, units) :
         Turned(tx[s], M, entries, grants, units) /\ Sees(tx[s], M, entries, grants, units)
  BY <1>1 DEF Sound
<1>4. /\ SeenEntries(s) = WillEntries(tx[s], M, entries, grants, units)
      /\ SeenGrants(s) = WillGrants(tx[s], M, entries, grants)
      /\ SeenUnits(s) = WillUnits(tx[s], M, entries, grants, units)
      /\ tx[s].said = WillSay(tx[s], M, entries, grants, units)
  BY <1>3 DEF Sees, SeenEntries, SeenGrants, SeenUnits, WillEntries, WillGrants, WillUnits,
              WillSay
<1>5. \E N \in SUBSET PairsOf(tx[s], entries, grants, units) :
                 /\ Turned(tx[s], N, entries, grants, units)
                 /\ SeenEntries(s) = WillEntries(tx[s], N, entries, grants, units)
                 /\ SeenGrants(s) = WillGrants(tx[s], N, entries, grants)
                 /\ SeenUnits(s) = WillUnits(tx[s], N, entries, grants, units)
                 /\ tx[s].said = WillSay(tx[s], N, entries, grants, units)
                 /\ Sees(tx[s], N, entries, grants, units)
  BY <1>3, <1>4
<1> QED BY <1>1, <1>2, <1>5 DEF Sound

(* Closing a line that nobody waits in changes nothing. *)
LEMMA ClosedNobody ==
    ASSUME NEW es, IsTable(es)
    PROVE  ClosedEntries(es, {}) = es
<1>1. ClosedEntries(es, {}) = [x \in DOMAIN es |-> es[x]]
  BY DEF ClosedEntries
<1> QED BY <1>1 DEF IsTable

(* A statement of a transaction at work that leaves in its rows what they  *)
(* should be leaves it sound.                                              *)
LEMMA NextWorkSound ==
    ASSUME TxInv, LockInv', NEW s \in Sessions, tx[s] # None, tx[s].at \in Working \ {"commit"},
           NEW next \in Working, next = "promote" => Promotes(tx[s], entries),
           next = "close" => Sells(tx[s]),
           NEW rows, NEW es, NEW gs, NEW us, NEW said,
           Do(s, next, rows, es, gs, us, said),
           NEW M, Turned(tx'[s], M, entries, grants, units),
           es = WillEntries(tx'[s], M, entries, grants, units),
           gs = WillGrants(tx'[s], M, entries, grants),
           us = WillUnits(tx'[s], M, entries, grants, units),
           \A x : x \in WillSay(tx'[s], M, entries, grants, units)
                     <=> x \in tx[s].said \/ x \in said,
           \A e \in ClosedBy(tx'[s], entries, grants, units) : <<"entry", e>> \in rows
    PROVE  TxInv'
<1> DEFINE t == tx[s]
           r == tx'[s]
<1>1. /\ LockInv /\ Good(entries, grants, units) /\ Ready(t, entries, grants)
      /\ Found(t, nextTicket, entries, grants, units, attempts)
      /\ <<"entry", t.e>> \in t.locks
      /\ t.op = "leave" => entries[t.e].status = "GRANTED"
      /\ \A u \in DOMAIN OwnUnit(t, entries, grants) : <<"unit", u>> \in t.locks
  BY AtWork DEF TxInv
<1>2. /\ tx' = [tx EXCEPT ![s] = r] /\ UNCHANGED vars
      /\ SameWork(t, r) /\ r.at = next
      /\ \A x : x \in r.locks <=> x \in t.locks \/ x \in rows
      /\ \A x : x \in r.said <=> x \in t.said \/ x \in said
      /\ r.entries = Written(es, entries)
      /\ r.grants = Written(gs, grants)
      /\ r.units = Written(us, units)
  BY <1>1, DoAll
<1>3. t.at \in Working /\ r.at \in Working
  BY <1>2
<1> HIDE DEF t, r
<1>4. /\ HasRight(r, entries) <=> HasRight(t, entries)
      /\ Promotes(r, entries) <=> Promotes(t, entries)
      /\ Sells(r) <=> Sells(t)
      /\ GrantFits(r, grants) <=> GrantFits(t, grants)
  BY <1>2 DEF SameWork, HasRight, Promotes, Sells, GrantFits
<1>5. Ready(r, entries, grants)
  BY <1>1, <1>2, <1>4 DEF Ready, SameWork
<1>6. Found(r, nextTicket, entries, grants, units, attempts)
  <2>1. Records(r) <=> Records(t)
    BY <1>2, <1>3 DEF Records, SameWork
  <2>2. HasRight(t, entries) => <<"grant", t.e>> \in r.locks /\ GrantFits(t, grants)
    BY <1>1, <1>2, <1>3 DEF Found
  <2> QED BY <1>1, <1>2, <1>3, <2>1, <2>2, SameFound
<1>7. OwnUnit(r, entries, grants) = OwnUnit(t, entries, grants)
  BY <1>2, <1>4 DEF OwnUnit, SameWork
<1>8. r.said = WillSay(r, M, entries, grants, units)
  BY <1>2 DEF t, r
<1>9. Sound(r, nextTicket, entries, grants, units, attempts)
  <2>1. /\ (r.at = "promote" => Promotes(r, entries)) /\ (r.at = "close" => Sells(r))
        /\ <<"entry", r.e>> \in r.locks
    BY <1>1, <1>2, <1>4 DEF t, SameWork
  <2>2. \A u \in DOMAIN OwnUnit(r, entries, grants) : <<"unit", u>> \in r.locks
    BY <1>1, <1>2, <1>7
  <2>3. \A e \in ClosedBy(r, entries, grants, units) : <<"entry", e>> \in r.locks
    BY <1>2 DEF r
  <2>4. /\ r.entries = Written(WillEntries(r, M, entries, grants, units), entries)
        /\ r.grants = Written(WillGrants(r, M, entries, grants), grants)
        /\ r.units = Written(WillUnits(r, M, entries, grants, units), units)
        /\ Turned(r, M, entries, grants, units)
    BY <1>2 DEF r
  <2> QED BY <1>1, <1>3, <1>5, <1>6, <1>8, <2>1, <2>2, <2>3, <2>4, WorkingSound
<1> QED BY <1>2, <1>9, OneSound DEF r

(* Close keeps the invariant: it turns away the line the sale leaves. *)
LEMMA CloseSound ==
    ASSUME TxInv, NEW s \in Sessions, Close(s)
    PROVE  TxInv'
<1> DEFINE t == tx[s]
           r == tx'[s]
           B == BaseEntries(t, entries)
           BU == BaseUnits(t, entries, grants, units)
           closed == IF AllSold(SeenUnits(s), t.e[1]) THEN Waiting(SeenEntries(s), t.e[1]) ELSE {}
           rows == {<<"entry", e>> : e \in closed}
<1>1. /\ LockInv' /\ LockInv /\ t # None /\ t.at = "close" /\ t.at \in Working \ {"commit"}
      /\ t.at \in Working
  BY CloseKeeps DEF Close, At, Working, TxInv
<1>2. /\ Good(entries, grants, units) /\ Ready(t, entries, grants) /\ Sells(t)
  BY <1>1, AtWork
<1>3. PICK M \in SUBSET PairsOf(t, entries, grants, units) :
                 /\ Turned(t, M, entries, grants, units)
                 /\ SeenEntries(s) = WillEntries(t, M, entries, grants, units)
                 /\ SeenGrants(s) = WillGrants(t, M, entries, grants)
                 /\ SeenUnits(s) = WillUnits(t, M, entries, grants, units)
                 /\ t.said = WillSay(t, M, entries, grants, units)
  BY <1>1, AtWork
<1>4. M = {} /\ t.op # "leave" /\ ~Promotes(t, entries)
  <2>1. ~Promotes(t, entries) /\ t.op # "leave"
    BY <1>2 DEF Promotes, Sells
  <2> QED BY <1>1, <1>3, <2>1 DEF Turned
<1>5. ClosedBy(t, entries, grants, units) = {}
  BY <1>1 DEF ClosedBy
<1>6. /\ SeenEntries(s) = B /\ SeenGrants(s) = BaseGrants(t, entries, grants)
      /\ SeenUnits(s) = BU
      /\ \A x : x \in t.said <=> x \in OwnSaid(t, entries)
  BY <1>2, <1>3, <1>4, <1>5, NothingPromoted
<1>7. Do(s, "commit", rows, ClosedEntries(B, closed), SeenGrants(s), SeenUnits(s), closed)
  BY <1>6 DEF Close, ClosedEntries
<1>8. r.op = t.op /\ r.e = t.e /\ r.user = t.user /\ r.result = t.result /\ r.at = "commit"
      /\ \A x : x \in r.locks <=> x \in t.locks \/ x \in rows
  BY <1>1, <1>7, DoAll DEF SameWork
<1> HIDE DEF rows, closed
<1>9. /\ Sells(r) /\ ~Promotes(r, entries) /\ BaseEntries(r, entries) = B
      /\ BaseGrants(r, entries, grants) = BaseGrants(t, entries, grants)
      /\ BaseUnits(r, entries, grants, units) = BU
      /\ OwnSaid(r, entries) = OwnSaid(t, entries)
      /\ Line(r, entries) = Line(t, entries)
  BY <1>2, <1>4, <1>8, SameRowsOwned
<1>10. closed = ClosedBy(r, entries, grants, units)
  BY <1>6, <1>8, <1>9 DEF closed, ClosedBy, Line
<1>11. /\ PromotedEntries(B, {}) = B
       /\ PromotedGrants(BaseGrants(t, entries, grants), {}, 0) = BaseGrants(t, entries, grants)
       /\ PromotedUnits(BU, {}) = BU
  <2>1. /\ IsTable(B) /\ IsTable(BaseGrants(t, entries, grants)) /\ IsTable(BU)
        /\ DOMAIN BU = Units
    BY <1>2, BaseTables
  <2> HIDE DEF B, BU
  <2> QED BY <2>1, PromotedNobody
<1>12. /\ ClosedEntries(B, closed) = WillEntries(r, {}, entries, grants, units)
       /\ SeenGrants(s) = WillGrants(r, {}, entries, grants)
       /\ SeenUnits(s) = WillUnits(r, {}, entries, grants, units)
  BY <1>6, <1>9, <1>10, <1>11 DEF WillEntries, WillGrants, WillUnits
<1>13. \A x : x \in WillSay(r, {}, entries, grants, units) <=> x \in t.said \/ x \in closed
  <2>1. Firsts({}) = {}
    BY DEF Firsts
  <2> QED BY <1>6, <1>9, <1>10, <2>1 DEF WillSay
<1>14. Turned(r, {}, entries, grants, units)
  BY <1>9 DEF Turned
<1>15. \A e \in ClosedBy(r, entries, grants, units) : <<"entry", e>> \in rows
  BY <1>10 DEF rows
<1>16. "commit" \in Working /\ "commit" # "promote" /\ "commit" # "close"
  BY DEF Working
<1> HIDE DEF B, BU
<1> QED BY <1>1, <1>7, <1>12, <1>13, <1>14, <1>15, <1>16, NextWorkSound

(* Who is still in line, and what is still in stock, after the pairs of M. *)
LEMMA SeenLine ==
    ASSUME NEW es, NEW gs, NEW us, Good(es, gs, us), NEW t, Ready(t, es, gs),
           NEW M, M \subseteq PairsOf(t, es, gs, us), ClosedBy(t, es, gs, us) = {}
    PROVE  /\ WillEntries(t, M, es, gs, us) = PromotedEntries(BaseEntries(t, es), M)
           /\ Waiting(WillEntries(t, M, es, gs, us), t.e[1]) = Line(t, es) \ Firsts(M)
           /\ Available(WillUnits(t, M, es, gs, us), t.e[1])
                 = Stock(t, es, gs, us) \ Seconds(M)
<1> DEFINE B == BaseEntries(t, es)
           E == PromotedEntries(B, M)
           BU == BaseUnits(t, es, gs, us)
           U == PromotedUnits(BU, M)
           p == t.e[1]
<1>1. OneEach(M) /\ EntriesOK(B) /\ \A m \in M : m[2] \in Units
  <2>1. OneEach(M) /\ \A m \in M : m[2] \in Stock(t, es, gs, us)
    BY PairsFit
  <2>2. \A u \in Stock(t, es, gs, us) : u \in Units
    BY LineAndStock
  <2>3. EntriesOK(B)
    BY BaseTables
  <2> QED BY <2>1, <2>2, <2>3
<1>2. /\ IsTable(E) /\ DOMAIN E = DOMAIN B
      /\ \A x \in DOMAIN B : E[x] =
            IF x \in Firsts(M) THEN [B[x] EXCEPT !.status = "GRANTED"] ELSE B[x]
  BY EntriesPromoted
<1>3. /\ \A m \in M : m[2] \in Units => U[m[2]] = [status |-> "RESERVED", grant |-> m[1]]
      /\ \A u \in Units \ Seconds(M) : U[u] = BU[u]
  BY <1>1, UnitsPromoted
<1>4. WillEntries(t, M, es, gs, us) = E
  BY <1>2, ClosedNobody DEF WillEntries
<1>5. WillUnits(t, M, es, gs, us) = U
  BY DEF WillUnits
<1> HIDE DEF B, E, BU, U
<1>6. \A x \in DOMAIN B : E[x].status = IF x \in Firsts(M) THEN "GRANTED" ELSE B[x].status
  <2>1. SUFFICES ASSUME NEW x \in DOMAIN B
                 PROVE  E[x].status = IF x \in Firsts(M) THEN "GRANTED" ELSE B[x].status
    OBVIOUS
  <2>2. B[x] \in [user : Users, status : EntryStatus]
    BY <1>1 DEF EntriesOK
  <2> DEFINE g == [B[x] EXCEPT !.status = "GRANTED"]
  <2>3. g.status = "GRANTED"
    BY <2>2
  <2>4. E[x] = IF x \in Firsts(M) THEN g ELSE B[x]
    BY <1>2, Zenon
  <2> HIDE DEF g
  <2> QED BY <2>3, <2>4
<1>7. \A u \in Seconds(M) : U[u].status = "RESERVED"
  <2>1. SUFFICES ASSUME NEW m \in M PROVE U[m[2]].status = "RESERVED"
    BY DEF Seconds
  <2>2. m[2] \in Units
    BY <1>1
  <2>3. U[m[2]] = [status |-> "RESERVED", grant |-> m[1]]
    BY <1>3, <2>2, Zenon
  <2> QED BY <2>3
<1>8. Waiting(E, p) = Waiting(B, p) \ Firsts(M)
  BY <1>2, <1>6 DEF Waiting
<1>9. Available(U, p) = Available(BU, p) \ Seconds(M)
  BY <1>3, <1>7 DEF Available, UnitsOf
<1> QED BY <1>4, <1>5, <1>8, <1>9 DEF Line, Stock, B, BU, E, U

(* A turn of Promote's loop, and its end, keep the invariant. *)
LEMMA PromoteOneSound ==
    ASSUME TxInv, NEW s \in Sessions, PromoteOne(s)
    PROVE  TxInv'
<1> DEFINE t == tx[s]
           r == tx'[s]
           B == BaseEntries(t, entries)
           BG == BaseGrants(t, entries, grants)
           BU == BaseUnits(t, entries, grants, units)
           p == t.e[1]
           W == Line(t, entries)
           A == Stock(t, entries, grants, units)
           All == PairsOf(t, entries, grants, units)
<1>1. /\ LockInv' /\ LockInv /\ t # None /\ t.at = "promote"
      /\ t.at \in Working \ {"commit"} /\ t.at \in Working
  BY PromoteOneKeeps DEF PromoteOne, At, Working, TxInv
<1>2. /\ Good(entries, grants, units) /\ Ready(t, entries, grants) /\ Promotes(t, entries)
      /\ ClosedBy(t, entries, grants, units) = {} /\ ~Sells(t)
  BY <1>1, AtWork DEF Promotes, ClosedBy, Sells
<1>3. PICK M \in SUBSET All :
                 /\ Turned(t, M, entries, grants, units)
                 /\ SeenEntries(s) = WillEntries(t, M, entries, grants, units)
                 /\ SeenGrants(s) = WillGrants(t, M, entries, grants)
                 /\ SeenUnits(s) = WillUnits(t, M, entries, grants, units)
                 /\ t.said = WillSay(t, M, entries, grants, units)
  BY <1>1, AtWork
<1>4. /\ SeenEntries(s) = PromotedEntries(B, M)
      /\ SeenGrants(s) = PromotedGrants(BG, M, 0) /\ SeenUnits(s) = PromotedUnits(BU, M)
      /\ \A x : x \in t.said <=> x \in OwnSaid(t, entries) \/ x \in Firsts(M)
      /\ Waiting(SeenEntries(s), p) = W \ Firsts(M)
      /\ Available(SeenUnits(s), p) = A \ Seconds(M)
  BY <1>2, <1>3, SeenLine DEF WillGrants, WillUnits, WillSay
<1>5. /\ OneEach(M) /\ EntriesOK(B) /\ p \in Products
      /\ \A x \in W : x \in DOMAIN B /\ B[x].status = "WAITING"
      /\ \A u \in A : u \in Units
      /\ W = Waiting(B, p) /\ A = Available(BU, p) /\ All = Pairs(B, BU, p)
  BY <1>2, <1>3, PairsFit, BaseTables, LineAndStock
     DEF Line, Stock, PairsOf, Ready, EntryIds
<1>6. Oldest(s) = {e \in W \ Firsts(M) : Before(e, W \ Firsts(M)) = {}}
  BY <1>4 DEF Oldest
<1>7. NextPair(s) = {m \in Oldest(s) \X (A \ Seconds(M)) : Below(m[2], A \ Seconds(M)) = {}}
  BY <1>4 DEF NextPair
<1> HIDE DEF W, A, All, B, BG, BU
<1>8. /\ \A w \in W \ Firsts(M), u \in A \ Seconds(M) :
            Before(w, W \ Firsts(M)) = {} /\ Below(u, A \ Seconds(M)) = {} => <<w, u>> \in All
      /\ \/ M = All
         \/ \E w \in W \ Firsts(M), u \in A \ Seconds(M) :
               Before(w, W \ Firsts(M)) = {} /\ Below(u, A \ Seconds(M)) = {}
  <2>1. M \subseteq Pairs(B, BU, p)
    BY <1>3, <1>5
  <2>2. OneByOne(Pairs(B, BU, p), W, A, M)
    BY <1>5, <2>1, LoopPairs
  <2> QED BY <1>5, <2>2 DEF OneByOne
<1>9. ASSUME NEW m \in NextPair(s),
             Do(s, "promote", {<<"entry", m[1]>>, <<"unit", m[2]>>},
                MarkEntryStatus(SeenEntries(s), m[1], "WAITING", "GRANTED"),
                Over(Row(m[1], [unit |-> m[2], status |-> "ACTIVE",
                                left |-> TTL, age |-> 0]),
                     SeenGrants(s)),
                [SeenUnits(s) EXCEPT ![m[2]] = [status |-> "RESERVED", grant |-> m[1]]],
                {m[1]})
      PROVE  TxInv'
  <2> DEFINE w == m[1]
             u == m[2]
             N == M \cup {<<w, u>>}
             rows == {<<"entry", w>>, <<"unit", u>>}
  <2>1. /\ w \in W \ Firsts(M) /\ u \in A \ Seconds(M) /\ <<w, u>> \in All
    BY <1>6, <1>7, <1>8
  <2> HIDE DEF w, u
  <2>2. /\ OneEach(N) /\ Firsts(N) = Firsts(M) \cup {w}
        /\ MarkEntryStatus(PromotedEntries(B, M), w, "WAITING", "GRANTED")
              = PromotedEntries(B, N)
        /\ Over(Row(w, [unit |-> u, status |-> "ACTIVE", left |-> TTL, age |-> 0]),
                PromotedGrants(BG, M, 0)) = PromotedGrants(BG, N, 0)
        /\ [PromotedUnits(BU, M) EXCEPT ![u] = [status |-> "RESERVED", grant |-> w]]
              = PromotedUnits(BU, N)
    <3>1. w \in DOMAIN B /\ B[w].status = "WAITING" /\ w \notin Firsts(M)
          /\ u \in Units /\ u \notin Seconds(M)
      BY <1>5, <2>1
    <3>2. OneMore(M, N, w, u, B, BG, BU)
      BY <1>5, <3>1, OneMorePair
    <3> QED BY <3>2 DEF OneMore
  <2>3. N \subseteq All /\ (\A n \in N : n \in M \/ n = <<w, u>>)
    BY <1>3, <2>1
  <2>4. /\ <<w, u>>[1] = w /\ <<w, u>>[2] = u
    OBVIOUS
  <2> HIDE DEF N
  <2>5. Do(s, "promote", rows, PromotedEntries(B, N), PromotedGrants(BG, N, 0),
           PromotedUnits(BU, N), {w})
    BY <1>4, <1>9, <2>2 DEF w, u
  <2>6. /\ r.op = t.op /\ r.e = t.e /\ r.user = t.user /\ r.result = t.result
        /\ r.at = "promote" /\ \A x : x \in r.locks <=> x \in t.locks \/ x \in rows
    BY <1>1, <2>5, DoAll DEF SameWork
  <2>7. /\ BaseEntries(r, entries) = B /\ BaseGrants(r, entries, grants) = BG
        /\ BaseUnits(r, entries, grants, units) = BU
        /\ OwnSaid(r, entries) = OwnSaid(t, entries)
        /\ PairsOf(r, entries, grants, units) = All
        /\ ~Sells(r)
    BY <1>1, <1>2, <2>6, SameRowsOwned DEF B, BG, BU, All
  <2>8. ClosedBy(r, entries, grants, units) = {}
    BY <2>7 DEF ClosedBy
  <2>9. PromotedEntries(B, N) = WillEntries(r, N, entries, grants, units)
    <3>1. IsTable(PromotedEntries(B, N))
      BY EntriesPromoted
    <3> QED BY <2>7, <2>8, <3>1, ClosedNobody DEF WillEntries
  <2>10. /\ PromotedGrants(BG, N, 0) = WillGrants(r, N, entries, grants)
         /\ PromotedUnits(BU, N) = WillUnits(r, N, entries, grants, units)
         /\ \A x : x \in WillSay(r, N, entries, grants, units) <=> x \in t.said \/ x \in {w}
    BY <1>4, <2>2, <2>7, <2>8 DEF WillGrants, WillUnits, WillSay
  <2>11. Turned(r, N, entries, grants, units)
    <3>1. \A n \in M : <<"entry", n[1]>> \in t.locks /\ <<"unit", n[2]>> \in t.locks
      BY <1>3 DEF Turned
    <3>2. \A n \in N : <<"entry", n[1]>> \in r.locks /\ <<"unit", n[2]>> \in r.locks
      BY <2>3, <2>4, <2>6, <3>1
    <3> QED BY <2>3, <2>6, <2>7, <3>2 DEF Turned
  <2>12. "promote" \in Working
    BY DEF Working
  <2> HIDE DEF rows
  <2> QED BY <1>1, <1>2, <2>5, <2>8, <2>9, <2>10, <2>11, <2>12, NextWorkSound
<1>10. ASSUME NextPair(s) = {}, NEW next,
              next = IF tx[s].op = "leave" THEN "mark" ELSE "commit",
              NEW rows, rows = {<<"entry", e>> : e \in Oldest(s)},
              Do(s, next, rows, SeenEntries(s), SeenGrants(s), SeenUnits(s), {})
       PROVE  TxInv'
  <2>1. M = All
    <3>1. ASSUME NEW w \in W \ Firsts(M), NEW u \in A \ Seconds(M),
                 Before(w, W \ Firsts(M)) = {}, Below(u, A \ Seconds(M)) = {}
          PROVE  FALSE
      <4>1. <<w, u>> \in NextPair(s)
        BY <1>6, <1>7, <3>1
      <4> QED BY <1>10, <4>1
    <3> QED BY <1>8, <3>1
  <2>2. /\ r.op = t.op /\ r.e = t.e /\ r.user = t.user /\ r.result = t.result
        /\ r.at = next /\ \A x : x \in r.locks <=> x \in t.locks \/ x \in rows
    BY <1>1, <1>10, DoAll DEF SameWork
  <2>3. next \in Working \ {"promote", "close"} /\ (t.op = "leave" => next # "commit")
    BY <1>10 DEF Working
  <2>4. /\ BaseEntries(r, entries) = B /\ BaseGrants(r, entries, grants) = BG
        /\ BaseUnits(r, entries, grants, units) = BU
        /\ OwnSaid(r, entries) = OwnSaid(t, entries)
        /\ PairsOf(r, entries, grants, units) = All
        /\ ~Sells(r) /\ Promotes(r, entries)
    BY <1>1, <1>2, <2>2, <2>3, SameRowsOwned DEF B, BG, BU, All
  <2>5. ClosedBy(r, entries, grants, units) = {}
    BY <2>4 DEF ClosedBy
  <2>6. SeenEntries(s) = WillEntries(r, M, entries, grants, units)
    <3>1. IsTable(PromotedEntries(B, M))
      BY EntriesPromoted
    <3> QED BY <1>4, <2>4, <2>5, <3>1, ClosedNobody DEF WillEntries
  <2>7. /\ SeenGrants(s) = WillGrants(r, M, entries, grants)
        /\ SeenUnits(s) = WillUnits(r, M, entries, grants, units)
        /\ \A x : x \in WillSay(r, M, entries, grants, units) <=> x \in t.said \/ x \in {}
    BY <1>4, <2>4, <2>5 DEF WillGrants, WillUnits, WillSay
  <2>8. Turned(r, M, entries, grants, units)
    <3>1. \A n \in M : <<"entry", n[1]>> \in t.locks /\ <<"unit", n[2]>> \in t.locks
      BY <1>3 DEF Turned
    <3> QED BY <2>1, <2>2, <2>4, <3>1 DEF Turned
  <2> QED BY <1>1, <1>10, <2>3, <2>5, <2>6, <2>7, <2>8, NextWorkSound
<1> QED BY <1>9, <1>10 DEF PromoteOne

(* LeaveMarksEntry keeps the invariant: the entry was not promoted         *)
(* meanwhile.                                                              *)
LEMMA LeaveMarksEntrySound ==
    ASSUME TxInv, NEW s \in Sessions, LeaveMarksEntry(s)
    PROVE  TxInv'
<1> DEFINE t == tx[s]
           r == tx'[s]
           e == t.e
           p == e[1]
           B == BaseEntries(t, entries)
           C == BaseEntries(r, entries)
           BG == BaseGrants(t, entries, grants)
           BU == BaseUnits(t, entries, grants, units)
           new == MarkEntryStatus(SeenEntries(s), e, "GRANTED", "CANCELLED")
<1>1. /\ LockInv' /\ LockInv /\ t # None /\ t.at = "mark"
      /\ t.at \in Working \ {"commit"} /\ t.at \in Working
      /\ Do(s, "commit", {}, new, SeenGrants(s), SeenUnits(s), {})
  BY LeaveMarksEntryKeeps DEF LeaveMarksEntry, At, Working, TxInv
<1>2. t.op = "leave"
  BY <1>1 DEF LockInv, Legal, FollowsPlan, CheckoutPlan, ProductPlan
<1>3. /\ Good(entries, grants, units) /\ Ready(t, entries, grants)
      /\ entries[e].status = "GRANTED" /\ e \in DOMAIN entries /\ p \in Products
      /\ ClosedBy(t, entries, grants, units) = {}
  <2>1. Good(entries, grants, units) /\ Ready(t, entries, grants)
    BY <1>1, AtWork
  <2> QED BY <1>1, <1>2, <2>1 DEF Ready, ClosedBy, Sells, EntryIds
<1>4. HasRight(t, entries) /\ Promotes(t, entries) /\ ~Sells(t)
  BY <1>2, <1>3 DEF HasRight, Promotes, Sells
<1>5. /\ r.op = t.op /\ r.e = t.e /\ r.user = t.user /\ r.result = t.result /\ r.at = "commit"
      /\ \A x : x \in r.locks <=> x \in t.locks \/ x \in {}
  <2> HIDE DEF new
  <2> QED BY <1>1, DoAll DEF SameWork
<1>6. PICK M \in SUBSET PairsOf(t, entries, grants, units) :
                 /\ Turned(t, M, entries, grants, units)
                 /\ SeenEntries(s) = WillEntries(t, M, entries, grants, units)
                 /\ SeenGrants(s) = WillGrants(t, M, entries, grants)
                 /\ SeenUnits(s) = WillUnits(t, M, entries, grants, units)
                 /\ t.said = WillSay(t, M, entries, grants, units)
  BY <1>1, AtWork
<1>7. /\ M = PairsOf(t, entries, grants, units)
      /\ \A m \in M : <<"entry", m[1]>> \in t.locks /\ <<"unit", m[2]>> \in t.locks
  BY <1>1, <1>4, <1>6 DEF Turned
<1>8. /\ SeenEntries(s) = PromotedEntries(B, M)
      /\ SeenGrants(s) = PromotedGrants(BG, M, 0) /\ SeenUnits(s) = PromotedUnits(BU, M)
      /\ \A x : x \in t.said <=> x \in OwnSaid(t, entries) \/ x \in Firsts(M)
  BY <1>3, <1>6, SeenLine DEF WillGrants, WillUnits, WillSay
<1>9. /\ HasRight(r, entries) /\ ~Sells(r) /\ Promotes(r, entries) /\ GrantTo(r) = GrantTo(t)
      /\ EntryTo(r) = "CANCELLED"
  BY <1>2, <1>3, <1>5 DEF HasRight, Sells, Promotes, GrantTo, EntryTo
<1>10. /\ BaseGrants(r, entries, grants) = BG /\ BaseUnits(r, entries, grants, units) = BU
       /\ OwnSaid(r, entries) = OwnSaid(t, entries)
  <2> HIDE DEF t, r
  <2>1. /\ OwnGrant(r, entries, grants) = OwnGrant(t, entries, grants)
        /\ OwnUnit(r, entries, grants) = OwnUnit(t, entries, grants)
    BY <1>4, <1>5, <1>9 DEF OwnGrant, OwnUnit
  <2> QED BY <1>4, <1>5, <1>9, <2>1 DEF BaseGrants, BaseUnits, OwnSaid
<1>11. ClosedBy(r, entries, grants, units) = {}
  BY <1>9 DEF ClosedBy
<1>12. IsTable(entries) /\ EntriesOK(entries) /\ EntriesOK(B)
  BY <1>3, BaseTables DEF Good, Consistent
<1>13. B = entries
  <2>1. DOMAIN OwnEntry(t, entries) = {}
    BY <1>1, <1>2 DEF OwnEntry
  <2> QED BY <1>12, <2>1, OverEmpty DEF BaseEntries
<1> DEFINE row == [user |-> entries[e].user, status |-> "CANCELLED"]
<1>14. /\ IsTable(C) /\ DOMAIN C = DOMAIN entries /\ C[e] = row
       /\ \A x \in DOMAIN entries : x # e => C[x] = entries[x]
  <2>1. C = Over(Row(e, row), entries)
    BY <1>2, <1>5, <1>9 DEF BaseEntries, OwnEntry
  <2>2. \A x : x \in DOMAIN C <=> x \in DOMAIN entries
    <3> HIDE DEF row, C
    <3> QED BY <1>3, <2>1, OverRow
  <2> HIDE DEF row, C
  <2> QED BY <2>1, <2>2, OverRow, OverIsTable
<1>15. Waiting(C, p) = Waiting(entries, p)
  <2>1. C[e].status # "WAITING"
    BY <1>14
  <2> HIDE DEF C, row
  <2> QED BY <1>3, <1>14, <2>1 DEF Waiting
<1>16. PairsOf(r, entries, grants, units) = M
  <2>1. PairsOf(r, entries, grants, units) = Pairs(C, BU, p)
    BY <1>5, <1>10 DEF PairsOf
  <2>2. M = Pairs(entries, BU, p)
    BY <1>7, <1>13 DEF PairsOf
  <2> QED BY <1>15, <2>1, <2>2 DEF Pairs
<1>17. e \notin Firsts(M)
  <2>1. M \subseteq PairsOf(t, entries, grants, units)
    BY <1>6
  <2>2. \A x \in Firsts(M) : x \in Line(t, entries)
    BY <1>3, <2>1, PairsFit
  <2>3. \A x \in Line(t, entries) : x = e => t.op = "join"
    BY <1>3, LineAndStock
  <2> QED BY <1>2, <2>2, <2>3
<1>18. new = PromotedEntries(C, M)
  <2> DEFINE E == PromotedEntries(entries, M)
             F == PromotedEntries(C, M)
  <2>1. /\ IsTable(E) /\ DOMAIN E = DOMAIN entries
        /\ \A x \in DOMAIN entries : E[x] =
              IF x \in Firsts(M) THEN [entries[x] EXCEPT !.status = "GRANTED"] ELSE entries[x]
    BY EntriesPromoted
  <2>2. /\ IsTable(F) /\ DOMAIN F = DOMAIN C
        /\ \A x \in DOMAIN C : F[x] =
              IF x \in Firsts(M) THEN [C[x] EXCEPT !.status = "GRANTED"] ELSE C[x]
    BY EntriesPromoted
  <2>3. new = MarkEntryStatus(E, e, "GRANTED", "CANCELLED")
    BY <1>8, <1>13
  <2> HIDE DEF E, F, C
  <2>4. E[e] = entries[e] /\ F[e] = row
    BY <1>3, <1>14, <1>17, <2>1, <2>2
  <2>5. [entries[e] EXCEPT !.status = "CANCELLED"] = row
    BY <1>3, <1>12 DEF EntriesOK
  <2>6. new = [E EXCEPT ![e] = row]
    BY <1>3, <2>1, <2>3, <2>4, <2>5 DEF MarkEntryStatus
  <2>7. /\ IsTable(new) /\ DOMAIN new = DOMAIN entries /\ new[e] = row
        /\ \A x \in DOMAIN entries : x # e => new[x] = E[x]
    <3> HIDE DEF new, row
    <3> QED BY <1>3, <2>1, <2>6 DEF IsTable
  <2>8. \A x \in DOMAIN entries : x # e => E[x] = F[x]
    BY <1>14, <2>1, <2>2
  <2> HIDE DEF new, row
  <2>9. \A x \in DOMAIN F : new[x] = F[x]
    BY <1>14, <2>2, <2>4, <2>7, <2>8
  <2>10. new = F
    BY <1>14, <2>2, <2>7, <2>9, SameRows
  <2> QED BY <2>10 DEF F
<1> HIDE DEF new, C, B, BG, BU
<1>19. new = WillEntries(r, M, entries, grants, units)
  <2>1. IsTable(PromotedEntries(C, M))
    BY EntriesPromoted
  <2> QED BY <1>11, <1>18, <2>1, ClosedNobody DEF WillEntries, C
<1>20. /\ SeenGrants(s) = WillGrants(r, M, entries, grants)
       /\ SeenUnits(s) = WillUnits(r, M, entries, grants, units)
       /\ \A x : x \in WillSay(r, M, entries, grants, units) <=> x \in t.said \/ x \in {}
  BY <1>8, <1>10, <1>11 DEF WillGrants, WillUnits, WillSay
<1>21. Turned(r, M, entries, grants, units)
  BY <1>5, <1>7, <1>9, <1>16 DEF Turned
<1>22. "commit" \in Working /\ "commit" # "promote" /\ "commit" # "close"
  BY DEF Working
<1> QED BY <1>1, <1>11, <1>19, <1>20, <1>21, <1>22, NextWorkSound

-----------------------------------------------------------------------------
(***************************************************************************)
(* A commit is a step of FairQueue.                                        *)
(***************************************************************************)
(* The pairs of a transaction that is ready to commit. *)
Made(t, es, gs, us) == IF Promotes(t, es) THEN PairsOf(t, es, gs, us) ELSE {}

(* A commit takes off the rights it creates the time since its start.      *)
Aged(rows, lag) ==
    [e \in DOMAIN rows |->
        IF rows[e].status = "ACTIVE" THEN [rows[e] EXCEPT !.left = @ - lag] ELSE rows[e]]

(* Aging the rights a transaction has written gives the grants of a        *)
(* promotion with its lag, and the grants it has changed are at most its   *)
(* own.                                                                    *)
LEMMA AgedGrants ==
    ASSUME NEW es, NEW gs, NEW us, Good(es, gs, us), NEW t, Ready(t, es, gs), t.lag \in Lags,
           NEW M, M \subseteq PairsOf(t, es, gs, us), Sees(t, M, es, gs, us)
    PROVE  /\ Over(Aged(t.grants, t.lag), gs) = PromotedGrants(BaseGrants(t, es, gs), M, t.lag)
           /\ \A x \in DOMAIN gs : x \in DOMAIN t.grants =>
                 x = t.e /\ HasRight(t, es) /\ t.grants[x].status = GrantTo(t)
<1> DEFINE BG == BaseGrants(t, es, gs)
           OG == OwnGrant(t, es, gs)
           G == PromotedGrants(BG, M, 0)
           H == PromotedGrants(BG, M, t.lag)
           O == Over(t.grants, gs)
           A == Aged(t.grants, t.lag)
           N == Over(A, gs)
<1>1. /\ OneEach(M) /\ \A x \in Firsts(M) : x \notin DOMAIN gs
  BY PairsFit, LineAndStock
<1>2. /\ \A x : x \in DOMAIN G <=> x \in DOMAIN BG \/ x \in Firsts(M)
      /\ \A m \in M : G[m[1]] = [unit |-> m[2], status |-> "ACTIVE", left |-> TTL - 0, age |-> 0]
      /\ \A x \in DOMAIN BG \ Firsts(M) : G[x] = BG[x]
  BY <1>1, GrantsPromoted
<1>3. /\ IsTable(H) /\ \A x : x \in DOMAIN H <=> x \in DOMAIN BG \/ x \in Firsts(M)
      /\ \A m \in M : H[m[1]] = [unit |-> m[2], status |-> "ACTIVE", left |-> TTL - t.lag, age |-> 0]
      /\ \A x \in DOMAIN BG \ Firsts(M) : H[x] = BG[x]
  BY <1>1, GrantsPromoted
<1>4. /\ O = G /\ \A x : x \in DOMAIN t.grants <=> x \in DOMAIN OG \/ x \in Firsts(M)
  BY DEF Sees
<1>5. /\ \A x : x \in DOMAIN O <=> x \in DOMAIN t.grants \/ x \in DOMAIN gs
      /\ \A x \in DOMAIN t.grants : O[x] = t.grants[x]
      /\ \A x \in DOMAIN gs : x \notin DOMAIN t.grants => O[x] = gs[x]
  BY OverRows
<1>6. /\ IsTable(N) /\ \A x : x \in DOMAIN N <=> x \in DOMAIN A \/ x \in DOMAIN gs
      /\ \A x \in DOMAIN A : N[x] = A[x]
      /\ \A x \in DOMAIN gs : x \notin DOMAIN A => N[x] = gs[x]
  BY OverRows, OverIsTable
<1>7. /\ DOMAIN A = DOMAIN t.grants
      /\ \A x \in DOMAIN t.grants : A[x] =
            IF t.grants[x].status = "ACTIVE" THEN [t.grants[x] EXCEPT !.left = @ - t.lag]
            ELSE t.grants[x]
  BY DEF Aged
<1>8. /\ \A x \in DOMAIN OG : /\ x = t.e /\ HasRight(t, es) /\ OG[x].status = GrantTo(t)
                              /\ BG[x] = OG[x] /\ x \in DOMAIN BG
      /\ \A x \in DOMAIN gs : x \notin DOMAIN OG => BG[x] = gs[x]
      /\ \A x : x \in DOMAIN BG <=> x \in DOMAIN gs
  BY OwnRowsAre, OverRows, BaseTables DEF BaseGrants
<1>9. HasRight(t, es) => GrantTo(t) # "ACTIVE"
  BY DEF HasRight, GrantTo
<1> HIDE DEF BG, OG, G, H, O, A, N
<1>10. ASSUME NEW x \in Firsts(M) PROVE N[x] = H[x]
  <2>1. PICK m \in M : m[1] = x
    BY DEF Firsts
  <2> DEFINE g == [unit |-> m[2], status |-> "ACTIVE", left |-> TTL - 0, age |-> 0]
             h == [unit |-> m[2], status |-> "ACTIVE", left |-> TTL - t.lag, age |-> 0]
  <2>2. t.grants[x] = g
    <3> HIDE DEF g
    <3>1. G[x] = g
      BY <1>2, <2>1 DEF g
    <3> QED BY <1>4, <1>5, <1>10, <3>1
  <2>3. H[x] = h
    BY <1>3, <2>1
  <2>4. [g EXCEPT !.left = @ - t.lag] = h /\ g.status = "ACTIVE"
    <3>1. (TTL - 0) - t.lag = TTL - t.lag
      BY ConstantsAssumption DEF Lags
    <3> QED BY <3>1
  <2>5. A[x] = h
    BY <1>4, <1>7, <1>10, <2>2, <2>4, Zenon
  <2> QED BY <1>4, <1>6, <1>7, <1>10, <2>3, <2>5
<1>11. ASSUME NEW x \in DOMAIN gs PROVE N[x] = H[x]
  <2>1. x \notin Firsts(M) /\ x \in DOMAIN BG
    BY <1>1, <1>8
  <2>2. CASE x \in DOMAIN OG
    <3>1. t.grants[x] = OG[x] /\ OG[x].status # "ACTIVE" /\ x \in DOMAIN t.grants
      BY <1>2, <1>4, <1>5, <1>8, <1>9, <2>1, <2>2
    <3>2. A[x] = t.grants[x]
      BY <1>7, <3>1
    <3> QED BY <1>3, <1>6, <1>7, <1>8, <2>1, <2>2, <3>1, <3>2
  <2>3. CASE x \notin DOMAIN OG
    BY <1>3, <1>4, <1>6, <1>7, <1>8, <2>1, <2>3
  <2> QED BY <2>2, <2>3
<1>12. N = H
  <2>1. \A x : x \in DOMAIN N <=> x \in DOMAIN H
    BY <1>3, <1>4, <1>6, <1>7, <1>8
  <2>2. \A x \in DOMAIN H : N[x] = H[x]
    BY <1>3, <1>8, <1>10, <1>11
  <2>3. DOMAIN N = DOMAIN H
    BY <1>3, <1>6, <2>1 DEF IsTable
  <2> QED BY <1>3, <1>6, <2>2, <2>3, SameRows
<1>13. \A x \in DOMAIN gs : x \in DOMAIN t.grants =>
                 x = t.e /\ HasRight(t, es) /\ t.grants[x].status = GrantTo(t)
  BY <1>1, <1>2, <1>4, <1>5, <1>8
<1> QED BY <1>12, <1>13 DEF N, H, A, BG

(* What a commit leaves, in the terms of the operation it commits. *)
LEMMA CommitShape ==
    ASSUME TxInv, NEW s \in Sessions, Commit(s), NEW t, t = tx[s],
           NEW M, M = Made(t, entries, grants, units)
    PROVE  /\ t # None /\ t.at = "commit" /\ Good(entries, grants, units)
           /\ Ready(t, entries, grants)
           /\ Found(t, nextTicket, entries, grants, units, attempts)
           /\ M \subseteq PairsOf(t, entries, grants, units)
           /\ Sees(t, M, entries, grants, units)
           /\ entries' = WillEntries(t, M, entries, grants, units)
           /\ grants' = PromotedGrants(BaseGrants(t, entries, grants), M, t.lag)
           /\ grants' = Over(Aged(t.grants, t.lag), grants)
           /\ units' = WillUnits(t, M, entries, grants, units)
           /\ announced' = WillSay(t, M, entries, grants, units)
           /\ nextTicket' = Over(t.nextTicket, nextTicket)
           /\ attempts' = Over(t.attempts, attempts)
<1>1. /\ t # None /\ t.at = "commit" /\ t.at \in Working
      /\ nextTicket' = Over(t.nextTicket, nextTicket)
      /\ entries' = SeenEntries(s) /\ grants' = Over(Aged(t.grants, t.lag), grants)
      /\ units' = SeenUnits(s) /\ announced' = t.said
      /\ attempts' = Over(t.attempts, attempts)
  BY DEF Commit, At, Working, Aged
<1>2. /\ Good(entries, grants, units) /\ Ready(t, entries, grants)
      /\ Found(t, nextTicket, entries, grants, units, attempts)
  BY <1>1, AtWork
<1>3. PICK N \in SUBSET PairsOf(t, entries, grants, units) :
                 /\ Turned(t, N, entries, grants, units)
                 /\ SeenEntries(s) = WillEntries(t, N, entries, grants, units)
                 /\ SeenGrants(s) = WillGrants(t, N, entries, grants)
                 /\ SeenUnits(s) = WillUnits(t, N, entries, grants, units)
                 /\ t.said = WillSay(t, N, entries, grants, units)
                 /\ Sees(t, N, entries, grants, units)
  BY <1>1, AtWork
<1>4. N = M
  BY <1>1, <1>3 DEF Turned, Made
<1>5. t.lag \in Lags
  BY <1>2 DEF Found
<1>6. grants' = PromotedGrants(BaseGrants(t, entries, grants), M, t.lag)
  BY <1>1, <1>2, <1>3, <1>4, <1>5, AgedGrants
<1> QED BY <1>1, <1>2, <1>3, <1>4, <1>6

(* What the commit of a transaction that promotes, and of one that does    *)
(* not, leaves.                                                            *)
LEMMA CommitPromotes ==
    ASSUME TxInv, NEW s \in Sessions, Commit(s), NEW t, t = tx[s], Promotes(t, entries)
    PROVE  Promote(BaseEntries(t, entries), BaseGrants(t, entries, grants),
                   BaseUnits(t, entries, grants, units), t.e[1], t.lag, OwnSaid(t, entries))
<1> DEFINE M == PairsOf(t, entries, grants, units)
           BE == BaseEntries(t, entries)
           BG == BaseGrants(t, entries, grants)
           BU == BaseUnits(t, entries, grants, units)
<1>1. M = Made(t, entries, grants, units)
  BY DEF Made
<1>2. /\ entries' = WillEntries(t, M, entries, grants, units)
      /\ grants' = PromotedGrants(BG, M, t.lag)
      /\ units' = WillUnits(t, M, entries, grants, units)
      /\ announced' = WillSay(t, M, entries, grants, units)
  BY <1>1, CommitShape
<1>3. ClosedBy(t, entries, grants, units) = {}
  BY DEF ClosedBy, Promotes, Sells
<1>4. IsTable(PromotedEntries(BE, M))
  BY EntriesPromoted
<1>5. entries' = PromotedEntries(BE, M)
  BY <1>2, <1>3, <1>4, ClosedNobody DEF WillEntries
<1>6. units' = PromotedUnits(BU, M)
  BY <1>2 DEF WillUnits
<1>7. announced' = OwnSaid(t, entries) \cup {m[1] : m \in M}
  BY <1>2, <1>3 DEF WillSay, Firsts
<1>8. M = Pairs(BE, BU, t.e[1])
  BY DEF PairsOf
<1> HIDE DEF M, BE, BG, BU
<1>9. Promote(BE, BG, BU, t.e[1], t.lag, OwnSaid(t, entries))
  BY <1>2, <1>5, <1>6, <1>7, <1>8 DEF Promote
<1> QED BY <1>9 DEF BE, BG, BU

(* The same for the transactions that do not promote. *)
LEMMA CommitSettles ==
    ASSUME TxInv, NEW s \in Sessions, Commit(s), NEW t, t = tx[s], ~Promotes(t, entries)
    PROVE  /\ entries' = ClosedEntries(BaseEntries(t, entries),
                                       ClosedBy(t, entries, grants, units))
           /\ grants' = BaseGrants(t, entries, grants)
           /\ units' = BaseUnits(t, entries, grants, units)
           /\ announced' = OwnSaid(t, entries) \cup ClosedBy(t, entries, grants, units)
<1> DEFINE M == Made(t, entries, grants, units)
           BE == BaseEntries(t, entries)
           BG == BaseGrants(t, entries, grants)
           BU == BaseUnits(t, entries, grants, units)
<1>1. M = {}
  BY DEF Made
<1>2. /\ entries' = WillEntries(t, M, entries, grants, units)
      /\ grants' = PromotedGrants(BG, M, t.lag)
      /\ units' = WillUnits(t, M, entries, grants, units)
      /\ announced' = WillSay(t, M, entries, grants, units)
      /\ Good(entries, grants, units) /\ Ready(t, entries, grants)
  BY CommitShape
<1>3. IsTable(BE) /\ IsTable(BG) /\ IsTable(BU) /\ DOMAIN BU = Units
  BY <1>2, BaseTables
<1>4. PromotedEntries(BE, {}) = BE /\ PromotedUnits(BU, {}) = BU
  BY <1>3, PromotedNobody
<1>5. PromotedGrants(BG, {}, t.lag) = BG
  BY <1>3 DEF PromotedGrants, IsTable
<1>6. Firsts({}) = {}
  BY DEF Firsts
<1> QED BY <1>1, <1>2, <1>4, <1>5, <1>6 DEF WillEntries, WillUnits, WillSay

(* The commit of each operation is the step of FairQueue it is named for.  *)
LEMMA CommitJoins ==
    ASSUME TxInv, NEW s \in Sessions, Commit(s), tx[s].op = "join"
    PROVE  JoinQueue(tx[s].user, tx[s].e[1])
<1> DEFINE t == tx[s]
           p == t.e[1]
           e == <<p, nextTicket[p]>>
           row == [user |-> t.user, status |-> "WAITING"]
           es == [f \in DOMAIN entries \cup {e} |-> IF f = e THEN row ELSE entries[f]]
<1>1. /\ t.at = "commit" /\ Good(entries, grants, units) /\ Ready(t, entries, grants)
      /\ Found(t, nextTicket, entries, grants, units, attempts)
      /\ nextTicket' = Over(t.nextTicket, nextTicket)
      /\ attempts' = Over(t.attempts, attempts)
  BY CommitShape
<1>2. MayJoin(t, nextTicket, entries, units) /\ t.attempts = <<>> /\ t.lag \in Lags
  BY <1>1 DEF Found, Working, Records
<1>3. /\ t.e = e /\ nextTicket[p] <= MaxTicket
      /\ t.nextTicket = Row(p, nextTicket[p] + 1)
      /\ ProductStatus[p] = "ACTIVE" /\ QueueEnabled[p]
      /\ ~AllSold(units, p) /\ Active(entries, t.user, p) = {}
  BY <1>2 DEF MayJoin
<1>4. e \notin DOMAIN entries
  BY <1>1, <1>3 DEF Ready
<1>5. nextTicket' = [nextTicket EXCEPT ![p] = @ + 1]
  <2>1. nextTicket \in [Products -> 1 .. MaxTicket + 1]
    BY TxGood DEF TypeOK
  <2>2. p \in Products
    BY <1>1, TxReady DEF Ready, EntryIds
  <2> DEFINE n == [nextTicket EXCEPT ![p] = nextTicket[p] + 1]
  <2>3. /\ IsTable(n) /\ DOMAIN n = DOMAIN nextTicket /\ n[p] = nextTicket[p] + 1
        /\ \A y \in DOMAIN nextTicket : y # p => n[y] = nextTicket[y]
        /\ p \in DOMAIN nextTicket
    BY <2>1, <2>2 DEF IsTable
  <2> HIDE DEF n
  <2>4. Over(Row(p, nextTicket[p] + 1), nextTicket) = n
    BY <2>3, OverRowIn
  <2> QED BY <1>1, <1>3, <2>4 DEF n
<1>6. attempts' = attempts
  BY <1>1, <1>2, OverEmpty DEF TxInv
<1>7. OwnSaid(t, entries) = {} /\ ~HasRight(t, entries) /\ Promotes(t, entries)
  BY DEF OwnSaid, HasRight, Promotes
<1>8. BaseEntries(t, entries) = es
  <2>1. OwnEntry(t, entries) = Row(e, row)
    BY <1>3 DEF OwnEntry, EntryTo
  <2>2. DOMAIN Row(e, row) = {e} /\ Row(e, row)[e] = row
    BY DEF Row
  <2> HIDE DEF e, row
  <2>3. Over(Row(e, row), entries) = es
    BY <2>2 DEF Over
  <2> QED BY <2>1, <2>3 DEF BaseEntries
<1>9. BaseGrants(t, entries, grants) = grants
  <2>1. OwnGrant(t, entries, grants) = <<>>
    BY <1>7 DEF OwnGrant
  <2> QED BY <1>1, <2>1, OverEmpty DEF BaseGrants, Good
<1>10. BaseUnits(t, entries, grants, units) = units
  <2>1. OwnUnit(t, entries, grants) = <<>>
    BY <1>7 DEF OwnUnit
  <2>2. IsTable(units)
    BY <1>1 DEF Good, Consistent, UnitsOK, IsTable
  <2> QED BY <2>1, <2>2, OverEmpty DEF BaseUnits
<1>11. Promote(es, grants, units, p, t.lag, {})
  BY <1>7, <1>8, <1>9, <1>10, CommitPromotes
<1>12. ~\E f \in DOMAIN entries :
              f[1] = p /\ entries[f].user = t.user /\ entries[f].status \in ActiveEntry
  BY <1>3 DEF Active
<1> QED BY <1>2, <1>3, <1>4, <1>5, <1>6, <1>11, <1>12 DEF JoinQueue

(* A leave commits as LeaveWaiting or LeaveGranted. *)
LEMMA CommitLeaves ==
    ASSUME TxInv, NEW s \in Sessions, Commit(s), tx[s].op = "leave"
    PROVE  /\ tx[s].e \in DOMAIN entries
           /\ LeaveWaiting(tx[s].e) \/ LeaveGranted(tx[s].e)
<1> DEFINE t == tx[s]
           e == t.e
<1>1. /\ t.at = "commit" /\ Good(entries, grants, units) /\ Ready(t, entries, grants)
      /\ Found(t, nextTicket, entries, grants, units, attempts)
      /\ nextTicket' = Over(t.nextTicket, nextTicket)
      /\ attempts' = Over(t.attempts, attempts)
  BY CommitShape
<1>2. t.nextTicket = <<>> /\ t.attempts = <<>> /\ t.lag \in Lags
  BY <1>1 DEF Found, Records
<1>3. IsTable(nextTicket) /\ IsTable(attempts) /\ DOMAIN <<>> = {}
  BY TxGood DEF TypeOK, IsTable, TxInv
<1>4. nextTicket' = nextTicket /\ attempts' = attempts
  BY <1>1, <1>2, <1>3, OverEmpty
<1>5. e \in DOMAIN entries /\ entries[e].status \in {"WAITING", "GRANTED"}
  BY <1>1 DEF Ready
<1>6. ~Sells(t)
  BY DEF Sells
<1>7. CASE entries[e].status = "WAITING"
  <2>1. ~HasRight(t, entries)
    BY <1>7 DEF HasRight
  <2>2. ~Promotes(t, entries) /\ ClosedBy(t, entries, grants, units) = {}
        /\ OwnSaid(t, entries) = {} /\ OwnGrant(t, entries, grants) = <<>>
        /\ OwnUnit(t, entries, grants) = <<>>
    BY <1>6, <2>1 DEF Promotes, ClosedBy, OwnSaid, OwnGrant, OwnUnit
  <2>3. /\ entries' = ClosedEntries(BaseEntries(t, entries), {})
        /\ grants' = BaseGrants(t, entries, grants)
        /\ units' = BaseUnits(t, entries, grants, units)
        /\ announced' = {}
    BY <2>2, CommitSettles
  <2>4. entries' = BaseEntries(t, entries)
    BY <1>1, <2>3, BaseTables, ClosedNobody
  <2>5. OwnEntry(t, entries) = Row(e, [user |-> entries[e].user, status |-> "CANCELLED"])
    BY <1>1 DEF OwnEntry, EntryTo
  <2>6. entries' = MarkEntryStatus(entries, e, "WAITING", "CANCELLED")
    BY <1>1, <1>5, <1>7, <2>4, <2>5, MarkedRow DEF BaseEntries, Good, Consistent
  <2>7. IsTable(units) /\ IsTable(grants)
    BY <1>1 DEF Good, Consistent, UnitsOK, IsTable
  <2>8. grants' = grants /\ units' = units
    BY <1>3, <2>2, <2>3, <2>7, OverEmpty DEF BaseGrants, BaseUnits
  <2> QED BY <1>4, <1>5, <1>7, <2>3, <2>6, <2>8 DEF LeaveWaiting
<1>8. CASE entries[e].status = "GRANTED"
  <2>1. HasRight(t, entries)
    BY <1>8 DEF HasRight
  <2>2. Promotes(t, entries) /\ EntryTo(t) = "CANCELLED" /\ GrantTo(t) = "CANCELLED"
    BY <1>6, <2>1 DEF Promotes, EntryTo, GrantTo
  <2>3. /\ MarkEntryStatus(entries, e, "GRANTED", "CANCELLED") = BaseEntries(t, entries)
        /\ UpdateGrantStatus(grants, e, "ACTIVE", "CANCELLED") = BaseGrants(t, entries, grants)
        /\ MarkUnitAvailable(units, grants[e].unit) = BaseUnits(t, entries, grants, units)
        /\ OwnSaid(t, entries) = {e}
    BY <1>1, <1>6, <2>1, <2>2, RightWritten
  <2>4. Promote(MarkEntryStatus(entries, e, "GRANTED", "CANCELLED"),
                UpdateGrantStatus(grants, e, "ACTIVE", "CANCELLED"),
                MarkUnitAvailable(units, grants[e].unit), e[1], t.lag, {e})
    BY <2>2, <2>3, CommitPromotes
  <2>5. e \in DOMAIN grants /\ grants[e].status = "ACTIVE"
    BY <1>1, <2>1 DEF Ready, GrantFits
  <2> QED BY <1>2, <1>4, <1>5, <1>8, <2>4, <2>5 DEF LeaveGranted
<1> QED BY <1>5, <1>7, <1>8

(* A checkout commits as StartCheckout. *)
LEMMA CommitStartsCheckout ==
    ASSUME TxInv, NEW s \in Sessions, Commit(s), tx[s].op = "checkout"
    PROVE  /\ tx[s].e \in DOMAIN grants /\ StartCheckout(tx[s].e)
           /\ entries' = MarkEntryStatus(entries, tx[s].e, "GRANTED", "CHECKOUT_PENDING")
<1> DEFINE t == tx[s]
           e == t.e
<1>1. /\ t.at = "commit" /\ Good(entries, grants, units) /\ Ready(t, entries, grants)
      /\ Found(t, nextTicket, entries, grants, units, attempts)
      /\ nextTicket' = Over(t.nextTicket, nextTicket)
      /\ attempts' = Over(t.attempts, attempts)
  BY CommitShape
<1>2. t.nextTicket = <<>> /\ t.attempts = <<>>
  BY <1>1 DEF Found, Records
<1>3. IsTable(nextTicket) /\ IsTable(attempts) /\ DOMAIN <<>> = {}
  BY TxGood DEF TypeOK, IsTable, TxInv
<1>4. nextTicket' = nextTicket /\ attempts' = attempts
  BY <1>1, <1>2, <1>3, OverEmpty
<1>5. HasRight(t, entries) /\ ~Sells(t) /\ ~Promotes(t, entries)
  BY DEF HasRight, Sells, Promotes
<1>6. ClosedBy(t, entries, grants, units) = {}
  BY <1>5 DEF ClosedBy
<1>7. EntryTo(t) = "CHECKOUT_PENDING" /\ GrantTo(t) = "CHECKOUT_PENDING"
  BY DEF EntryTo, GrantTo
<1>8. /\ MarkEntryStatus(entries, e, "GRANTED", "CHECKOUT_PENDING") = BaseEntries(t, entries)
      /\ UpdateGrantStatus(grants, e, "ACTIVE", "CHECKOUT_PENDING")
            = BaseGrants(t, entries, grants)
      /\ units = BaseUnits(t, entries, grants, units)
      /\ OwnSaid(t, entries) = {e}
  BY <1>1, <1>5, <1>7, RightWritten
<1>9. /\ entries' = ClosedEntries(BaseEntries(t, entries), {})
      /\ grants' = BaseGrants(t, entries, grants)
      /\ units' = units
      /\ announced' = {e}
  BY <1>5, <1>6, <1>8, CommitSettles
<1>10. entries' = BaseEntries(t, entries)
  BY <1>1, <1>9, BaseTables, ClosedNobody
<1>11. /\ e \in DOMAIN grants /\ grants[e].status = "ACTIVE"
       /\ grants[e].left + t.lag > 0 /\ t.lag \in Lags /\ t.lag <= grants[e].age
  BY <1>1, <1>5 DEF Ready, GrantFits, Found
<1>12. grants[e].age \in Lags /\ entries[e].status = "GRANTED"
  BY <1>1, <1>5, <1>11, RightFits DEF Good, Consistent, GrantsOK
<1>13. t.lag \in 0 .. grants[e].age
  BY <1>11, <1>12, ConstantsAssumption DEF Lags
<1> QED BY <1>4, <1>8, <1>9, <1>10, <1>11, <1>12, <1>13 DEF StartCheckout

(* A row of the worker's scan commits as Expire. *)
LEMMA CommitExpires ==
    ASSUME TxInv, NEW s \in Sessions, Commit(s), tx[s].op = "expire"
    PROVE  tx[s].e \in DOMAIN grants /\ Expire(tx[s].e)
<1> DEFINE t == tx[s]
           e == t.e
<1>1. /\ t.at = "commit" /\ Good(entries, grants, units) /\ Ready(t, entries, grants)
      /\ Found(t, nextTicket, entries, grants, units, attempts)
      /\ nextTicket' = Over(t.nextTicket, nextTicket)
      /\ attempts' = Over(t.attempts, attempts)
  BY CommitShape
<1>2. t.nextTicket = <<>> /\ t.attempts = <<>>
  BY <1>1 DEF Found, Records
<1>3. IsTable(nextTicket) /\ IsTable(attempts) /\ DOMAIN <<>> = {}
  BY TxGood DEF TypeOK, IsTable, TxInv
<1>4. nextTicket' = nextTicket /\ attempts' = attempts
  BY <1>1, <1>2, <1>3, OverEmpty
<1>5. HasRight(t, entries) /\ ~Sells(t) /\ Promotes(t, entries)
  BY DEF HasRight, Sells, Promotes
<1>6. EntryTo(t) = "EXPIRED" /\ GrantTo(t) = "EXPIRED"
  BY DEF EntryTo, GrantTo
<1>7. /\ MarkEntryStatus(entries, e, "GRANTED", "EXPIRED") = BaseEntries(t, entries)
      /\ UpdateGrantStatus(grants, e, "ACTIVE", "EXPIRED") = BaseGrants(t, entries, grants)
      /\ MarkUnitAvailable(units, grants[e].unit) = BaseUnits(t, entries, grants, units)
      /\ OwnSaid(t, entries) = {e}
  BY <1>1, <1>5, <1>6, RightWritten
<1>8. Promote(MarkEntryStatus(entries, e, "GRANTED", "EXPIRED"),
              UpdateGrantStatus(grants, e, "ACTIVE", "EXPIRED"),
              MarkUnitAvailable(units, grants[e].unit), e[1], t.lag, {e})
  BY <1>5, <1>7, CommitPromotes
<1>9. /\ e \in DOMAIN grants /\ grants[e].status = "ACTIVE"
      /\ grants[e].left + t.lag < 0 /\ t.lag \in Lags /\ t.lag <= grants[e].age
  BY <1>1, <1>5 DEF Ready, GrantFits, Found
<1>10. grants[e].age \in Lags
  BY <1>1, <1>9 DEF Good, Consistent, GrantsOK
<1>11. t.lag \in 0 .. grants[e].age
  BY <1>9, <1>10, ConstantsAssumption DEF Lags
<1> QED BY <1>4, <1>8, <1>9, <1>11 DEF Expire

(* A payment result commits as PaymentSucceeds or PaymentFails. *)
LEMMA CommitPays ==
    ASSUME TxInv, NEW s \in Sessions, Commit(s), tx[s].op = "pay"
    PROVE  /\ tx[s].e \in DOMAIN grants /\ tx[s].key \in Keys /\ tx[s].result \in Results
           /\ tx[s].result = "success" => PaymentSucceeds(tx[s].e, tx[s].key)
           /\ tx[s].result # "success" => PaymentFails(tx[s].e, tx[s].key, tx[s].result)
<1> DEFINE t == tx[s]
           e == t.e
           a == [entry |-> e, result |-> t.result]
<1>1. /\ t.at = "commit" /\ Good(entries, grants, units) /\ Ready(t, entries, grants)
      /\ Found(t, nextTicket, entries, grants, units, attempts)
      /\ nextTicket' = Over(t.nextTicket, nextTicket)
      /\ attempts' = Over(t.attempts, attempts)
  BY CommitShape
<1>2. /\ t.nextTicket = <<>> /\ t.attempts = Row(t.key, a) /\ t.lag \in Lags
      /\ t.key \in Keys /\ t.result \in Results /\ t.key \notin DOMAIN attempts
  BY <1>1 DEF Found, Records, Working
<1>3. nextTicket' = nextTicket
  <2>1. IsTable(nextTicket) /\ DOMAIN <<>> = {}
    BY TxGood DEF TypeOK, IsTable
  <2> QED BY <1>1, <1>2, <2>1, OverEmpty
<1>4. attempts' = [j \in DOMAIN attempts \cup {t.key} |-> IF j = t.key THEN a ELSE attempts[j]]
  <2>1. DOMAIN Row(t.key, a) = {t.key} /\ Row(t.key, a)[t.key] = a
    BY DEF Row
  <2> HIDE DEF a
  <2> QED BY <1>1, <1>2, <2>1 DEF Over
<1>5. HasRight(t, entries) /\ (Sells(t) <=> t.result = "success")
      /\ (Promotes(t, entries) <=> ~Sells(t))
  BY DEF HasRight, Sells, Promotes
<1>6. e \in DOMAIN grants /\ grants[e].status = "CHECKOUT_PENDING"
  BY <1>1, <1>5 DEF Ready, GrantFits
<1>7. RecordAttempt(e, t.key, t.result)
  BY <1>2, <1>3, <1>4, <1>6 DEF RecordAttempt
<1>8. ASSUME t.result # "success" PROVE PaymentFails(e, t.key, t.result)
  <2>1. EntryTo(t) = "PAYMENT_FAILED" /\ GrantTo(t) = "FAILED"
    BY <1>5, <1>8 DEF EntryTo, GrantTo
  <2>2. /\ MarkEntryStatus(entries, e, "CHECKOUT_PENDING", "PAYMENT_FAILED")
              = BaseEntries(t, entries)
        /\ UpdateGrantStatus(grants, e, "CHECKOUT_PENDING", "FAILED")
              = BaseGrants(t, entries, grants)
        /\ MarkUnitAvailable(units, grants[e].unit) = BaseUnits(t, entries, grants, units)
        /\ OwnSaid(t, entries) = {e}
    BY <1>1, <1>5, <1>8, <2>1, RightWritten
  <2>3. Promote(MarkEntryStatus(entries, e, "CHECKOUT_PENDING", "PAYMENT_FAILED"),
                UpdateGrantStatus(grants, e, "CHECKOUT_PENDING", "FAILED"),
                MarkUnitAvailable(units, grants[e].unit), e[1], t.lag, {e})
    BY <1>5, <1>8, <2>2, CommitPromotes
  <2> QED BY <1>2, <1>7, <2>3 DEF PaymentFails
<1>9. ASSUME t.result = "success" PROVE PaymentSucceeds(e, t.key)
  <2>1. EntryTo(t) = "PURCHASED" /\ GrantTo(t) = "PURCHASED"
    BY <1>5, <1>9 DEF EntryTo, GrantTo
  <2> DEFINE BE == BaseEntries(t, entries)
             BU == BaseUnits(t, entries, grants, units)
             C == ClosedBy(t, entries, grants, units)
  <2>2. /\ MarkEntryStatus(entries, e, "CHECKOUT_PENDING", "PURCHASED") = BE
        /\ UpdateGrantStatus(grants, e, "CHECKOUT_PENDING", "PURCHASED")
              = BaseGrants(t, entries, grants)
        /\ MarkUnitSold(units, grants[e].unit) = BU
        /\ OwnSaid(t, entries) = {e}
    BY <1>1, <1>5, <1>9, <2>1, RightWritten
  <2>3. /\ entries' = ClosedEntries(BE, C)
        /\ grants' = BaseGrants(t, entries, grants)
        /\ units' = BU
        /\ announced' = {e} \cup C
    BY <1>5, <1>9, <2>2, CommitSettles
  <2>4. C = IF AllSold(BU, e[1]) THEN Waiting(BE, e[1]) ELSE {}
    BY <1>1, <1>5, <1>9 DEF ClosedBy, Line
  <2> HIDE DEF BE, BU, C
  <2>5. CloseQueueIfSoldOut(BE, units', e[1], {e})
    BY <2>3, <2>4 DEF CloseQueueIfSoldOut, ClosedEntries
  <2> QED BY <1>7, <1>9, <2>2, <2>3, <2>5 DEF PaymentSucceeds
<1> QED BY <1>2, <1>6, <1>8, <1>9

(* Every commit is a step of FairQueue. *)
LEMMA CommitIsAStep ==
    ASSUME TxInv, NEW s \in Sessions, Commit(s)
    PROVE  Next
<1>1. /\ Ready(tx[s], entries, grants)
  BY CommitShape
<1>2. tx[s].op \in {"join", "leave", "checkout", "pay", "expire"} /\ tx[s].e[1] \in Products
  BY <1>1 DEF Ready, EntryIds
<1>3. CASE tx[s].op = "join"
  BY <1>1, <1>2, <1>3, CommitJoins DEF Ready, Next
<1>4. CASE tx[s].op = "leave"
  BY <1>4, CommitLeaves DEF Next
<1>5. CASE tx[s].op = "checkout"
  BY <1>5, CommitStartsCheckout DEF Next
<1>6. CASE tx[s].op = "pay"
  BY <1>6, CommitPays DEF Next, Results
<1>7. CASE tx[s].op = "expire"
  BY <1>7, CommitExpires DEF Next
<1> QED BY <1>2, <1>3, <1>4, <1>5, <1>6, <1>7

-----------------------------------------------------------------------------
(***************************************************************************)
(* What the others leave alone while a transaction t is open; r is t       *)
(* afterwards, possibly older.                                             *)
(***************************************************************************)
SameButLag(t, r) ==
    /\ r.op = t.op /\ r.at = t.at /\ r.e = t.e /\ r.user = t.user /\ r.key = t.key
    /\ r.result = t.result /\ r.locks = t.locks /\ r.said = t.said
    /\ r.nextTicket = t.nextTicket /\ r.entries = t.entries /\ r.grants = t.grants
    /\ r.units = t.units /\ r.attempts = t.attempts

(* Rows that it has locked do not change, and a grant keeps its unit.      *)
Kept(t, es, gs, us, es2, gs2, us2) ==
    /\ \A x \in DOMAIN es : x \in DOMAIN es2
    /\ \A x \in DOMAIN es : <<"entry", x>> \in t.locks => es2[x] = es[x]
    /\ \A x \in DOMAIN gs : x \in DOMAIN gs2 /\ gs2[x].unit = gs[x].unit
    /\ \A u \in Units : <<"unit", u>> \in t.locks => us2[u] = us[u]

(* If it has locked its product, the others may only start checkouts.      *)
Still(t, nt, es, us, nt2, es2, us2) ==
    ProductRow(t) \in t.locks =>
        /\ nt2[t.e[1]] = nt[t.e[1]]
        /\ \A u \in UnitsOf(t.e[1]) : us2[u] = us[u]
        /\ \A x \in DOMAIN es2 : x[1] = t.e[1] => x \in DOMAIN es
        /\ \A x \in DOMAIN es : x[1] = t.e[1] =>
              /\ es2[x].user = es[x].user
              /\ \/ es2[x].status = es[x].status
                 \/ es[x].status = "GRANTED" /\ es2[x].status = "CHECKOUT_PENDING"

(* Its key stays unused, and what it has found of its grant stays true.    *)
Timed(t, r, gs, at, gs2, at2) ==
    /\ <<"key", t.key>> \in t.locks /\ t.key \notin DOMAIN at => t.key \notin DOMAIN at2
    /\ r.lag \in Lags
    /\ t.op \in {"checkout", "expire"} /\ gs2[t.e].status = "ACTIVE" => r.lag <= gs2[t.e].age
    /\ <<"grant", t.e>> \in t.locks /\ GrantFits(t, gs) => GrantFits(r, gs2)

(* The entry the transaction is about is new, or locked. *)
Firm(t, es, es2) == t.op = "join" \/ (t.e \in DOMAIN es /\ es2[t.e] = es[t.e])

(* The rows the transaction writes itself do not depend on the others. *)
LEMMA OwnRowsStay ==
    ASSUME NEW t, NEW r, SameButLag(t, r), NEW es, NEW gs, NEW us, NEW es2, NEW gs2, NEW us2,
           Kept(t, es, gs, us, es2, gs2, us2), Firm(t, es, es2),
           HasRight(t, es) => t.e \in DOMAIN gs
    PROVE  /\ HasRight(r, es2) <=> HasRight(t, es)
           /\ Sells(r) <=> Sells(t)
           /\ Promotes(r, es2) <=> Promotes(t, es)
           /\ OwnEntry(r, es2) = OwnEntry(t, es)
           /\ OwnGrant(r, es2, gs2) = OwnGrant(t, es, gs)
           /\ OwnUnit(r, es2, gs2) = OwnUnit(t, es, gs)
           /\ OwnSaid(r, es2) = OwnSaid(t, es)
<1>1. /\ r.op = t.op /\ r.at = t.at /\ r.e = t.e /\ r.user = t.user /\ r.result = t.result
  BY DEF SameButLag
<1>2. HasRight(r, es2) <=> HasRight(t, es)
  BY <1>1 DEF HasRight, Firm
<1>3. (Sells(r) <=> Sells(t)) /\ (Promotes(r, es2) <=> Promotes(t, es))
  BY <1>1, <1>2 DEF Sells, Promotes
<1>4. EntryTo(r) = EntryTo(t) /\ GrantTo(r) = GrantTo(t)
  BY <1>1, <1>3 DEF EntryTo, GrantTo
<1>5. OwnEntry(r, es2) = OwnEntry(t, es)
  BY <1>1, <1>4 DEF OwnEntry, Firm
<1>6. HasRight(t, es) => gs2[t.e].unit = gs[t.e].unit
  BY DEF Kept
<1>7. OwnGrant(r, es2, gs2) = OwnGrant(t, es, gs)
  BY <1>1, <1>2, <1>4, <1>6 DEF OwnGrant
<1>8. OwnUnit(r, es2, gs2) = OwnUnit(t, es, gs)
  BY <1>1, <1>2, <1>3, <1>6 DEF OwnUnit
<1>9. OwnSaid(r, es2) = OwnSaid(t, es)
  BY <1>1, <1>2 DEF OwnSaid
<1> QED BY <1>2, <1>3, <1>5, <1>7, <1>8, <1>9

(* Nor do the line and the stock, while it holds the product. *)
LEMMA LineStays ==
    ASSUME NEW t, NEW r, SameButLag(t, r), NEW nt, NEW nt2,
           NEW es, NEW gs, NEW us, NEW es2, NEW gs2, NEW us2,
           Kept(t, es, gs, us, es2, gs2, us2), Firm(t, es, es2),
           Good(es, gs, us), Good(es2, gs2, us2), Ready(t, es, gs), Ready(r, es2, gs2),
           Still(t, nt, es, us, nt2, es2, us2), ProductRow(t) \in t.locks
    PROVE  /\ Line(r, es2) = Line(t, es)
           /\ PairsOf(r, es2, gs2, us2) = PairsOf(t, es, gs, us)
           /\ AllSold(BaseUnits(r, es2, gs2, us2), r.e[1])
                 <=> AllSold(BaseUnits(t, es, gs, us), t.e[1])
<1> DEFINE p == t.e[1]
           B == BaseEntries(t, es)
           D == BaseEntries(r, es2)
           U == BaseUnits(t, es, gs, us)
           V == BaseUnits(r, es2, gs2, us2)
           OE == OwnEntry(t, es)
           OU == OwnUnit(t, es, gs)
<1>1. /\ r.e = t.e /\ r.op = t.op
      /\ OwnEntry(r, es2) = OE /\ OwnUnit(r, es2, gs2) = OU
  BY OwnRowsStay DEF SameButLag, Ready, GrantFits
<1>2. /\ \A x : x \in DOMAIN B <=> x \in DOMAIN OE \/ x \in DOMAIN es
      /\ \A x \in DOMAIN OE : B[x] = OE[x]
      /\ \A x \in DOMAIN es : x \notin DOMAIN OE => B[x] = es[x]
  BY OverRows DEF BaseEntries
<1>3. /\ \A x : x \in DOMAIN D <=> x \in DOMAIN OE \/ x \in DOMAIN es2
      /\ \A x \in DOMAIN OE : D[x] = OE[x]
      /\ \A x \in DOMAIN es2 : x \notin DOMAIN OE => D[x] = es2[x]
  BY <1>1, OverRows DEF BaseEntries
<1>4. /\ \A x : x \in DOMAIN U <=> x \in DOMAIN OU \/ x \in DOMAIN us
      /\ \A x \in DOMAIN OU : U[x] = OU[x]
      /\ \A x \in DOMAIN us : x \notin DOMAIN OU => U[x] = us[x]
  BY OverRows DEF BaseUnits
<1>5. /\ \A x : x \in DOMAIN V <=> x \in DOMAIN OU \/ x \in DOMAIN us2
      /\ \A x \in DOMAIN OU : V[x] = OU[x]
      /\ \A x \in DOMAIN us2 : x \notin DOMAIN OU => V[x] = us2[x]
  BY <1>1, OverRows DEF BaseUnits
<1>6. DOMAIN us = Units /\ DOMAIN us2 = Units
  BY DEF Good, Consistent, UnitsOK
<1>7. /\ \A u \in UnitsOf(p) : us2[u] = us[u] /\ u \in Units
      /\ \A x \in DOMAIN es2 : x[1] = p => x \in DOMAIN es
      /\ \A x \in DOMAIN es : x[1] = p =>
            /\ x \in DOMAIN es2
            /\ \/ es2[x].status = es[x].status
               \/ es[x].status = "GRANTED" /\ es2[x].status = "CHECKOUT_PENDING"
  BY DEF Still, Kept, UnitsOf
<1> HIDE DEF B, D, U, V, OE, OU
<1>8. \A u \in UnitsOf(p) : V[u] = U[u]
  BY <1>4, <1>5, <1>6, <1>7
<1>9. Available(V, p) = Available(U, p)
  BY <1>8 DEF Available
<1>10. AllSold(V, p) <=> AllSold(U, p)
  BY <1>8 DEF AllSold
<1>11. \A x : x \in Waiting(D, p) <=> x \in Waiting(B, p)
  BY <1>2, <1>3, <1>7 DEF Waiting
<1>12. Waiting(D, p) = Waiting(B, p)
  BY <1>11
<1>13. Pairs(D, V, p) = Pairs(B, U, p)
  BY <1>9, <1>12 DEF Pairs
<1> QED BY <1>1, <1>10, <1>12, <1>13 DEF Line, PairsOf, B, D, U, V

(* What a transaction has found stays true. *)
LEMMA FoundStays ==
    ASSUME NEW t, NEW r, SameButLag(t, r), NEW nt, NEW nt2, NEW at, NEW at2,
           NEW es, NEW gs, NEW us, NEW es2, NEW gs2, NEW us2,
           Kept(t, es, gs, us, es2, gs2, us2), Still(t, nt, es, us, nt2, es2, us2),
           Timed(t, r, gs, at, gs2, at2), Found(t, nt, es, gs, us, at),
           t.op = "join" /\ t.at \in Working => ProductRow(t) \in t.locks,
           t.op = "leave" => t.at \notin {"attempt", "settle"},
           t.at \in Working => Firm(t, es, es2)
    PROVE  Found(r, nt2, es2, gs2, us2, at2)
<1>1. /\ r.op = t.op /\ r.at = t.at /\ r.e = t.e /\ r.user = t.user /\ r.key = t.key
      /\ r.result = t.result /\ r.locks = t.locks
      /\ r.nextTicket = t.nextTicket /\ r.attempts = t.attempts
  BY DEF SameButLag
<1>2. Records(r) <=> Records(t)
  BY <1>1 DEF Records
<1>3. Records(t) => t.key \notin DOMAIN at2
  BY DEF Found, Timed
<1>4. ASSUME t.op = "join", t.at \in Working PROVE MayJoin(r, nt2, es2, us2)
  <2> DEFINE p == t.e[1]
  <2>1. MayJoin(t, nt, es, us)
    BY <1>4 DEF Found
  <2>2. /\ nt2[p] = nt[p]
        /\ \A u \in UnitsOf(p) : us2[u] = us[u]
        /\ \A x \in DOMAIN es2 : x[1] = p => x \in DOMAIN es
        /\ \A x \in DOMAIN es : x[1] = p =>
              /\ es2[x].user = es[x].user
              /\ \/ es2[x].status = es[x].status
                 \/ es[x].status = "GRANTED" /\ es2[x].status = "CHECKOUT_PENDING"
    BY <1>4 DEF Still
  <2>3. AllSold(us2, p) <=> AllSold(us, p)
    BY <2>2 DEF AllSold
  <2>4. \A x \in Active(es2, t.user, p) : x \in Active(es, t.user, p)
    BY <2>2 DEF Active, ActiveEntry
  <2>5. Active(es, t.user, p) = {}
    BY <2>1 DEF MayJoin
  <2>6. Active(es2, t.user, p) = {}
    BY <2>4, <2>5
  <2> QED BY <1>1, <2>1, <2>2, <2>3, <2>6 DEF MayJoin
<1>5. ASSUME HasRight(r, es2), \/ t.at \in {"attempt", "settle"} \cup Working
                               \/ t.op = "checkout" /\ t.at = "entry"
      PROVE  <<"grant", t.e>> \in t.locks /\ GrantFits(r, gs2)
  <2>1. HasRight(t, es)
    BY <1>1, <1>5 DEF HasRight, Firm
  <2> QED BY <1>5, <2>1 DEF Found, Timed
<1>6. /\ t.op = "pay" => t.key \in Keys /\ t.result \in Results
      /\ ~(t.op = "join" /\ t.at \in Working) => t.nextTicket = <<>>
      /\ Records(t) => /\ <<"key", t.key>> \in t.locks
                       /\ t.attempts = Row(t.key, [entry |-> t.e, result |-> t.result])
      /\ ~Records(t) => t.attempts = <<>>
  BY DEF Found
<1>7. /\ r.lag \in Lags
      /\ t.op \in {"checkout", "expire"} /\ gs2[t.e].status = "ACTIVE" => r.lag <= gs2[t.e].age
  BY DEF Timed
<1> QED BY <1>1, <1>2, <1>3, <1>4, <1>5, <1>6, <1>7 DEF Found

(* Rows put over a table give the table wanted when they have its rows and *)
(* the others are those of the table below.                                *)
LEMMA OverIs ==
    ASSUME NEW f, NEW T, NEW W, IsTable(W),
           \A x : x \in DOMAIN W <=> x \in DOMAIN f \/ x \in DOMAIN T,
           \A x \in DOMAIN f : W[x] = f[x],
           \A x \in DOMAIN T : x \notin DOMAIN f => W[x] = T[x]
    PROVE  Over(f, T) = W
<1> DEFINE O == Over(f, T)
<1>1. /\ IsTable(O)
      /\ \A x : x \in DOMAIN O <=> x \in DOMAIN f \/ x \in DOMAIN T
      /\ \A x \in DOMAIN f : O[x] = f[x]
      /\ \A x \in DOMAIN T : x \notin DOMAIN f => O[x] = T[x]
  BY OverIsTable, OverRows
<1> HIDE DEF O
<1>2. DOMAIN O = DOMAIN W
  BY <1>1 DEF IsTable
<1>3. \A x \in DOMAIN W : O[x] = W[x]
  BY <1>1
<1>4. O = W
  BY <1>1, <1>2, <1>3, SameRows
<1> QED BY <1>4 DEF O

(* The row of an entry after promotion and closing. *)
Stamp(row, x, M, C) ==
    LET a == IF x \in Firsts(M) THEN [row EXCEPT !.status = "GRANTED"] ELSE row
    IN  IF x \in C THEN [a EXCEPT !.status = "SOLD_OUT"] ELSE a

(* The rows of the entries a transaction will leave. *)
LEMMA WillStamp ==
    ASSUME NEW t, NEW M, NEW es, NEW gs, NEW us, NEW C, C = ClosedBy(t, es, gs, us)
    PROVE  \A x \in DOMAIN BaseEntries(t, es) :
              WillEntries(t, M, es, gs, us)[x] = Stamp(BaseEntries(t, es)[x], x, M, C)
<1> DEFINE B == BaseEntries(t, es)
           P == PromotedEntries(B, M)
<1>1. /\ DOMAIN P = DOMAIN B
      /\ \A x \in DOMAIN B : P[x] =
            IF x \in Firsts(M) THEN [B[x] EXCEPT !.status = "GRANTED"] ELSE B[x]
  BY EntriesPromoted
<1>2. WillEntries(t, M, es, gs, us) = ClosedEntries(P, C)
  BY DEF WillEntries
<1> HIDE DEF B, P
<1>3. \A x \in DOMAIN P : ClosedEntries(P, C)[x] =
          IF x \in C THEN [P[x] EXCEPT !.status = "SOLD_OUT"] ELSE P[x]
  BY DEF ClosedEntries
<1>4. \A x \in DOMAIN B : ClosedEntries(P, C)[x] = Stamp(B[x], x, M, C)
  BY <1>1, <1>3 DEF Stamp
<1> QED BY <1>2, <1>4 DEF B

(* The entries it has written, over those the others have left, are what   *)
(* it will leave there.                                                    *)
LEMMA EntriesStay ==
    ASSUME NEW t, NEW r, SameButLag(t, r),
           NEW es, NEW gs, NEW us, NEW es2, NEW gs2, NEW us2,
           Kept(t, es, gs, us, es2, gs2, us2), Firm(t, es, es2),
           Good(es, gs, us), Good(es2, gs2, us2), Ready(t, es, gs), Ready(r, es2, gs2),
           NEW M, M \subseteq PairsOf(t, es, gs, us), M \subseteq PairsOf(r, es2, gs2, us2),
           ClosedBy(r, es2, gs2, us2) = ClosedBy(t, es, gs, us),
           \A m \in M : <<"entry", m[1]>> \in t.locks,
           \A x \in ClosedBy(t, es, gs, us) : <<"entry", x>> \in t.locks,
           \A x \in DOMAIN t.entries : <<"entry", x>> \in t.locks
    PROVE  Over(t.entries, es) = WillEntries(t, M, es, gs, us) =>
              Over(r.entries, es2) = WillEntries(r, M, es2, gs2, us2)
<1> SUFFICES ASSUME Over(t.entries, es) = WillEntries(t, M, es, gs, us)
             PROVE  Over(r.entries, es2) = WillEntries(r, M, es2, gs2, us2)
  OBVIOUS
<1> DEFINE B == BaseEntries(t, es)
           D == BaseEntries(r, es2)
           OE == OwnEntry(t, es)
           C == ClosedBy(t, es, gs, us)
           W == WillEntries(t, M, es, gs, us)
           X == WillEntries(r, M, es2, gs2, us2)
           f == t.entries
<1>1. /\ r.e = t.e /\ r.op = t.op /\ r.entries = f
      /\ OwnEntry(r, es2) = OE
  BY OwnRowsStay DEF SameButLag, Ready, GrantFits
<1>2. /\ \A x \in DOMAIN OE : B[x] = OE[x]
      /\ \A x \in DOMAIN es : x \notin DOMAIN OE => B[x] = es[x]
  BY OverRows DEF BaseEntries
<1>3. /\ \A x \in DOMAIN OE : D[x] = OE[x]
      /\ \A x \in DOMAIN es2 : x \notin DOMAIN OE => D[x] = es2[x]
  BY <1>1, OverRows DEF BaseEntries
<1>4. /\ \A x : x \in DOMAIN B <=> x \in DOMAIN es \/ (t.op = "join" /\ x = t.e)
      /\ \A x : x \in DOMAIN D <=> x \in DOMAIN es2 \/ (t.op = "join" /\ x = t.e)
  BY <1>1, BaseTables
<1>5. /\ \A x : x \in DOMAIN W <=> x \in DOMAIN es \/ (t.op = "join" /\ x = t.e)
      /\ IsTable(X)
      /\ \A x : x \in DOMAIN X <=> x \in DOMAIN es2 \/ (t.op = "join" /\ x = t.e)
  BY <1>1, WillTables
<1>6. /\ \A x \in DOMAIN B : W[x] = Stamp(B[x], x, M, C)
      /\ \A x \in DOMAIN D : X[x] = Stamp(D[x], x, M, C)
  BY WillStamp
<1>7. /\ \A x : x \in DOMAIN W <=> x \in DOMAIN f \/ x \in DOMAIN es
      /\ \A x \in DOMAIN f : W[x] = f[x]
      /\ \A x \in DOMAIN es : x \notin DOMAIN f => W[x] = es[x]
  <2>1. W = Over(f, es)
    OBVIOUS
  <2> HIDE DEF W
  <2> QED BY <2>1, OverRows
<1>8. /\ \A x \in DOMAIN OE : x = t.e
      /\ t.op = "join" => t.e \in DOMAIN OE /\ t.e \notin DOMAIN es /\ t.e \notin DOMAIN es2
      /\ t.op # "join" => t.e \in DOMAIN es /\ es2[t.e] = es[t.e]
  BY <1>1, OwnRowsAre DEF Ready, Firm
<1>9. /\ \A x \in Firsts(M) : <<"entry", x>> \in t.locks /\ x \in DOMAIN B
      /\ \A x \in C : <<"entry", x>> \in t.locks /\ x \in DOMAIN B
  <2>1. \A x \in Firsts(M) : <<"entry", x>> \in t.locks
    BY DEF Firsts
  <2>2. \A x \in Firsts(M) : x \in Line(t, es)
    BY PairsFit
  <2>3. \A x \in C : x \in Line(t, es)
    BY DEF ClosedBy
  <2>4. \A x \in Line(t, es) : x \in DOMAIN B
    BY LineAndStock
  <2> QED BY <2>1, <2>2, <2>3, <2>4
<1>10. /\ \A x \in DOMAIN es : <<"entry", x>> \in t.locks => x \in DOMAIN es2 /\ es2[x] = es[x]
       /\ \A x \in DOMAIN es : x \in DOMAIN es2
  BY DEF Kept
<1>11. \A x \in DOMAIN f : <<"entry", x>> \in t.locks
  OBVIOUS
<1> HIDE DEF B, D, OE, C, W, X, f
<1>12. \A x \in DOMAIN B : x \in DOMAIN OE \/ <<"entry", x>> \in t.locks =>
          D[x] = B[x] /\ x \in DOMAIN D
  BY <1>2, <1>3, <1>4, <1>8, <1>10
<1>13. \A x \in DOMAIN f : X[x] = f[x]
  BY <1>4, <1>5, <1>6, <1>7, <1>11, <1>12
<1>14. ASSUME NEW x \in DOMAIN es2, x \notin DOMAIN f
       PROVE  X[x] = es2[x]
  <2>1. CASE x \in DOMAIN OE \/ x \in Firsts(M) \/ x \in C
    <3>1. x \in DOMAIN es /\ es2[x] = es[x]
      BY <1>4, <1>8, <1>9, <1>10, <1>14, <2>1
    <3>2. x \in DOMAIN B /\ D[x] = B[x] /\ x \in DOMAIN D
      BY <1>4, <1>9, <1>12, <2>1, <3>1
    <3> QED BY <1>6, <1>7, <1>14, <3>1, <3>2
  <2>2. CASE x \notin DOMAIN OE /\ x \notin Firsts(M) /\ x \notin C
    <3>1. D[x] = es2[x] /\ x \in DOMAIN D
      BY <1>3, <1>4, <1>14, <2>2
    <3>2. Stamp(D[x], x, M, C) = D[x]
      BY <2>2 DEF Stamp
    <3> QED BY <1>6, <3>1, <3>2
  <2> QED BY <2>1, <2>2
<1>15. \A x : x \in DOMAIN X <=> x \in DOMAIN f \/ x \in DOMAIN es2
  BY <1>5, <1>7, <1>8, <1>10
<1>16. Over(f, es2) = X
  BY <1>5, <1>13, <1>14, <1>15, OverIs
<1> QED BY <1>1, <1>16 DEF f, X

(* The grants, likewise. *)
LEMMA GrantsStay ==
    ASSUME NEW t, NEW r, SameButLag(t, r),
           NEW es, NEW gs, NEW us, NEW es2, NEW gs2, NEW us2,
           Kept(t, es, gs, us, es2, gs2, us2), Firm(t, es, es2),
           Good(es, gs, us), Good(es2, gs2, us2), Ready(t, es, gs), Ready(r, es2, gs2),
           NEW M, M \subseteq PairsOf(t, es, gs, us), M \subseteq PairsOf(r, es2, gs2, us2),
           DOMAIN t.grants = DOMAIN OwnGrant(t, es, gs) \cup Firsts(M),
           Over(t.grants, gs) = WillGrants(t, M, es, gs)
    PROVE  /\ Over(r.grants, gs2) = WillGrants(r, M, es2, gs2)
           /\ DOMAIN r.grants = DOMAIN OwnGrant(r, es2, gs2) \cup Firsts(M)
<1> DEFINE B == BaseGrants(t, es, gs)
           D == BaseGrants(r, es2, gs2)
           OG == OwnGrant(t, es, gs)
           W == WillGrants(t, M, es, gs)
           X == WillGrants(r, M, es2, gs2)
           f == t.grants
<1>1. /\ r.grants = f /\ OwnGrant(r, es2, gs2) = OG
  BY OwnRowsStay DEF SameButLag, Ready, GrantFits
<1>2. /\ \A x : x \in DOMAIN B <=> x \in DOMAIN OG \/ x \in DOMAIN gs
      /\ \A x \in DOMAIN OG : B[x] = OG[x]
      /\ \A x \in DOMAIN gs : x \notin DOMAIN OG => B[x] = gs[x]
  BY OverRows DEF BaseGrants
<1>3. /\ \A x : x \in DOMAIN D <=> x \in DOMAIN OG \/ x \in DOMAIN gs2
      /\ \A x \in DOMAIN OG : D[x] = OG[x]
      /\ \A x \in DOMAIN gs2 : x \notin DOMAIN OG => D[x] = gs2[x]
  BY <1>1, OverRows DEF BaseGrants
<1>4. OneEach(M)
  BY PairsFit
<1>5. /\ \A x : x \in DOMAIN W <=> x \in DOMAIN B \/ x \in Firsts(M)
      /\ \A m \in M : W[m[1]] = [unit |-> m[2], status |-> "ACTIVE", left |-> TTL - 0, age |-> 0]
      /\ \A x \in DOMAIN B \ Firsts(M) : W[x] = B[x]
  BY <1>4, GrantsPromoted DEF WillGrants
<1>6. /\ IsTable(X)
      /\ \A x : x \in DOMAIN X <=> x \in DOMAIN D \/ x \in Firsts(M)
      /\ \A m \in M : X[m[1]] = [unit |-> m[2], status |-> "ACTIVE", left |-> TTL - 0, age |-> 0]
      /\ \A x \in DOMAIN D \ Firsts(M) : X[x] = D[x]
  BY <1>4, GrantsPromoted DEF WillGrants
<1>7. /\ \A x \in DOMAIN f : W[x] = f[x]
      /\ \A x : x \in DOMAIN f <=> x \in DOMAIN OG \/ x \in Firsts(M)
  <2>1. W = Over(f, gs)
    OBVIOUS
  <2>2. DOMAIN f = DOMAIN OG \cup Firsts(M)
    OBVIOUS
  <2> HIDE DEF W, OG, f
  <2> QED BY <2>1, <2>2, OverRows
<1>8. \A x \in Firsts(M) : X[x] = W[x]
  <2> SUFFICES ASSUME NEW m \in M PROVE X[m[1]] = W[m[1]]
    BY DEF Firsts
  <2> HIDE DEF X, W
  <2>1. W[m[1]] = [unit |-> m[2], status |-> "ACTIVE", left |-> TTL - 0, age |-> 0]
    BY <1>5
  <2>2. X[m[1]] = [unit |-> m[2], status |-> "ACTIVE", left |-> TTL - 0, age |-> 0]
    BY <1>6
  <2> QED BY <2>1, <2>2, Zenon
<1> HIDE DEF B, D, OG, W, X, f
<1>9. \A x \in DOMAIN f : X[x] = f[x]
  BY <1>2, <1>3, <1>5, <1>6, <1>7, <1>8
<1>10. \A x \in DOMAIN gs2 : x \notin DOMAIN f => X[x] = gs2[x]
  BY <1>3, <1>6, <1>7
<1>11. \A x : x \in DOMAIN X <=> x \in DOMAIN f \/ x \in DOMAIN gs2
  BY <1>3, <1>6, <1>7
<1>12. Over(f, gs2) = X
  BY <1>6, <1>9, <1>10, <1>11, OverIs
<1>13. DOMAIN f = DOMAIN OG \cup Firsts(M)
  BY DEF f, OG
<1> QED BY <1>1, <1>12, <1>13 DEF f, X

(* The units, likewise. *)
LEMMA UnitsStay ==
    ASSUME NEW t, NEW r, SameButLag(t, r),
           NEW es, NEW gs, NEW us, NEW es2, NEW gs2, NEW us2,
           Kept(t, es, gs, us, es2, gs2, us2), Firm(t, es, es2),
           Good(es, gs, us), Good(es2, gs2, us2), Ready(t, es, gs), Ready(r, es2, gs2),
           NEW M, M \subseteq PairsOf(t, es, gs, us), M \subseteq PairsOf(r, es2, gs2, us2),
           \A m \in M : <<"unit", m[2]>> \in t.locks,
           \A u \in DOMAIN OwnUnit(t, es, gs) : <<"unit", u>> \in t.locks,
           \A u \in DOMAIN t.units : u \in Units /\ <<"unit", u>> \in t.locks
    PROVE  Over(t.units, us) = WillUnits(t, M, es, gs, us) =>
              Over(r.units, us2) = WillUnits(r, M, es2, gs2, us2)
<1> SUFFICES ASSUME Over(t.units, us) = WillUnits(t, M, es, gs, us)
             PROVE  Over(r.units, us2) = WillUnits(r, M, es2, gs2, us2)
  OBVIOUS
<1> DEFINE B == BaseUnits(t, es, gs, us)
           D == BaseUnits(r, es2, gs2, us2)
           OU == OwnUnit(t, es, gs)
           W == WillUnits(t, M, es, gs, us)
           X == WillUnits(r, M, es2, gs2, us2)
           f == t.units
<1>1. /\ r.units = f /\ OwnUnit(r, es2, gs2) = OU
  BY OwnRowsStay DEF SameButLag, Ready, GrantFits
<1>2. /\ \A x \in DOMAIN OU : B[x] = OU[x]
      /\ \A x \in DOMAIN us : x \notin DOMAIN OU => B[x] = us[x]
  BY OverRows DEF BaseUnits
<1>3. /\ \A x \in DOMAIN OU : D[x] = OU[x]
      /\ \A x \in DOMAIN us2 : x \notin DOMAIN OU => D[x] = us2[x]
  BY <1>1, OverRows DEF BaseUnits
<1>4. /\ OneEach(M) /\ \A m \in M : m[2] \in Units
  <2>1. OneEach(M) /\ \A m \in M : m[2] \in Stock(t, es, gs, us)
    BY PairsFit
  <2>2. \A u \in Stock(t, es, gs, us) : u \in Units
    BY LineAndStock
  <2> QED BY <2>1, <2>2
<1>5. /\ \A m \in M : W[m[2]] = [status |-> "RESERVED", grant |-> m[1]]
      /\ \A u \in Units \ Seconds(M) : W[u] = B[u]
  BY <1>4, UnitsPromoted DEF WillUnits
<1>6. /\ IsTable(X) /\ DOMAIN X = Units
      /\ \A m \in M : X[m[2]] = [status |-> "RESERVED", grant |-> m[1]]
      /\ \A u \in Units \ Seconds(M) : X[u] = D[u]
  BY <1>4, UnitsPromoted DEF WillUnits
<1>7. /\ \A x \in DOMAIN f : W[x] = f[x]
      /\ \A x \in DOMAIN us : x \notin DOMAIN f => W[x] = us[x]
  <2>1. W = Over(f, us)
    OBVIOUS
  <2> HIDE DEF W, f
  <2> QED BY <2>1, OverRows
<1>8. \A u \in Seconds(M) : X[u] = W[u] /\ <<"unit", u>> \in t.locks
  <2> SUFFICES ASSUME NEW m \in M PROVE X[m[2]] = W[m[2]] /\ <<"unit", m[2]>> \in t.locks
    BY DEF Seconds
  <2> HIDE DEF X, W
  <2>1. W[m[2]] = [status |-> "RESERVED", grant |-> m[1]] /\ <<"unit", m[2]>> \in t.locks
    BY <1>5
  <2>2. X[m[2]] = [status |-> "RESERVED", grant |-> m[1]]
    BY <1>6
  <2> QED BY <2>1, <2>2, Zenon
<1>9. DOMAIN us = Units /\ DOMAIN us2 = Units
  BY DEF Good, Consistent, UnitsOK
<1>10. /\ \A u \in Units : <<"unit", u>> \in t.locks => us2[u] = us[u]
       /\ \A u \in DOMAIN f : u \in Units /\ <<"unit", u>> \in t.locks
       /\ \A u \in DOMAIN OU : <<"unit", u>> \in t.locks
  BY DEF Kept
<1> HIDE DEF B, D, OU, W, X, f
<1>11. \A u \in Units : <<"unit", u>> \in t.locks => X[u] = W[u]
  BY <1>2, <1>3, <1>5, <1>6, <1>8, <1>9, <1>10
<1>12. \A u \in DOMAIN f : X[u] = f[u]
  BY <1>7, <1>10, <1>11
<1>13. \A u \in DOMAIN us2 : u \notin DOMAIN f => X[u] = us2[u]
  BY <1>3, <1>6, <1>7, <1>8, <1>9, <1>10, <1>11
<1>14. \A x : x \in DOMAIN X <=> x \in DOMAIN f \/ x \in DOMAIN us2
  BY <1>6, <1>9, <1>10
<1>15. Over(f, us2) = X
  BY <1>6, <1>12, <1>13, <1>14, OverIs
<1> QED BY <1>1, <1>15 DEF f, X

(* What holds of a transaction still holds after a step of another, or     *)
(* after a tick.                                                           *)
LEMMA SoundStays ==
    ASSUME NEW t, NEW r, SameButLag(t, r), NEW nt, NEW nt2, NEW at, NEW at2,
           NEW es, NEW gs, NEW us, NEW es2, NEW gs2, NEW us2,
           Kept(t, es, gs, us, es2, gs2, us2), Still(t, nt, es, us, nt2, es2, us2),
           Timed(t, r, gs, at, gs2, at2), FollowsPlan(t),
           Good(es, gs, us), Good(es2, gs2, us2), t.at \in Working => Ready(t, es, gs),
           \A x \in DOMAIN t.entries : <<"entry", x>> \in t.locks,
           Sound(t, nt, es, gs, us, at)
    PROVE  Sound(r, nt2, es2, gs2, us2, at2)
<1>1. /\ r.op = t.op /\ r.at = t.at /\ r.e = t.e /\ r.user = t.user
      /\ r.locks = t.locks /\ r.said = t.said /\ r.units = t.units
  BY DEF SameButLag
<1>2. /\ t.at \in Working /\ t.op # "checkout" => ProductRow(t) \in t.locks
      /\ t.at \in Working /\ t.op = "checkout" => t.at = "commit"
      /\ t.op = "leave" => t.at \notin {"attempt", "settle"}
  BY DEF FollowsPlan, CheckoutPlan, ProductPlan, Working
<1>3. ASSUME t.at \in Working PROVE Firm(t, es, es2)
  <2>1. <<"entry", t.e>> \in t.locks
    BY <1>3 DEF Sound
  <2>2. t.op # "join" => t.e \in DOMAIN es
    <3>1. DOMAIN gs \subseteq DOMAIN es
      BY DEF Good, Consistent, GrantsOK
    <3> QED BY <1>3, <3>1 DEF Ready, HasRight, GrantFits
  <2> QED BY <2>1, <2>2 DEF Firm, Kept
<1>4. Found(r, nt2, es2, gs2, us2, at2)
  <2>1. Found(t, nt, es, gs, us, at)
    BY DEF Sound
  <2> QED BY <1>2, <1>3, <2>1, FoundStays
<1>5. /\ \A u \in DOMAIN r.units : u \in Units /\ <<"unit", u>> \in r.locks
      /\ r.at \in Reading => DOMAIN r.units = {} /\ r.said = {}
  BY <1>1 DEF Sound
<1>6. CASE t.at \notin Working
  BY <1>1, <1>4, <1>5, <1>6 DEF Sound
<1>7. CASE t.at \in Working
  <2>1. /\ Firm(t, es, es2) /\ Ready(t, es, gs)
    BY <1>3, <1>7
  <2>2. HasRight(t, es) => t.e \in DOMAIN gs
    BY <2>1 DEF Ready, GrantFits
  <2>3. /\ HasRight(r, es2) <=> HasRight(t, es)
        /\ Sells(r) <=> Sells(t)
        /\ Promotes(r, es2) <=> Promotes(t, es)
        /\ OwnUnit(r, es2, gs2) = OwnUnit(t, es, gs)
        /\ OwnSaid(r, es2) = OwnSaid(t, es)
    BY <2>1, <2>2, OwnRowsStay
  <2>4. Ready(r, es2, gs2)
    <3>1. t.op = "join" => t.e \notin DOMAIN es2
      BY <1>2, <1>7, <2>1 DEF Ready, Still
    <3>2. t.op = "leave" => /\ t.e \in DOMAIN es2 /\ es2[t.e] = es[t.e]
      BY <2>1 DEF Firm, Kept
    <3>3. HasRight(r, es2) => GrantFits(r, gs2)
      <4>1. HasRight(t, es) => <<"grant", t.e>> \in t.locks /\ GrantFits(t, gs)
        BY <1>7 DEF Sound, Found
      <4> QED BY <2>3, <4>1 DEF Timed
    <3> QED BY <1>1, <2>1, <3>1, <3>2, <3>3 DEF Ready
  <2>5. PICK M \in SUBSET PairsOf(t, es, gs, us) :
           Turned(t, M, es, gs, us) /\ Sees(t, M, es, gs, us)
    BY <1>7 DEF Sound
  <2>6. t.op # "checkout" =>
           /\ Line(r, es2) = Line(t, es)
           /\ PairsOf(r, es2, gs2, us2) = PairsOf(t, es, gs, us)
           /\ AllSold(BaseUnits(r, es2, gs2, us2), r.e[1])
                 <=> AllSold(BaseUnits(t, es, gs, us), t.e[1])
    BY <1>2, <1>7, <2>1, <2>4, LineStays
  <2>7. ClosedBy(r, es2, gs2, us2) = ClosedBy(t, es, gs, us)
    BY <1>1, <2>3, <2>6 DEF ClosedBy, Sells
  <2>8. t.op = "checkout" => M = {} /\ ~Promotes(t, es)
    BY <1>2, <1>7, <2>5 DEF Turned, Promotes, Sells
  <2>9. M \subseteq PairsOf(r, es2, gs2, us2)
    BY <2>6, <2>8
  <2>10. Turned(r, M, es2, gs2, us2)
    BY <1>1, <2>3, <2>5, <2>6, <2>8, <2>9 DEF Turned
  <2>11. /\ \A m \in M : <<"entry", m[1]>> \in t.locks /\ <<"unit", m[2]>> \in t.locks
         /\ \A x \in ClosedBy(t, es, gs, us) : <<"entry", x>> \in t.locks
         /\ \A u \in DOMAIN OwnUnit(t, es, gs) : <<"unit", u>> \in t.locks
         /\ \A u \in DOMAIN t.units : u \in Units /\ <<"unit", u>> \in t.locks
    BY <1>7, <2>5 DEF Turned, Sound
  <2>12. /\ Over(t.entries, es) = WillEntries(t, M, es, gs, us)
         /\ Over(t.grants, gs) = WillGrants(t, M, es, gs)
         /\ DOMAIN t.grants = DOMAIN OwnGrant(t, es, gs) \cup Firsts(M)
         /\ Over(t.units, us) = WillUnits(t, M, es, gs, us)
         /\ t.said = OwnSaid(t, es) \cup Firsts(M) \cup ClosedBy(t, es, gs, us)
    BY <2>5 DEF Sees, WillEntries, WillGrants, WillUnits
  <2>13. Over(r.entries, es2) = WillEntries(r, M, es2, gs2, us2)
    <3>1. M \subseteq PairsOf(t, es, gs, us)
      OBVIOUS
    <3>2. \A m \in M : <<"entry", m[1]>> \in t.locks
      BY <2>11
    <3>3. \A x \in ClosedBy(t, es, gs, us) : <<"entry", x>> \in t.locks
      BY <2>11
    <3>4. Over(t.entries, es) = WillEntries(t, M, es, gs, us)
      BY <2>12
    <3> QED BY <2>1, <2>4, <2>7, <2>9, <3>1, <3>2, <3>3, <3>4, EntriesStay
  <2>14. /\ Over(r.grants, gs2) = WillGrants(r, M, es2, gs2)
         /\ DOMAIN r.grants = DOMAIN OwnGrant(r, es2, gs2) \cup Firsts(M)
    BY <2>1, <2>4, <2>9, <2>12, GrantsStay
  <2>15. Over(r.units, us2) = WillUnits(r, M, es2, gs2, us2)
    <3>1. M \subseteq PairsOf(t, es, gs, us)
      OBVIOUS
    <3>2. \A m \in M : <<"unit", m[2]>> \in t.locks
      BY <2>11
    <3>3. /\ \A u \in DOMAIN OwnUnit(t, es, gs) : <<"unit", u>> \in t.locks
          /\ \A u \in DOMAIN t.units : u \in Units /\ <<"unit", u>> \in t.locks
      BY <2>11
    <3>4. Over(t.units, us) = WillUnits(t, M, es, gs, us)
      BY <2>12
    <3> QED BY <2>1, <2>4, <2>9, <3>1, <3>2, <3>3, <3>4, UnitsStay
  <2>16. r.said = OwnSaid(r, es2) \cup Firsts(M) \cup ClosedBy(r, es2, gs2, us2)
    BY <1>1, <2>3, <2>7, <2>12
  <2>17. Sees(r, M, es2, gs2, us2)
    BY <2>13, <2>14, <2>15, <2>16 DEF Sees, WillEntries, WillGrants, WillUnits
  <2>18. /\ <<"entry", r.e>> \in r.locks
         /\ r.at = "promote" => Promotes(r, es2)
         /\ r.at = "close" => Sells(r)
         /\ \A u \in DOMAIN OwnUnit(r, es2, gs2) : <<"unit", u>> \in r.locks
         /\ \A e \in ClosedBy(r, es2, gs2, us2) : <<"entry", e>> \in r.locks
    <3>1. /\ <<"entry", t.e>> \in t.locks
          /\ t.at = "promote" => Promotes(t, es)
          /\ t.at = "close" => Sells(t)
      BY <1>7 DEF Sound
    <3> QED BY <1>1, <2>3, <2>7, <2>11, <3>1
  <2>19. r.op = "leave" => \/ es2[r.e].status = "GRANTED"
                           \/ es2[r.e].status = "WAITING" /\ r.at = "commit"
    BY <2>4 DEF Ready
  <2> QED BY <1>4, <1>5, <2>9, <2>10, <2>17, <2>18, <2>19 DEF Sound
<1> QED BY <1>6, <1>7

-----------------------------------------------------------------------------
(* A commit changes rows that its session has locked, and no others. *)
LEMMA CommitWrites ==
    ASSUME TxInv, NEW s \in Sessions, Commit(s), NEW c, c = tx[s]
    PROVE  /\ \A x \in DOMAIN entries : /\ x \in DOMAIN entries'
                                        /\ entries'[x] = entries[x] \/ <<"entry", x>> \in c.locks
           /\ \A x \in DOMAIN entries' : x \in DOMAIN entries \/ <<"entry", x>> \in c.locks
           /\ \A u \in Units : units'[u] = units[u] \/ <<"unit", u>> \in c.locks
           /\ \A p \in Products : nextTicket'[p] = nextTicket[p] \/ <<"product", p>> \in c.locks
           /\ \A k \in DOMAIN attempts' : k \in DOMAIN attempts \/ <<"key", k>> \in c.locks
           /\ \A x \in DOMAIN grants :
                 /\ x \in DOMAIN grants' /\ grants'[x].unit = grants[x].unit
                 /\ \/ grants'[x] = grants[x]
                    \/ <<"grant", x>> \in c.locks /\ grants'[x].status # "ACTIVE"
<1> DEFINE M == Made(c, entries, grants, units)
           A == Aged(c.grants, c.lag)
<1>1. /\ c # None /\ c.at = "commit" /\ Good(entries, grants, units)
      /\ Ready(c, entries, grants)
      /\ Found(c, nextTicket, entries, grants, units, attempts)
      /\ M \subseteq PairsOf(c, entries, grants, units)
      /\ Sees(c, M, entries, grants, units)
      /\ grants' = Over(A, grants)
      /\ nextTicket' = Over(c.nextTicket, nextTicket)
      /\ attempts' = Over(c.attempts, attempts)
  BY CommitShape
<1>2. entries' = Over(c.entries, entries) /\ units' = Over(c.units, units)
  BY DEF Commit, SeenEntries, SeenUnits
<1>3. /\ \A x \in DOMAIN c.entries : <<"entry", x>> \in c.locks
      /\ \A p \in DOMAIN c.nextTicket : <<"product", p>> \in c.locks
  BY <1>1, TxGood DEF LockInv, Legal, Writes
<1>4. \A u \in DOMAIN c.units : <<"unit", u>> \in c.locks
  BY <1>1 DEF TxInv, Sound
<1>5. \A k \in DOMAIN c.attempts : <<"key", k>> \in c.locks
  <2>1. CASE Records(c)
    BY <1>1, <2>1, RowRows DEF Found
  <2>2. CASE ~Records(c)
    BY <1>1, <2>2 DEF Found
  <2> QED BY <2>1, <2>2
<1>6. DOMAIN units = Units /\ DOMAIN nextTicket = Products
  BY TxGood DEF TypeOK, UnitsOK
<1>7. /\ \A x \in DOMAIN entries : x \in DOMAIN entries'
                                   /\ (entries'[x] = entries[x] \/ <<"entry", x>> \in c.locks)
      /\ \A x \in DOMAIN entries' : x \in DOMAIN entries \/ <<"entry", x>> \in c.locks
  BY <1>2, <1>3, OverRows
<1>8. \A u \in Units : units'[u] = units[u] \/ <<"unit", u>> \in c.locks
  <2>1. \A x \in DOMAIN units : x \notin DOMAIN c.units => units'[x] = units[x]
    BY <1>2, OverRows
  <2> QED BY <1>4, <1>6, <2>1
<1>9. \A p \in Products : nextTicket'[p] = nextTicket[p] \/ <<"product", p>> \in c.locks
  <2>1. \A x \in DOMAIN nextTicket :
           x \notin DOMAIN c.nextTicket => nextTicket'[x] = nextTicket[x]
    BY <1>1, OverRows
  <2> QED BY <1>3, <1>6, <2>1
<1>10. \A k \in DOMAIN attempts' : k \in DOMAIN attempts \/ <<"key", k>> \in c.locks
  BY <1>1, <1>5, OverRows
<1>11. \A x \in DOMAIN grants : x \in DOMAIN grants' /\ grants'[x].unit = grants[x].unit
  <2>1. Next
    BY CommitIsAStep
  <2>2. \E p \in Products \cup {None} : StepOf(p)
    BY <2>1, NextStep, TxGood
  <2> QED BY <2>2 DEF StepOf, GrantsMove
<1>12. \A x \in DOMAIN grants : x \in DOMAIN c.grants =>
          x = c.e /\ HasRight(c, entries) /\ c.grants[x].status = GrantTo(c)
  BY <1>1, AgedGrants DEF Found
<1>13. HasRight(c, entries) => GrantTo(c) # "ACTIVE" /\ <<"grant", c.e>> \in c.locks
  BY <1>1 DEF HasRight, GrantTo, Found, Working
<1>14. /\ DOMAIN A = DOMAIN c.grants
       /\ \A x \in DOMAIN c.grants : c.grants[x].status # "ACTIVE" => A[x] = c.grants[x]
  BY DEF Aged
<1> HIDE DEF A, M
<1>15. \A x \in DOMAIN grants :
          \/ grants'[x] = grants[x]
          \/ <<"grant", x>> \in c.locks /\ grants'[x].status # "ACTIVE"
  BY <1>1, <1>12, <1>13, <1>14, OverRows
<1> QED BY <1>7, <1>8, <1>9, <1>10, <1>11, <1>15

(* The rows locked by one transaction are not those of another. *)
LEMMA Apart ==
    ASSUME TxInv, NEW s \in Sessions, NEW q \in Sessions, q # s, tx[s] # None, tx[q] # None
    PROVE  \A row \in tx[q].locks : row \notin tx[s].locks
BY DEF TxInv, LockInv, Exclusive

(* A commit keeps the rows another transaction has locked. *)
LEMMA KeptByCommit ==
    ASSUME TxInv, NEW s \in Sessions, Commit(s), NEW q \in Sessions, q # s, tx[q] # None
    PROVE  Kept(tx[q], entries, grants, units, entries', grants', units')
<1>1. tx[s] # None
  BY CommitShape
<1>2. \A row \in tx[q].locks : row \notin tx[s].locks
  BY <1>1, Apart
<1> QED BY <1>2, CommitWrites DEF Kept

(* A commit of another while the product is held is a checkout, or touches *)
(* another product.                                                        *)
LEMMA StillAtCommit ==
    ASSUME TxInv, NEW s \in Sessions, Commit(s), NEW q \in Sessions, q # s, tx[q] # None
    PROVE  Still(tx[q], nextTicket, entries, units, nextTicket', entries', units')
<1> SUFFICES ASSUME ProductRow(tx[q]) \in tx[q].locks
             PROVE  LET p == tx[q].e[1]
                    IN  /\ nextTicket'[p] = nextTicket[p]
                        /\ \A u \in UnitsOf(p) : units'[u] = units[u]
                        /\ \A x \in DOMAIN entries' : x[1] = p => x \in DOMAIN entries
                        /\ \A x \in DOMAIN entries : x[1] = p =>
                              /\ entries'[x].user = entries[x].user
                              /\ \/ entries'[x].status = entries[x].status
                                 \/ /\ entries[x].status = "GRANTED"
                                    /\ entries'[x].status = "CHECKOUT_PENDING"
  BY DEF Still
<1> DEFINE t == tx[q]
           c == tx[s]
           p == t.e[1]
<1>1. /\ c # None /\ c.at = "commit" /\ c.e \in EntryIds /\ LockInv
  BY CommitShape, TxGood DEF Ready
<1>2. \A row \in t.locks : row \notin c.locks
  BY <1>1, Apart
<1>3. p \in Products
  BY <1>1 DEF LockInv, Legal
<1>4. <<"product", p>> \in t.locks /\ <<"product", p>> \notin c.locks
  BY <1>2 DEF ProductRow
<1>5. nextTicket'[p] = nextTicket[p]
  BY <1>3, <1>4, CommitWrites
<1>6. \A u \in UnitsOf(p) : units'[u] = units[u]
  <2> SUFFICES ASSUME NEW u \in UnitsOf(p) PROVE units'[u] = units[u]
    OBVIOUS
  <2>1. <<"unit", u>> \notin c.locks
    BY <1>1, OthersHoldNoUnit
  <2>2. u \in Units
    BY DEF UnitsOf
  <2> QED BY <2>1, <2>2, CommitWrites
<1>7. \A x : <<"entry", x>> \in c.locks /\ x[1] = p =>
         /\ x \in DOMAIN entries /\ entries[x].status = "GRANTED"
         /\ c.op = "checkout" /\ x = c.e
  <2> SUFFICES ASSUME NEW x, <<"entry", x>> \in c.locks, x[1] = p
               PROVE  /\ x \in DOMAIN entries /\ entries[x].status = "GRANTED"
                      /\ c.op = "checkout" /\ x = c.e
    OBVIOUS
  <2>1. x \in DOMAIN entries /\ entries[x].status = "GRANTED"
    BY <1>1, OthersHoldGranted
  <2>2. FollowsPlan(c) /\ c.locks \subseteq OwnRows(c)
    BY <1>1 DEF LockInv, Legal
  <2>3. x[1] = c.e[1]
    BY <2>2 DEF OwnRows, ProductRow, GrantRow, KeyRow
  <2>4. c.op = "checkout"
    BY <1>1, <1>4, <2>2, <2>3 DEF FollowsPlan, ProductPlan, ProductRow
  <2>5. c.locks = {GrantRow(c), EntryRow(c)}
    BY <1>1, <2>2, <2>4 DEF FollowsPlan, CheckoutPlan
  <2>6. x = c.e
    BY <2>5 DEF GrantRow, EntryRow
  <2> QED BY <2>1, <2>4, <2>6
<1>8. \A x \in DOMAIN entries' : x[1] = p => x \in DOMAIN entries
  BY <1>7, CommitWrites
<1>9. ASSUME NEW x \in DOMAIN entries, x[1] = p
      PROVE  /\ entries'[x].user = entries[x].user
             /\ \/ entries'[x].status = entries[x].status
                \/ /\ entries[x].status = "GRANTED"
                   /\ entries'[x].status = "CHECKOUT_PENDING"
  <2>1. CASE entries'[x] = entries[x]
    BY <2>1
  <2>2. CASE entries'[x] # entries[x]
    <3>1. <<"entry", x>> \in c.locks
      BY <2>2, CommitWrites
    <3>2. c.op = "checkout" /\ x = c.e /\ entries[x].status = "GRANTED"
      BY <1>7, <1>9, <3>1
    <3>3. entries' = MarkEntryStatus(entries, x, "GRANTED", "CHECKOUT_PENDING")
      BY <3>2, CommitStartsCheckout
    <3>4. EntriesOK(entries)
      BY TxGood DEF TypeOK
    <3>5. EntryMoved(entries, x, "CHECKOUT_PENDING", entries')
      BY <3>2, <3>3, <3>4, MarkEntryMoves
    <3> QED BY <3>2, <3>5 DEF EntryMoved
  <2> QED BY <2>1, <2>2
<1> QED BY <1>5, <1>6, <1>8, <1>9

(* A commit of another changes neither the grant nor the key that are      *)
(* locked.                                                                 *)
LEMMA TimedAtCommit ==
    ASSUME TxInv, NEW s \in Sessions, Commit(s), NEW q \in Sessions, q # s, tx[q] # None
    PROVE  Timed(tx[q], tx[q], grants, attempts, grants', attempts')
<1> DEFINE t == tx[q]
<1>1. tx[s] # None
  BY CommitShape
<1>2. \A row \in t.locks : row \notin tx[s].locks
  BY <1>1, Apart
<1>3. Found(t, nextTicket, entries, grants, units, attempts)
  BY DEF TxInv, Sound
<1>4. t.op \in {"checkout", "expire"} => t.e \in DOMAIN grants
  BY DEF TxInv, LockInv, Legal, Knows
<1>5. t.op \in {"checkout", "expire"} /\ grants'[t.e].status = "ACTIVE" => t.lag <= grants'[t.e].age
  <2>1. t.op \in {"checkout", "expire"} /\ grants'[t.e].status = "ACTIVE" =>
           grants'[t.e] = grants[t.e]
    BY <1>4, CommitWrites
  <2> QED BY <1>3, <2>1 DEF Found
<1>6. <<"grant", t.e>> \in t.locks /\ GrantFits(t, grants) => GrantFits(t, grants')
  <2> SUFFICES ASSUME <<"grant", t.e>> \in t.locks, GrantFits(t, grants)
               PROVE  GrantFits(t, grants')
    OBVIOUS
  <2>1. t.e \in DOMAIN grants
    BY DEF GrantFits
  <2>2. t.e \in DOMAIN grants' /\ grants'[t.e] = grants[t.e]
    BY <1>2, <2>1, CommitWrites
  <2> QED BY <2>2 DEF GrantFits
<1>7. <<"key", t.key>> \in t.locks /\ t.key \notin DOMAIN attempts => t.key \notin DOMAIN attempts'
  BY <1>2, CommitWrites
<1>8. t.lag \in Lags
  BY <1>3 DEF Found
<1> QED BY <1>5, <1>6, <1>7, <1>8 DEF Timed

(* The invariant holds after a commit, of the sessions that are left. *)
LEMMA CommitSound ==
    ASSUME TxInv, NEW s \in Sessions, Commit(s)
    PROVE  TxInv'
<1>1. LockInv' /\ tx' = [tx EXCEPT ![s] = None]
  BY TxGood, CommitKeeps DEF Commit
<1>2. IInv'
  BY CommitIsAStep, NextIInv, TxGood
<1>3. IsTable(attempts') /\ IsTable(entries') /\ IsTable(grants')
  BY OverIsTable DEF Commit, SeenEntries
<1>4. Good(entries', grants', units')
  BY <1>2, <1>3 DEF Good, IInv, Consistent, TypeOK, UnitsMatchGrants, GrantsFollowEntries,
                    NoOvertaking, OneActiveEntry, NobodyWaitsForNothing
<1>5. ASSUME NEW q \in Sessions, tx'[q] # None
      PROVE  Sound(tx'[q], nextTicket', entries', grants', units', attempts')
  <2> DEFINE t == tx[q]
  <2>1. q # s /\ tx'[q] = t /\ t # None
    BY <1>1, <1>5 DEF TxInv, LockInv
  <2>2. /\ Kept(t, entries, grants, units, entries', grants', units')
        /\ Still(t, nextTicket, entries, units, nextTicket', entries', units')
        /\ Timed(t, t, grants, attempts, grants', attempts')
    BY <2>1, KeptByCommit, StillAtCommit, TimedAtCommit
  <2>3. FollowsPlan(t) /\ \A x \in DOMAIN t.entries : <<"entry", x>> \in t.locks
    BY <2>1 DEF TxInv, LockInv, Legal, Writes
  <2>4. Sound(t, nextTicket, entries, grants, units, attempts)
    BY <2>1 DEF TxInv
  <2>5. Good(entries, grants, units) /\ (t.at \in Working => Ready(t, entries, grants))
    BY <2>1, TxGood, TxReady
  <2>6. SameButLag(t, t)
    BY DEF SameButLag
  <2> HIDE DEF t
  <2>7. Sound(t, nextTicket', entries', grants', units', attempts')
    BY <1>4, <2>2, <2>3, <2>4, <2>5, <2>6, SoundStays
  <2> QED BY <2>1, <2>7
<1> QED BY <1>1, <1>2, <1>3, <1>5 DEF TxInv

-----------------------------------------------------------------------------
(* A tick makes a right and the transaction that looks at it older         *)
(* together: what is left of the right at the transaction's start is what  *)
(* it was, but for rights beyond the floor, which stay expired.            *)
LEMMA ElapseTogether ==
    ASSUME NEW g \in [unit : Units, status : GrantStatus, left : Floor .. TTL, age : Lags],
           NEW lag \in Lags, lag < MaxLag
    PROVE  /\ Elapse(g).status = g.status /\ Elapse(g).unit = g.unit
           /\ lag + 1 \in Lags
           /\ g.status = "ACTIVE" =>
                 /\ lag <= g.age => lag + 1 <= Elapse(g).age
                 /\ g.left + lag > 0 => Elapse(g).left + (lag + 1) > 0
                 /\ g.left + lag < 0 => Elapse(g).left + (lag + 1) < 0
<1> DEFINE left == IF g.left > Floor THEN g.left - 1 ELSE g.left
           age == IF g.age < MaxLag THEN g.age + 1 ELSE g.age
<1>1. /\ g.left \in Int /\ g.age \in Int /\ lag \in Int /\ MaxLag \in Int
      /\ 0 <= lag /\ g.age <= MaxLag /\ Floor = -(MaxLag + 1)
  BY ConstantsAssumption DEF Floor, Lags
<1>2. /\ lag <= g.age => lag + 1 <= age
      /\ g.left + lag > 0 => left + (lag + 1) > 0
      /\ g.left + lag < 0 => left + (lag + 1) < 0
      /\ lag + 1 \in Lags
  BY <1>1 DEF Lags
<1>3. CASE g.status # "ACTIVE"
  BY <1>2, <1>3 DEF Elapse
<1>4. CASE g.status = "ACTIVE"
  <2>1. Elapse(g) = [g EXCEPT !.left = left, !.age = age]
    BY <1>4 DEF Elapse
  <2> HIDE DEF left, age
  <2>2. /\ Elapse(g).left = left /\ Elapse(g).age = age
        /\ Elapse(g).status = g.status /\ Elapse(g).unit = g.unit
    BY <2>1
  <2> QED BY <1>2, <2>2
<1> QED BY <1>3, <1>4

(* A tick keeps the invariant, and is a tick of FairQueue or none. *)
LEMMA TickSound ==
    ASSUME TxInv, TxTick
    PROVE  TxInv' /\ [Next]_vars
<1>1. /\ nextTicket' = nextTicket /\ entries' = entries /\ units' = units
      /\ attempts' = attempts
      /\ DOMAIN grants' = DOMAIN grants /\ IsTable(grants')
      /\ \A x \in DOMAIN grants : grants'[x] = Elapse(grants[x])
      /\ [Next]_vars
  <2>1. CASE Tick
    BY <2>1 DEF Tick, Next, IsTable
  <2>2. CASE (\A e \in DOMAIN grants : Elapse(grants[e]) = grants[e]) /\ UNCHANGED vars
    <3>1. IsTable(grants)
      BY TxGood DEF Good
    <3> QED BY <2>2, <3>1 DEF vars
  <2> QED BY <2>1, <2>2 DEF TxTick
<1>2. LockInv'
  BY TxGood, TxTickKeeps
<1>3. IInv'
  BY <1>1, TxGood, NextIInv
<1>4. Good(entries', grants', units')
  <2>1. IsTable(entries')
    BY <1>1, TxGood DEF Good
  <2> QED BY <1>1, <1>3, <2>1
          DEF Good, IInv, Consistent, TypeOK, UnitsMatchGrants, GrantsFollowEntries,
              NoOvertaking, OneActiveEntry, NobodyWaitsForNothing
<1>5. ASSUME NEW q \in Sessions, tx'[q] # None
      PROVE  Sound(tx'[q], nextTicket', entries', grants', units', attempts')
  <2> DEFINE t == tx[q]
             r == tx'[q]
  <2>1. t # None /\ r = [t EXCEPT !.lag = t.lag + 1] /\ t.lag < MaxLag
    BY <1>5 DEF TxTick
  <2>2. Legal(t) /\ FollowsPlan(t) /\ \A x \in DOMAIN t.entries : <<"entry", x>> \in t.locks
    BY <2>1 DEF TxInv, LockInv, Legal, Writes
  <2>3. t = [f \in Fields |-> t[f]]
    BY <2>2 DEF Legal
  <2>4. Sound(t, nextTicket, entries, grants, units, attempts)
    BY <2>1 DEF TxInv
  <2>5. Good(entries, grants, units) /\ (t.at \in Working => Ready(t, entries, grants))
    BY <2>1, TxGood, TxReady
  <2>6. t.op \in {"checkout", "expire"} => t.e \in DOMAIN grants
    BY <2>2 DEF Legal, Knows
  <2>7. t.lag \in Lags /\ Found(t, nextTicket, entries, grants, units, attempts)
    BY <2>4 DEF Sound, Found
  <2> HIDE DEF t
  <2>8. SameButLag(t, r) /\ r.lag = t.lag + 1
    <3>1. {"op", "at", "e", "user", "key", "result", "lag", "locks", "said",
           "nextTicket", "entries", "grants", "units", "attempts"} = DOMAIN t
      BY <2>3 DEF Fields
    <3> HIDE DEF r
    <3> QED BY <2>1, <3>1 DEF SameButLag
  <2>9. \A x \in DOMAIN grants :
           grants[x] \in [unit : Units, status : GrantStatus, left : Floor .. TTL, age : Lags]
    BY <2>5 DEF Good, Consistent, GrantsOK
  <2>10. \A x \in DOMAIN grants :
            /\ x \in DOMAIN grants'
            /\ grants'[x].status = grants[x].status /\ grants'[x].unit = grants[x].unit
            /\ grants[x].status = "ACTIVE" =>
                 /\ t.lag <= grants[x].age => t.lag + 1 <= grants'[x].age
                 /\ grants[x].left + t.lag > 0 => grants'[x].left + (t.lag + 1) > 0
                 /\ grants[x].left + t.lag < 0 => grants'[x].left + (t.lag + 1) < 0
    BY <1>1, <2>1, <2>7, <2>9, ElapseTogether
  <2>11. Kept(t, entries, grants, units, entries', grants', units')
    BY <1>1, <2>10 DEF Kept
  <2>12. Still(t, nextTicket, entries, units, nextTicket', entries', units')
    BY <1>1 DEF Still
  <2>13. Timed(t, r, grants, attempts, grants', attempts')
    <3>1. r.lag \in Lags
      BY <2>1, <2>7, <2>8, ConstantsAssumption DEF Lags
    <3>2. t.op \in {"checkout", "expire"} /\ grants'[t.e].status = "ACTIVE" =>
             r.lag <= grants'[t.e].age
      BY <2>6, <2>7, <2>8, <2>10 DEF Found
    <3>3. GrantFits(t, grants) => GrantFits(r, grants')
      <4>1. r.op = t.op /\ r.e = t.e
        BY <2>8 DEF SameButLag
      <4> QED BY <2>8, <2>10, <4>1 DEF GrantFits
    <3> QED BY <1>1, <3>1, <3>2, <3>3 DEF Timed
  <2> HIDE DEF r
  <2>14. Sound(r, nextTicket', entries', grants', units', attempts')
    BY <1>4, <2>2, <2>4, <2>5, <2>8, <2>11, <2>12, <2>13, SoundStays
  <2> QED BY <2>14 DEF r
<1>6. IsTable(attempts')
  BY <1>1 DEF TxInv
<1> QED BY <1>1, <1>2, <1>3, <1>5, <1>6 DEF TxInv

-----------------------------------------------------------------------------
(* Both begin with the same tables and no transaction open. *)
LEMMA TxInvInit == TxInit => TxInv /\ Init
<1> SUFFICES ASSUME TxInit PROVE TxInv /\ Init
  OBVIOUS
<1>1. Init /\ \A s \in Sessions : tx[s] = None
  BY DEF TxInit
<1>2. IsTable(attempts)
  BY <1>1 DEF Init, IsTable
<1> QED BY <1>1, <1>2, LockInit, InitIInv DEF TxInv

(* A commit and a tick are steps of FairQueue; everything else leaves the  *)
(* committed rows alone.                                                   *)
LEMMA TxStep ==
    ASSUME TxInv, [TxNext]_txVars
    PROVE  TxInv' /\ [Next]_vars
<1>1. ASSUME NEW s \in Sessions, Statement(s) PROVE TxInv' /\ [Next]_vars
  <2>1. CASE Commit(s)
    BY <2>1, CommitSound, CommitIsAStep
  <2>2. CASE \/ LockProduct(s) \/ Insert(s) \/ LeaveLocksEntry(s) \/ CheckoutLocksEntry(s)
             \/ LockGrant(s) \/ InsertAttempt(s) \/ Settle(s) \/ Close(s) \/ PromoteOne(s)
             \/ LeaveMarksEntry(s)
    <3>1. TxInv'
      BY <2>2, LockProductSound, InsertSound, LeaveLocksEntrySound, CheckoutLocksEntrySound,
         ReleaseSound, InsertAttemptSound, SettleSound, CloseSound, PromoteOneSound,
         LeaveMarksEntrySound
    <3>2. UNCHANGED vars
      BY <2>2 DEF LockProduct, Insert, LeaveLocksEntry, CheckoutLocksEntry, LockGrant,
                  InsertAttempt, Settle, Close, PromoteOne, LeaveMarksEntry, Lock, Do, End
    <3> QED BY <3>1, <3>2
  <2> QED BY <1>1, <2>1, <2>2 DEF Statement
<1>2. ASSUME NEW s \in Sessions,
             \/ \E u \in Users, p \in Products : BeginJoin(s, u, p)
             \/ BeginLeave(s) \/ BeginCheckout(s)
             \/ \E k \in Keys, r \in Results : BeginPay(s, k, r)
             \/ BeginExpire(s)
      PROVE  TxInv' /\ [Next]_vars
  <2>1. TxInv'
    BY <1>2, BeginSound
  <2>2. UNCHANGED vars
    BY <1>2 DEF BeginJoin, BeginLeave, BeginCheckout, BeginPay, BeginExpire, Begin
  <2> QED BY <2>1, <2>2
<1>3. ASSUME NEW s \in Sessions, DeadlockAbort(s) \/ Crash(s)
      PROVE  TxInv' /\ [Next]_vars
  <2>1. End(s)
    BY <1>3 DEF DeadlockAbort, Crash
  <2> QED BY <2>1, EndSound DEF End
<1>4. CASE TxTick
  BY <1>4, TickSound
<1>5. CASE UNCHANGED txVars
  <2>1. UNCHANGED vars /\ tx' = tx
    BY <1>5 DEF txVars, vars
  <2>2. LockInv' /\ IInv'
    BY <2>1, TxGood, LockStep, NextIInv
  <2>3. IsTable(attempts')
    BY <2>1 DEF TxInv, vars
  <2>4. \A s \in Sessions : tx'[s] # None =>
           Sound(tx'[s], nextTicket', entries', grants', units', attempts')
    BY <2>1 DEF TxInv, vars
  <2> QED BY <2>1, <2>2, <2>3, <2>4 DEF TxInv
<1> QED BY <1>1, <1>2, <1>3, <1>4, <1>5 DEF TxNext

(* Whatever the interleaving of statements, crashes and aborted deadlocks, *)
(* committed transactions behave as if they ran one at a time: every       *)
(* behaviour of the transactions is one of the fair queue.                 *)
THEOREM TransactionsAreAtomic == TxSpec => CommitsAreAtomic
<1>1. TxInit => TxInv /\ Init
  BY TxInvInit
<1>2. TxInv /\ [TxNext]_txVars => TxInv' /\ [Next]_vars
  BY TxStep
<1> QED BY <1>1, <1>2, PTL DEF TxSpec, CommitsAreAtomic, Spec

(* The promises of the fair queue therefore hold of the committed rows at  *)
(* every moment of every interleaving.                                     *)
THEOREM CommittedRowsAreConsistent == TxSpec => []IInv
BY TransactionsAreAtomic, Inductive, PTL DEF CommitsAreAtomic

(* A commit writes rows of one product only. *)
THEOREM TransactionsWriteOneProduct == TxSpec => OneProductPerStep
BY TransactionsAreAtomic, ProductsApart DEF CommitsAreAtomic

(* They implement the sale in order of tickets that FairQueue implements.  *)
THEOREM TransactionsAreFifoSale == TxSpec => ImplementsSale
BY TransactionsAreAtomic, QueueIsFifoSale DEF CommitsAreAtomic

=============================================================================
