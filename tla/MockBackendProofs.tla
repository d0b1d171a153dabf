------------------------- MODULE MockBackendProofs -------------------------
(***************************************************************************)
(* Proofs about the queue in the browser: the types of its state, and that *)
(* the database the tabs leave is sound, whatever calls they forget.       *)
(*                                                                         *)
(* What a call that pauses writes is made of the database it read, not of  *)
(* the one it overwrites.  So the invariant says of every database that is *)
(* kept somewhere, the stored one and the one of each paused call, that it *)
(* is sound at the present time; and of a payment that a unit is kept for  *)
(* its user in the one it read, even when her right has run out since.     *)
(* Soundness then has to be shown of one database and one change at a      *)
(* time: of promotion, of an entry's end, of joining and of paying.        *)
(***************************************************************************)
EXTENDS MockBackend, Ranking

(* The rights of a database that have not run out at n, and its payments.  *)
ActiveAt(d, n) == {u \in WithStatus(d, Rights) : d.queues[u].expires > n}
Purchased(d) == {k \in Keys : d.paymentResults[k] = "PURCHASED"}

(* A right has an end, and who waits has a position. *)
FieldsFit(d) ==
    /\ \A u \in WithStatus(d, Rights) : d.queues[u].expires # None
    /\ \A u \in WaitingIn(d) : d.queues[u].position # None

TicketsDiffer(d) ==
    \A u, v \in Entries(d) : d.queues[u].ticket = d.queues[v].ticket => u = v

InLine(d) ==
    /\ \A u \in WithStatus(d, Rights), v \in WaitingIn(d) :
          d.queues[u].ticket < d.queues[v].ticket
    /\ \A u \in WaitingIn(d) : d.queues[u].position > Ahead(d, u)

Sold(d) ==
    /\ d.available + d.sold = Stock
    /\ IsFiniteSet(Purchased(d)) /\ d.sold = Cardinality(Purchased(d))

Sound(d, n) ==
    /\ d \in Database
    /\ FieldsFit(d) /\ TicketsDiffer(d) /\ InLine(d) /\ Sold(d)
    /\ Cardinality(ActiveAt(d, n)) <= d.available

(* In what a payment read its key is unused, and there is a unit for its   *)
(* user beside those of the rights that have not run out.                  *)
Payable(call, n) ==
    /\ call.user \in WithStatus(call.read, Rights)
    /\ call.read.paymentResults[call.key] = None
    /\ Cardinality(ActiveAt(call.read, n) \cup {call.user}) <= call.read.available

MockInv ==
    /\ MockTypeOK
    /\ Sound(db, now)
    /\ \A t \in Tabs : calls[t] # None =>
          /\ Sound(calls[t].read, now)
          /\ calls[t].op = "payment" => Payable(calls[t], now)

-----------------------------------------------------------------------------
TicketOf(d) == [u \in Users |-> d.queues[u].ticket]
FreeUnits(d) == IF Free(d) > 0 THEN Free(d) ELSE 0
Chosen(d) == {u \in WaitingIn(d) : Ahead(d, u) < FreeUnits(d)}

(* Of any number f of places, the elements ranked below f take no more,    *)
(* and all of them when there are elements enough.                         *)
LEMMA LowRanks ==
    ASSUME NEW key, NEW S, Numbered(key, S), NEW f \in Nat
    PROVE  LET L == {x \in S : Rank(key, S, x) < f}
           IN  /\ IsFiniteSet(L) /\ Cardinality(L) <= f
               /\ f <= Cardinality(S) => Cardinality(L) = f
<1> DEFINE L == {x \in S : Rank(key, S, x) < f}
           T == 0 .. f - 1
           r == [x \in L |-> Rank(key, S, x)]
<1>1. IsFiniteSet(T) /\ Cardinality(T) = f
    BY FS_Interval
<1>2. IsFiniteSet(S) /\ Cardinality(S) \in Nat /\ IsFiniteSet(L)
    BY FS_CardinalityType, FS_Subset DEF Numbered
<1>3. \A x \in S : Rank(key, S, x) \in 0 .. Cardinality(S) - 1
    BY RankBound
<1>4. r \in Injection(L, T)
    <2>1. r \in [L -> T]
        BY <1>2, <1>3
    <2>2. \A x, y \in L : r[x] = r[y] => x = y
        BY RankInjective
    <2> QED BY <2>1, <2>2 DEF Injection, IsInjective
<1>5. Cardinality(L) <= Cardinality(T)
    /\ (Cardinality(L) = Cardinality(T) <=> r \in Surjection(L, T))
    BY <1>1, <1>4, FS_Injection
<1>6. ASSUME f <= Cardinality(S) PROVE Cardinality(L) = f
    <2>1. \A n \in T : \E x \in L : r[x] = n
        <3> TAKE n \in T
        <3>1. PICK x \in S : Rank(key, S, x) = n
            BY <1>2, <1>6, RankOnto
        <3> QED BY <3>1
    <2>2. r \in Surjection(L, T)
        BY <1>4, <2>1 DEF Injection, Surjection
    <2> QED BY <1>1, <1>5, <2>2
<1> QED BY <1>1, <1>2, <1>5, <1>6

(* What the fields of an entry are. *)
LEMMA EntryFields ==
    ASSUME NEW d \in Database, NEW u \in Entries(d)
    PROVE  /\ u \in Users /\ d.queues[u] \in Entry
           /\ d.queues[u].ticket \in 1 .. MaxTicket
           /\ d.queues[u].status \in {"WAITING"} \cup Rights \cup Final
           /\ d.queues[u].position \in {None} \cup 1 .. MaxTicket
           /\ d.queues[u].expires \in {None} \cup 0 .. MaxNow + TTL
BY DEF Entries, Database, Entry

(* The parts of a database. *)
LEMMA DatabaseFields ==
    ASSUME NEW d \in Database
    PROVE  /\ d.queues \in [Users -> Entry \cup {None}]
           /\ d.available \in Nat /\ d.sold \in Nat
           /\ d.paymentResults \in [Keys -> Results \cup {None}]
           /\ d = [queues |-> d.queues, available |-> d.available, sold |-> d.sold,
                   paymentResults |-> d.paymentResults]
BY DEF Database

(* Those who wait are numbered by their tickets, and Ahead ranks them.     *)
LEMMA LineIsNumbered ==
    ASSUME NEW d \in Database, TicketsDiffer(d)
    PROVE  /\ Numbered(TicketOf(d), WaitingIn(d))
           /\ \A u \in WaitingIn(d) : Ahead(d, u) = Rank(TicketOf(d), WaitingIn(d), u)
           /\ IsFiniteSet(Entries(d))
<1>1. Entries(d) \subseteq Users /\ WaitingIn(d) \subseteq Entries(d)
    BY DEF Entries, WaitingIn, WithStatus
<1>2. IsFiniteSet(Entries(d)) /\ IsFiniteSet(WaitingIn(d))
    BY <1>1, MockAssumption, FS_Subset
<1>3. \A u \in Entries(d) : TicketOf(d)[u] = d.queues[u].ticket
    BY <1>1 DEF TicketOf
<1>4. \A u \in Entries(d) : d.queues[u].ticket \in Nat
    BY EntryFields, MockAssumption
<1>5. Numbered(TicketOf(d), WaitingIn(d))
    BY <1>1, <1>2, <1>3, <1>4 DEF Numbered, TicketsDiffer
<1>6. ASSUME NEW u \in WaitingIn(d)
      PROVE  Ahead(d, u) = Rank(TicketOf(d), WaitingIn(d), u)
    <2>1. {v \in WaitingIn(d) : d.queues[v].ticket < d.queues[u].ticket}
            = Behind(TicketOf(d), WaitingIn(d), u)
        BY <1>1, <1>3, <1>6 DEF Behind
    <2> QED BY <2>1 DEF Ahead, Rank
<1> QED BY <1>2, <1>5, <1>6

(* Rights that have not run out, and the units they leave free, are        *)
(* finitely many.                                                          *)
LEMMA GrantsAreFinite ==
    ASSUME NEW d \in Database, NEW n
    PROVE  /\ IsFiniteSet(ActiveAt(d, n)) /\ Cardinality(ActiveAt(d, n)) \in Nat
           /\ IsFiniteSet(ActiveGrants(d)) /\ Free(d) \in Int /\ FreeUnits(d) \in Nat
<1>1. ActiveAt(d, n) \in SUBSET Users /\ ActiveGrants(d) \in SUBSET Users
    BY DEF ActiveAt, ActiveGrants, WithStatus, Entries
<1>2. IsFiniteSet(ActiveAt(d, n)) /\ IsFiniteSet(ActiveGrants(d))
    BY <1>1, MockAssumption, FS_Subset
<1>3. Cardinality(ActiveAt(d, n)) \in Nat /\ Cardinality(ActiveGrants(d)) \in Nat
    BY <1>2, FS_CardinalityType
<1>4. Free(d) \in Int
    BY <1>3, DatabaseFields DEF Free
<1> QED BY <1>2, <1>3, <1>4 DEF FreeUnits

(* An entry that comes to its end, whatever it was, leaves the line and    *)
(* the rights of the others as they were.                                  *)
LEMMA EndedEntry ==
    ASSUME NEW d \in Database, NEW e \in Database, NEW u \in Entries(d), NEW n,
           FieldsFit(d), TicketsDiffer(d), InLine(d),
           \A v \in Users \ {u} : e.queues[v] = d.queues[v],
           e.queues[u].ticket = d.queues[u].ticket,
           e.queues[u].status \in Final
    PROVE  /\ FieldsFit(e) /\ TicketsDiffer(e) /\ InLine(e)
           /\ ActiveAt(e, n) \subseteq ActiveAt(d, n) \ {u}
<1>1. u \in Users /\ Entries(e) \subseteq Entries(d) /\ Entries(d) \subseteq Users
    BY DEF Entries
<1>2. /\ WaitingIn(e) \subseteq WaitingIn(d) \ {u}
      /\ WithStatus(e, Rights) \subseteq WithStatus(d, Rights) \ {u}
    BY <1>1 DEF WaitingIn, WithStatus, Rights, Final
<1>3. /\ \A v \in Entries(e) : e.queues[v].ticket = d.queues[v].ticket
      /\ \A v \in Entries(e) \ {u} : e.queues[v] = d.queues[v]
    BY <1>1
<1>4. FieldsFit(e) /\ TicketsDiffer(e)
    BY <1>1, <1>2, <1>3 DEF FieldsFit, TicketsDiffer, WaitingIn, WithStatus
<1>5. ActiveAt(e, n) \subseteq ActiveAt(d, n) \ {u}
    BY <1>1, <1>2, <1>3 DEF ActiveAt, WithStatus
<1>6. \A a \in WithStatus(e, Rights), b \in WaitingIn(e) :
          e.queues[a].ticket < e.queues[b].ticket
    BY <1>2, <1>3 DEF InLine, WaitingIn, WithStatus
<1>7. ASSUME NEW v \in WaitingIn(e) PROVE e.queues[v].position > Ahead(e, v)
    <2> DEFINE A == {w \in WaitingIn(d) : d.queues[w].ticket < d.queues[v].ticket}
               B == {w \in WaitingIn(e) : e.queues[w].ticket < e.queues[v].ticket}
    <2>1. v \in WaitingIn(d) /\ v \in Entries(e) /\ e.queues[v] = d.queues[v]
        BY <1>2, <1>3, <1>7 DEF WaitingIn, WithStatus
    <2>2. B \in SUBSET A
        BY <1>2, <1>3, <2>1 DEF WaitingIn, WithStatus
    <2>3. IsFiniteSet(A)
        BY MockAssumption, FS_Subset DEF WaitingIn, WithStatus, Entries
    <2>4. Cardinality(A) \in Nat /\ Cardinality(B) \in Nat /\ Cardinality(B) <= Cardinality(A)
        BY <2>2, <2>3, FS_Subset, FS_CardinalityType
    <2>5. d.queues[v].position > Cardinality(A) /\ d.queues[v].position # None
        BY <2>1 DEF InLine, Ahead, FieldsFit
    <2>6. d.queues[v].position \in Nat
        BY <2>1, <2>5, <1>2, EntryFields DEF WaitingIn, WithStatus
    <2>7. Ahead(e, v) = Cardinality(B)
        BY DEF Ahead
    <2> QED BY <2>1, <2>4, <2>5, <2>6, <2>7
<1> QED BY <1>4, <1>5, <1>6, <1>7 DEF InLine

(* No more wait than there are tickets to wait with.                       *)
LEMMA LineBound ==
    ASSUME NEW d \in Database, TicketsDiffer(d), NEW n \in Nat,
           \A u \in WaitingIn(d) : d.queues[u].ticket <= n
    PROVE  Cardinality(WaitingIn(d)) \in Nat /\ Cardinality(WaitingIn(d)) <= n
<1> DEFINE W == WaitingIn(d)
           key == TicketOf(d)
           f == [v \in W |-> key[v]]
<1>1. Numbered(key, W)
    BY LineIsNumbered
<1>2. IsFiniteSet(W) /\ Cardinality(W) \in Nat
    BY <1>1, FS_CardinalityType DEF Numbered
<1>3. \A v \in W : v \in Entries(d) /\ v \in Users
    BY DEF WaitingIn, WithStatus, Entries
<1>4. \A v \in W : d.queues[v].ticket \in 1 .. MaxTicket
    BY <1>3, EntryFields
<1>5. \A v \in W : key[v] \in 1 .. n
    BY <1>3, <1>4, MockAssumption DEF TicketOf
<1>6. f \in Injection(W, 1 .. n)
    <2>1. f \in [W -> 1 .. n]
        BY <1>5
    <2>2. \A x, y \in W : f[x] = f[y] => x = y
        BY <1>1 DEF Numbered
    <2> QED BY <2>1, <2>2 DEF Injection, IsInjective
<1>7. IsFiniteSet(1 .. n) /\ Cardinality(1 .. n) = n
    BY FS_Interval
<1>8. Cardinality(W) <= n
    BY <1>6, <1>7, FS_Injection
<1> QED BY <1>2, <1>8

(* How many wait before one who waits: fewer than wait, and than there are *)
(* tickets.                                                                *)
LEMMA AheadBound ==
    ASSUME NEW d \in Database, TicketsDiffer(d), NEW u \in WaitingIn(d)
    PROVE  /\ Ahead(d, u) \in Nat /\ Cardinality(WaitingIn(d)) \in Nat
           /\ Ahead(d, u) < Cardinality(WaitingIn(d))
           /\ Cardinality(WaitingIn(d)) <= MaxTicket
<1>1. /\ Numbered(TicketOf(d), WaitingIn(d))
      /\ Ahead(d, u) = Rank(TicketOf(d), WaitingIn(d), u)
    BY LineIsNumbered
<1>2. Ahead(d, u) \in 0 .. Cardinality(WaitingIn(d)) - 1
    BY <1>1, RankBound
<1>3. \A v \in WaitingIn(d) : v \in Entries(d)
    BY DEF WaitingIn, WithStatus
<1>4. MaxTicket \in Nat /\ \A v \in WaitingIn(d) : d.queues[v].ticket <= MaxTicket
    BY <1>3, EntryFields, MockAssumption
<1>5. Cardinality(WaitingIn(d)) \in Nat /\ Cardinality(WaitingIn(d)) <= MaxTicket
    BY <1>4, LineBound
<1> QED BY <1>2, <1>5

(* What promotion does to each entry.                                      *)
LEMMA PromoteEntry ==
    ASSUME NEW d \in Database, NEW u \in Users
    PROVE  LET e == Promote(d)
           IN  /\ u \notin WaitingIn(d) => e.queues[u] = d.queues[u]
               /\ u \in Chosen(d) => e.queues[u] = [d.queues[u] EXCEPT
                     !.status = "GRANTED", !.position = None, !.expires = now + TTL]
               /\ u \in WaitingIn(d) \ Chosen(d) => e.queues[u] = [d.queues[u] EXCEPT
                     !.position = Ahead(d, u) - FreeUnits(d) + 1]
BY DatabaseFields DEF Promote, Chosen, FreeUnits

(* And to the rest of the database. *)
LEMMA PromoteRest ==
    ASSUME NEW d \in Database
    PROVE  LET e == Promote(d)
           IN  /\ e.available = d.available /\ e.sold = d.sold
               /\ e.paymentResults = d.paymentResults
BY DatabaseFields DEF Promote

LEMMA PromoteType ==
    ASSUME NEW d \in Database, TicketsDiffer(d), now \in 0 .. MaxNow
    PROVE  Promote(d) \in Database
<1> DEFINE e == Promote(d)
<1>1. FreeUnits(d) \in Nat
    BY GrantsAreFinite
<1>2. ASSUME NEW u \in Users PROVE e.queues[u] \in Entry \cup {None}
    <2>1. CASE u \notin WaitingIn(d)
        BY <2>1, PromoteEntry, DatabaseFields
    <2>2. CASE u \in Chosen(d)
        <3>1. u \in Entries(d)
            BY <2>2 DEF Chosen, WaitingIn, WithStatus
        <3>2. now + TTL \in 0 .. MaxNow + TTL
            BY MockAssumption
        <3>3. e.queues[u] = [d.queues[u] EXCEPT
                 !.status = "GRANTED", !.position = None, !.expires = now + TTL]
            BY <2>2, PromoteEntry
        <3>4. d.queues[u] \in Entry
            BY <3>1, EntryFields
        <3> HIDE DEF e
        <3> QED BY <3>2, <3>3, <3>4 DEF Entry, Rights
    <2>3. CASE u \in WaitingIn(d) \ Chosen(d)
        <3>1. u \in Entries(d)
            BY <2>3 DEF WaitingIn, WithStatus
        <3>2. Ahead(d, u) \in Nat /\ Ahead(d, u) < MaxTicket
            BY <2>3, AheadBound, MockAssumption
        <3>3. Ahead(d, u) >= FreeUnits(d)
            BY <1>1, <2>3, <3>2 DEF Chosen
        <3>4. Ahead(d, u) - FreeUnits(d) + 1 \in 1 .. MaxTicket
            BY <1>1, <3>2, <3>3, MockAssumption
        <3>5. e.queues[u] = [d.queues[u] EXCEPT !.position = Ahead(d, u) - FreeUnits(d) + 1]
            BY <2>3, PromoteEntry
        <3>6. d.queues[u] \in Entry
            BY <3>1, EntryFields
        <3> HIDE DEF e
        <3> QED BY <3>4, <3>5, <3>6 DEF Entry
    <2> QED BY <2>1, <2>2, <2>3
<1> DEFINE q == [u \in Users |->
            IF u \notin WaitingIn(d) THEN d.queues[u]
            ELSE IF Ahead(d, u) < FreeUnits(d)
            THEN [d.queues[u] EXCEPT !.status = "GRANTED", !.position = None,
                                     !.expires = now + TTL]
            ELSE [d.queues[u] EXCEPT !.position = Ahead(d, u) - FreeUnits(d) + 1]]
<1>3. e = [d EXCEPT !.queues = q]
    BY DEF Promote, FreeUnits
<1>4. DOMAIN q = Users /\ q = [u \in Users |-> q[u]]
    OBVIOUS
<1> HIDE DEF e, q
<1>5. d = [queues |-> d.queues, available |-> d.available, sold |-> d.sold,
           paymentResults |-> d.paymentResults]
    BY DatabaseFields
<1>6. e = [queues |-> q, available |-> d.available, sold |-> d.sold,
           paymentResults |-> d.paymentResults]
    BY <1>3, <1>5
<1>7. q \in [Users -> Entry \cup {None}]
    BY <1>2, <1>4, <1>6
<1>8. e \in Database
    BY <1>6, <1>7, DatabaseFields DEF Database
<1> QED BY <1>8 DEF e

(* Promotion fills no more than the free units, and all of them when       *)
(* somebody is left waiting.                                               *)
LEMMA ChosenFill ==
    ASSUME NEW d \in Database, TicketsDiffer(d)
    PROVE  /\ IsFiniteSet(Chosen(d)) /\ Cardinality(Chosen(d)) \in Nat
           /\ Cardinality(Chosen(d)) <= FreeUnits(d)
           /\ FreeUnits(d) <= Cardinality(WaitingIn(d)) => Cardinality(Chosen(d)) = FreeUnits(d)
<1> DEFINE W == WaitingIn(d)
           key == TicketOf(d)
<1>1. Numbered(key, W) /\ \A u \in W : Ahead(d, u) = Rank(key, W, u)
    BY LineIsNumbered
<1>2. Chosen(d) = {u \in W : Rank(key, W, u) < FreeUnits(d)}
    BY <1>1 DEF Chosen
<1>3. FreeUnits(d) \in Nat
    BY GrantsAreFinite
<1> HIDE DEF W, key
<1>4. /\ IsFiniteSet(Chosen(d)) /\ Cardinality(Chosen(d)) <= FreeUnits(d)
      /\ FreeUnits(d) <= Cardinality(W) => Cardinality(Chosen(d)) = FreeUnits(d)
    BY <1>1, <1>2, <1>3, LowRanks
<1> QED BY <1>4, FS_CardinalityType DEF W

(* Whoever is promoted drew a ticket before whoever is not.                *)
LEMMA ChosenFirst ==
    ASSUME NEW d \in Database, TicketsDiffer(d),
           NEW u \in Chosen(d), NEW v \in WaitingIn(d) \ Chosen(d)
    PROVE  d.queues[u].ticket < d.queues[v].ticket
<1> DEFINE W == WaitingIn(d)
           key == TicketOf(d)
<1>1. Numbered(key, W) /\ \A w \in W : Ahead(d, w) = Rank(key, W, w)
    BY LineIsNumbered
<1>2. u \in W /\ v \in W /\ Ahead(d, u) < FreeUnits(d) /\ ~(Ahead(d, v) < FreeUnits(d))
    BY DEF Chosen
<1>3. FreeUnits(d) \in Nat /\ Ahead(d, u) \in Nat /\ Ahead(d, v) \in Nat
    BY <1>2, GrantsAreFinite, AheadBound
<1>4. Rank(key, W, u) < Rank(key, W, v)
    BY <1>1, <1>2, <1>3
<1>5. Rank(key, W, u) \in Nat /\ Rank(key, W, v) \in Nat
    BY <1>1, <1>2, <1>3
<1>6. key[u] = d.queues[u].ticket /\ key[v] = d.queues[v].ticket
    BY <1>2 DEF TicketOf, WaitingIn, WithStatus, Entries
<1>7. key[u] \in Nat /\ key[v] \in Nat
    BY <1>1, <1>2 DEF Numbered
<1>8. ~(key[v] < key[u])
    BY <1>1, <1>2, <1>4, <1>5, RankMonotone
<1>9. key[u] # key[v]
    BY <1>1, <1>2, <1>4, <1>5 DEF Numbered
<1> QED BY <1>6, <1>7, <1>8, <1>9

(* Promotion keeps a database sound: it hands out what is free, to the     *)
(* first in line, and the positions of the others move up by as many.      *)
LEMMA PromoteSound ==
    ASSUME NEW d, Sound(d, now), now \in 0 .. MaxNow
    PROVE  Sound(Promote(d), now)
<1> DEFINE e == Promote(d)
<1>1. d \in Database /\ FieldsFit(d) /\ TicketsDiffer(d) /\ InLine(d) /\ Sold(d)
      /\ Cardinality(ActiveGrants(d)) <= d.available
    BY DEF Sound, ActiveAt, ActiveGrants
<1>2. e \in Database
    BY <1>1, PromoteType
<1>3. \A u \in Users :
         /\ u \notin WaitingIn(d) => e.queues[u] = d.queues[u]
         /\ u \in Chosen(d) => e.queues[u] = [d.queues[u] EXCEPT
               !.status = "GRANTED", !.position = None, !.expires = now + TTL]
         /\ u \in WaitingIn(d) \ Chosen(d) => e.queues[u] = [d.queues[u] EXCEPT
               !.position = Ahead(d, u) - FreeUnits(d) + 1]
    BY <1>1, PromoteEntry
<1>4. e.available = d.available /\ e.sold = d.sold /\ e.paymentResults = d.paymentResults
    BY <1>1, PromoteRest
<1> HIDE DEF e
<1>5. \A u \in Entries(d) : u \in Users /\ d.queues[u] \in Entry
    BY <1>1, EntryFields
<1>6. WaitingIn(d) \subseteq Entries(d) /\ Chosen(d) \subseteq WaitingIn(d)
      /\ Entries(e) \subseteq Entries(d) /\ Entries(d) \subseteq Users
    <2>1. WaitingIn(d) \subseteq Entries(d) /\ Chosen(d) \subseteq WaitingIn(d)
          /\ Entries(d) \subseteq Users /\ Entries(e) \subseteq Users
        BY DEF Entries, WaitingIn, WithStatus, Chosen
    <2>2. \A u \in Users \ Entries(d) : e.queues[u] = None
        BY <1>3, <2>1 DEF Entries
    <2> QED BY <2>1, <2>2 DEF Entries
<1>7. ASSUME NEW u \in Entries(d)
      PROVE  /\ e.queues[u].ticket = d.queues[u].ticket
             /\ u \notin WaitingIn(d) => e.queues[u] = d.queues[u]
             /\ u \in Chosen(d) => /\ e.queues[u].status = "GRANTED"
                                   /\ e.queues[u].expires = now + TTL
             /\ u \in WaitingIn(d) \ Chosen(d) =>
                   /\ e.queues[u].status = "WAITING"
                   /\ e.queues[u].position = Ahead(d, u) - FreeUnits(d) + 1
    <2> DEFINE r == d.queues[u]
    <2>1. u \in Users /\ r \in Entry
        BY <1>5
    <2>2. r.status = "WAITING" <=> u \in WaitingIn(d)
        BY DEF WaitingIn, WithStatus
    <2>3. CASE u \notin WaitingIn(d)
        BY <1>3, <1>6, <2>1, <2>3
    <2>4. CASE u \in Chosen(d)
        <3>1. e.queues[u] = [r EXCEPT !.status = "GRANTED", !.position = None,
                                      !.expires = now + TTL]
            BY <1>3, <2>1, <2>4
        <3> HIDE DEF r
        <3>2. /\ e.queues[u].status = "GRANTED" /\ e.queues[u].expires = now + TTL
              /\ e.queues[u].ticket = r.ticket
            BY <2>1, <3>1 DEF Entry
        <3> QED BY <1>6, <2>4, <3>2 DEF r
    <2>5. CASE u \in WaitingIn(d) \ Chosen(d)
        <3>1. e.queues[u] = [r EXCEPT !.position = Ahead(d, u) - FreeUnits(d) + 1]
            BY <1>3, <2>1, <2>5
        <3> HIDE DEF r
        <3>2. /\ e.queues[u].position = Ahead(d, u) - FreeUnits(d) + 1
              /\ e.queues[u].ticket = r.ticket /\ e.queues[u].status = r.status
            BY <2>1, <3>1 DEF Entry
        <3> QED BY <2>2, <2>5, <3>2 DEF r
    <2> QED BY <2>3, <2>4, <2>5
<1>8. WaitingIn(e) \subseteq WaitingIn(d) \ Chosen(d)
    BY <1>6, <1>7 DEF WaitingIn, WithStatus
<1>9. WithStatus(e, Rights) \subseteq WithStatus(d, Rights) \cup Chosen(d)
    <2> SUFFICES ASSUME NEW u \in WithStatus(e, Rights), u \notin Chosen(d)
                 PROVE  u \in WithStatus(d, Rights)
        OBVIOUS
    <2>1. u \in Entries(e) /\ u \in Entries(d) /\ e.queues[u].status \in Rights
        BY <1>6 DEF WithStatus
    <2>2. u \notin WaitingIn(d)
        BY <1>7, <2>1 DEF Rights
    <2> QED BY <1>7, <2>1, <2>2 DEF WithStatus
<1>10. WithStatus(d, Rights) \subseteq Entries(d) /\ WithStatus(d, Rights) \cap WaitingIn(d) = {}
    BY DEF WithStatus, WaitingIn, Rights
<1>11. FreeUnits(d) \in Nat
    BY <1>1, GrantsAreFinite
<1>12. ASSUME NEW u \in WaitingIn(d) \ Chosen(d)
       PROVE  Ahead(d, u) \in Nat /\ FreeUnits(d) <= Ahead(d, u)
              /\ FreeUnits(d) <= Cardinality(WaitingIn(d))
    BY <1>1, <1>11, AheadBound DEF Chosen
<1>13. FieldsFit(e)
    <2>1. now + TTL # None
        BY MockAssumption
    <2>2. \A u \in WithStatus(e, Rights) : e.queues[u].expires # None
        BY <1>1, <1>6, <1>7, <1>9, <1>10, <2>1 DEF FieldsFit
    <2>3. ASSUME NEW u \in WaitingIn(e) PROVE e.queues[u].position # None
        <3>1. u \in WaitingIn(d) \ Chosen(d) /\ u \in Entries(d)
            BY <1>6, <1>8
        <3>2. Ahead(d, u) - FreeUnits(d) + 1 \in Nat
            BY <1>11, <1>12, <3>1
        <3> QED BY <1>7, <3>1, <3>2, MockAssumption
    <2> QED BY <2>2, <2>3 DEF FieldsFit
<1>14. TicketsDiffer(e)
    BY <1>1, <1>6, <1>7 DEF TicketsDiffer
<1>15. ASSUME NEW u \in WithStatus(e, Rights), NEW v \in WaitingIn(e)
       PROVE  e.queues[u].ticket < e.queues[v].ticket
    <2>1. v \in WaitingIn(d) \ Chosen(d) /\ v \in Entries(d)
        BY <1>6, <1>8
    <2>2. CASE u \in Chosen(d)
        <3>1. d.queues[u].ticket < d.queues[v].ticket
            BY <1>1, <2>1, <2>2, ChosenFirst
        <3> QED BY <1>6, <1>7, <2>1, <2>2, <3>1
    <2>3. CASE u \in WithStatus(d, Rights)
        BY <1>1, <1>7, <1>10, <2>1, <2>3 DEF InLine
    <2> QED BY <1>9, <2>2, <2>3
<1>16. ASSUME NEW u \in WaitingIn(e) PROVE e.queues[u].position > Ahead(e, u)
    <2> DEFINE A == {w \in WaitingIn(d) : d.queues[w].ticket < d.queues[u].ticket}
               B == {w \in WaitingIn(e) : e.queues[w].ticket < e.queues[u].ticket}
               C == Chosen(d)
    <2>1. u \in WaitingIn(d) \ Chosen(d) /\ u \in Entries(d)
        BY <1>6, <1>8
    <2>2. B \in SUBSET (A \ C)
        BY <1>6, <1>7, <1>8, <2>1
    <2>3. C \subseteq A
        <3>1. \A w \in C : d.queues[w].ticket < d.queues[u].ticket
            BY <1>1, <2>1, ChosenFirst
        <3> QED BY <1>6, <3>1
    <2>4. IsFiniteSet(A)
        BY <1>6, MockAssumption, FS_Subset
    <2>5. IsFiniteSet(A \ C) /\ Cardinality(A \ C) = Cardinality(A) - Cardinality(C)
        <3>1. A \cap C = C
            BY <2>3
        <3> HIDE DEF A, C
        <3> QED BY <2>4, <3>1, FS_Difference
    <2>6. Cardinality(C) = FreeUnits(d)
        BY <1>1, <1>12, <2>1, ChosenFill
    <2>7. Cardinality(B) \in Nat /\ Cardinality(B) <= Cardinality(A \ C)
        <3> HIDE DEF A, B, C
        <3>1. IsFiniteSet(B) /\ Cardinality(B) <= Cardinality(A \ C)
            BY <2>2, <2>5, FS_Subset
        <3> QED BY <3>1, FS_CardinalityType
    <2>8. Ahead(d, u) = Cardinality(A) /\ Ahead(e, u) = Cardinality(B)
        BY DEF Ahead
    <2>9. e.queues[u].position = Ahead(d, u) - FreeUnits(d) + 1
        BY <1>7, <2>1
    <2> HIDE DEF A, B, C
    <2> QED BY <1>11, <1>12, <2>1, <2>5, <2>6, <2>7, <2>8, <2>9
<1>17. Sold(e)
    <2>1. Purchased(e) = Purchased(d)
        BY <1>4 DEF Purchased
    <2> QED BY <1>1, <1>4, <2>1 DEF Sold
<1>18. Cardinality(ActiveAt(e, now)) <= e.available
    <2> DEFINE A == ActiveGrants(d)
               C == Chosen(d)
    <2>1. ActiveAt(e, now) \in SUBSET (A \cup C)
        BY <1>7, <1>9, <1>10 DEF ActiveAt, ActiveGrants
    <2>2. IsFiniteSet(A) /\ IsFiniteSet(C) /\ Cardinality(C) <= FreeUnits(d)
          /\ Cardinality(A) \in Nat /\ Cardinality(C) \in Nat
        BY <1>1, GrantsAreFinite, ChosenFill, FS_CardinalityType
    <2>3. IsFiniteSet(A \cap C) /\ Cardinality(A \cap C) \in Nat
        BY <2>2, FS_Intersection, FS_CardinalityType
    <2>4. IsFiniteSet(A \cup C)
          /\ Cardinality(A \cup C) = Cardinality(A) + Cardinality(C) - Cardinality(A \cap C)
        BY <2>2, FS_Union
    <2>5. Cardinality(ActiveAt(e, now)) <= Cardinality(A \cup C)
          /\ Cardinality(ActiveAt(e, now)) \in Nat
        BY <1>2, <2>1, <2>4, FS_Subset, GrantsAreFinite
    <2>6. d.available \in Nat /\ FreeUnits(d) <= d.available - Cardinality(A)
        BY <1>1, <2>2, DatabaseFields DEF FreeUnits, Free
    <2> QED BY <1>1, <1>4, <1>11, <2>2, <2>3, <2>4, <2>5, <2>6
<1>19. Sound(e, now)
    BY <1>2, <1>13, <1>14, <1>15, <1>16, <1>17, <1>18 DEF Sound, InLine
<1> QED BY <1>19 DEF e
-----------------------------------------------------------------------------
(* What writing one entry does. *)
LEMMA WriteEntry ==
    ASSUME NEW d \in Database, NEW u \in Users, NEW r \in Entry
    PROVE  LET e == [d EXCEPT !.queues[u] = r]
           IN  /\ e \in Database
               /\ e.queues[u] = r
               /\ \A v \in Users \ {u} : e.queues[v] = d.queues[v]
               /\ e.available = d.available /\ e.sold = d.sold
               /\ e.paymentResults = d.paymentResults
BY DatabaseFields DEF Database

(* Other statuses, as the handlers write them. *)
Restated(d, u, status) == [d EXCEPT !.queues[u].status = status]
Ended(d, u, status) == [d EXCEPT !.queues[u].status = status, !.queues[u].position = None]

(* Giving an entry another status keeps its other fields.                  *)
LEMMA WriteStatus ==
    ASSUME NEW d \in Database, NEW u \in Entries(d),
           NEW status \in {"WAITING"} \cup Rights \cup Final
    PROVE  LET e == Restated(d, u, status)
           IN  /\ e \in Database /\ e.queues[u] \in Entry
               /\ e.queues[u].status = status
               /\ e.queues[u].ticket = d.queues[u].ticket
               /\ e.queues[u].expires = d.queues[u].expires
               /\ \A v \in Users \ {u} : e.queues[v] = d.queues[v]
               /\ e.available = d.available /\ e.sold = d.sold
               /\ e.paymentResults = d.paymentResults
<1> DEFINE q == d.queues[u]
           r == [q EXCEPT !.status = status]
           e == Restated(d, u, status)
<1>1. u \in Users /\ q \in Entry
    BY EntryFields
<1>2. e = [d EXCEPT !.queues[u] = r]
    BY <1>1, DatabaseFields DEF Restated
<1> HIDE DEF q, e
<1>3. r \in Entry /\ r.status = status /\ r.ticket = q.ticket /\ r.expires = q.expires
    BY <1>1 DEF Entry
<1> HIDE DEF r
<1>4. /\ e \in Database
      /\ e.queues[u] = r
      /\ \A v \in Users \ {u} : e.queues[v] = d.queues[v]
      /\ e.available = d.available /\ e.sold = d.sold
      /\ e.paymentResults = d.paymentResults
    BY <1>1, <1>2, <1>3, WriteEntry
<1> QED BY <1>3, <1>4 DEF e, q

(* Ending an entry empties its position as well.                           *)
LEMMA WriteEnd ==
    ASSUME NEW d \in Database, NEW u \in Entries(d), NEW status \in Final
    PROVE  LET e == Ended(d, u, status)
           IN  /\ e \in Database
               /\ e.queues[u].status = status
               /\ e.queues[u].ticket = d.queues[u].ticket
               /\ \A v \in Users \ {u} : e.queues[v] = d.queues[v]
               /\ e.available = d.available /\ e.sold = d.sold
               /\ e.paymentResults = d.paymentResults
<1> DEFINE q == d.queues[u]
           r == [q EXCEPT !.status = status, !.position = None]
           e == Ended(d, u, status)
<1>1. u \in Users /\ q \in Entry
    BY EntryFields
<1>2. e = [d EXCEPT !.queues[u] = r]
    BY <1>1, DatabaseFields DEF Ended
<1> HIDE DEF q, e
<1>3. r \in Entry /\ r.status = status /\ r.ticket = q.ticket
    BY <1>1 DEF Entry
<1> HIDE DEF r
<1>4. /\ e \in Database
      /\ e.queues[u] = r
      /\ \A v \in Users \ {u} : e.queues[v] = d.queues[v]
      /\ e.available = d.available /\ e.sold = d.sold
      /\ e.paymentResults = d.paymentResults
    BY <1>1, <1>2, <1>3, WriteEntry
<1> QED BY <1>3, <1>4 DEF e, q

(* An entry that ends leaves its database sound.                           *)
LEMMA EndSound ==
    ASSUME NEW d, NEW n, Sound(d, n), NEW e \in Database, NEW u \in Entries(d),
           \A v \in Users \ {u} : e.queues[v] = d.queues[v],
           e.queues[u].ticket = d.queues[u].ticket,
           e.queues[u].status \in Final,
           e.available = d.available, Sold(e)
    PROVE  Sound(e, n)
<1>1. d \in Database /\ FieldsFit(d) /\ TicketsDiffer(d) /\ InLine(d)
      /\ Cardinality(ActiveAt(d, n)) <= d.available
    BY DEF Sound
<1>2. /\ FieldsFit(e) /\ TicketsDiffer(e) /\ InLine(e)
      /\ ActiveAt(e, n) \in SUBSET ActiveAt(d, n)
    BY <1>1, EndedEntry
<1>3. IsFiniteSet(ActiveAt(d, n)) /\ Cardinality(ActiveAt(d, n)) \in Nat
      /\ Cardinality(ActiveAt(e, n)) \in Nat
    BY <1>1, GrantsAreFinite
<1>4. Cardinality(ActiveAt(e, n)) <= Cardinality(ActiveAt(d, n))
    BY <1>2, <1>3, FS_Subset
<1>5. d.available \in Nat
    BY <1>1, DatabaseFields
<1> QED BY <1>1, <1>2, <1>3, <1>4, <1>5 DEF Sound

(* The books depend on the inventory and the results alone.                *)
LEMMA SoldSame ==
    ASSUME NEW d, NEW e, Sold(d), e.available = d.available, e.sold = d.sold,
           \A k \in Keys : e.paymentResults[k] = "PURCHASED"
                              <=> d.paymentResults[k] = "PURCHASED"
    PROVE  Sold(e)
<1>1. Purchased(e) = Purchased(d)
    BY DEF Purchased
<1> QED BY <1>1 DEF Sold

(* What expiry by need leaves is sound: either the database as it was, or  *)
(* one in which the entry has expired and others have moved up.            *)
LEMMA ExpireSound ==
    ASSUME NEW d, Sound(d, now), now \in 0 .. MaxNow, NEW u \in Entries(d)
    PROVE  /\ Sound(ExpireIfNeeded(d, u), now)
           /\ Overdue(d.queues[u]) => ExpireIfNeeded(d, u).queues[u].status = "EXPIRED"
<1> DEFINE e == Ended(d, u, "EXPIRED")
<1>1. d \in Database /\ Sold(d)
    BY DEF Sound
<1>2. /\ e \in Database
      /\ e.queues[u].status = "EXPIRED"
      /\ e.queues[u].ticket = d.queues[u].ticket
      /\ \A v \in Users \ {u} : e.queues[v] = d.queues[v]
      /\ e.available = d.available /\ e.sold = d.sold
      /\ e.paymentResults = d.paymentResults
    <2>1. "EXPIRED" \in Final
        BY DEF Final
    <2> QED BY <1>1, <2>1, WriteEnd
<1>3. ExpireIfNeeded(d, u) = IF ~ Overdue(d.queues[u]) THEN d ELSE Promote(e)
    BY DEF ExpireIfNeeded, Ended
<1> HIDE DEF e
<1>4. Sold(e)
    BY <1>1, <1>2, SoldSame
<1>5. Sound(e, now)
    BY <1>2, <1>4, EndSound DEF Final
<1>6. Sound(Promote(e), now)
    BY <1>5, PromoteSound
<1>7. u \in Users /\ u \notin WaitingIn(e)
    BY <1>2 DEF WaitingIn, WithStatus, Entries
<1>8. Promote(e).queues[u] = e.queues[u]
    BY <1>2, <1>7, PromoteEntry
<1> QED BY <1>2, <1>3, <1>6, <1>8

(* Time only ends rights. *)
LEMMA SoundLater ==
    ASSUME NEW d, NEW n \in Nat, NEW m \in Nat, n <= m, Sound(d, n)
    PROVE  Sound(d, m) /\ ActiveAt(d, m) \subseteq ActiveAt(d, n)
<1>1. d \in Database /\ FieldsFit(d) /\ Cardinality(ActiveAt(d, n)) <= d.available
    BY DEF Sound
<1>2. ASSUME NEW u \in ActiveAt(d, m) PROVE u \in ActiveAt(d, n)
    <2>1. u \in WithStatus(d, Rights) /\ u \in Entries(d) /\ d.queues[u].expires > m
        BY <1>2 DEF ActiveAt, WithStatus
    <2>2. d.queues[u].expires \in Nat
        BY <1>1, <2>1, EntryFields, MockAssumption DEF FieldsFit
    <2> QED BY <2>1, <2>2 DEF ActiveAt
<1>3. IsFiniteSet(ActiveAt(d, n)) /\ Cardinality(ActiveAt(d, n)) \in Nat
      /\ Cardinality(ActiveAt(d, m)) \in Nat
    BY <1>1, GrantsAreFinite
<1>4. ActiveAt(d, m) \in SUBSET ActiveAt(d, n)
    BY <1>2
<1>5. Cardinality(ActiveAt(d, m)) <= Cardinality(ActiveAt(d, n))
    BY <1>3, <1>4, FS_Subset
<1> QED BY <1>1, <1>3, <1>4, <1>5, DatabaseFields DEF Sound
(* The next ticket is after every ticket drawn.                            *)
LEMMA TicketIsNext ==
    ASSUME NEW d \in Database, TicketsDiffer(d)
    PROVE  /\ NextTicketNo(d) \in 1 .. MaxTicket + 1
           /\ \A u \in Entries(d) : d.queues[u].ticket < NextTicketNo(d)
<1> DEFINE S == Entries(d)
           key == TicketOf(d)
           Last(n) == /\ n = 0 \/ \E u \in Entries(d) : d.queues[u].ticket = n
                      /\ \A u \in Entries(d) : d.queues[u].ticket <= n
<1>1. S \subseteq Users /\ IsFiniteSet(S) /\ Cardinality(S) \in Nat
    BY LineIsNumbered, FS_CardinalityType DEF Entries
<1>2. \A u \in S : d.queues[u].ticket \in 1 .. MaxTicket
    BY EntryFields
<1>3. \A u \in S : key[u] = d.queues[u].ticket
    BY <1>1 DEF TicketOf
<1>4. Numbered(key, S)
    BY <1>1, <1>2, <1>3 DEF Numbered, TicketsDiffer
<1>5. \E n \in 0 .. MaxTicket : Last(n)
    <2>1. CASE S = {}
        BY <2>1, MockAssumption
    <2>2. CASE S # {}
        <3>1. Cardinality(S) - 1 \in 0 .. Cardinality(S) - 1
            BY <1>1, <2>2, FS_EmptySet
        <3>2. PICK u \in S : Rank(key, S, u) = Cardinality(S) - 1
            <4> HIDE DEF S, key
            <4> QED BY <1>4, <3>1, RankOnto
        <3>3. ASSUME NEW v \in S PROVE key[v] <= key[u]
            <4> HIDE DEF S, key
            <4>1. Rank(key, S, v) \in 0 .. Cardinality(S) - 1
                BY <1>4, RankBound
            <4>2. ~(key[u] < key[v])
                BY <1>1, <1>4, <3>2, <4>1, RankMonotone
            <4> QED BY <1>4, <4>2 DEF Numbered
        <3>4. Last(key[u])
            BY <1>3, <3>3
        <3> QED BY <1>2, <1>3, <3>4
    <2> QED BY <2>1, <2>2
<1>6. NextTicketNo(d) = 1 + (CHOOSE n \in 0 .. MaxTicket : Last(n))
    BY DEF NextTicketNo
<1> HIDE DEF Last
<1>7. PICK m \in 0 .. MaxTicket : NextTicketNo(d) = 1 + m /\ Last(m)
    BY <1>5, <1>6
<1>8. \A u \in Entries(d) : d.queues[u].ticket <= m
    BY <1>7 DEF Last
<1> QED BY <1>2, <1>7, <1>8, MockAssumption

(* Joining keeps a database sound, whenever it was read: the newcomer's    *)
(* ticket is the last, and a free unit is hers only when nobody waits.     *)
LEMMA JoinSound ==
    ASSUME NEW d, Sound(d, now), now \in 0 .. MaxNow, NEW u \in Users,
           NextTicketNo(d) <= MaxTicket
    PROVE  Sound(Joined(d, u), now)
<1> DEFINE T == NextTicketNo(d)
           W == WaitingIn(d)
           granted == Free(d) > 0 /\ W = {}
           r == [ticket |-> T,
                 status |-> IF granted THEN "GRANTED" ELSE "WAITING",
                 position |-> IF granted THEN None ELSE Cardinality(W) + 1,
                 expires |-> IF granted THEN now + TTL ELSE None]
           e == Joined(d, u)
<1>1. d \in Database /\ FieldsFit(d) /\ TicketsDiffer(d) /\ InLine(d) /\ Sold(d)
      /\ Cardinality(ActiveGrants(d)) <= d.available
    BY DEF Sound, ActiveAt, ActiveGrants
<1>2. T \in 1 .. MaxTicket /\ \A v \in Entries(d) : d.queues[v].ticket < T
    <2>1. T \in 1 .. MaxTicket + 1 /\ \A v \in Entries(d) : d.queues[v].ticket < T
        BY <1>1, TicketIsNext
    <2> QED BY <2>1, MockAssumption
<1>3. \A v \in Entries(d) : v \in Users /\ d.queues[v].ticket \in Nat
    BY <1>1, EntryFields DEF Entries
<1>4. W \subseteq Entries(d) /\ WithStatus(d, Rights) \subseteq Entries(d)
    BY DEF WaitingIn, WithStatus
<1>5. IsFiniteSet(W) /\ Cardinality(W) \in 0 .. MaxTicket - 1
    <2>1. T - 1 \in Nat /\ \A v \in W : d.queues[v].ticket <= T - 1
        BY <1>2, <1>3, <1>4
    <2>2. Cardinality(W) \in Nat /\ Cardinality(W) <= T - 1
        BY <1>1, <2>1, LineBound
    <2>3. IsFiniteSet(W)
        BY <1>1, LineIsNumbered DEF Numbered
    <2> QED BY <1>2, <2>2, <2>3, MockAssumption
<1>6. r.ticket = T
      /\ (granted => r.status = "GRANTED" /\ r.expires = now + TTL)
      /\ (~ granted => r.status = "WAITING" /\ r.position = Cardinality(W) + 1)
    OBVIOUS
<1>7. r \in Entry
    <2>1. Cardinality(W) + 1 \in 1 .. MaxTicket /\ now + TTL \in 0 .. MaxNow + TTL
        BY <1>5, MockAssumption
    <2> HIDE DEF granted, T, W
    <2>2. CASE granted
        BY <1>2, <2>1, <2>2 DEF Entry, Rights
    <2>3. CASE ~ granted
        BY <1>2, <2>1, <2>3 DEF Entry
    <2> QED BY <2>2, <2>3
<1>8. e = [d EXCEPT !.queues[u] = r]
    BY DEF Joined
<1> HIDE DEF e, r
<1>9. /\ e \in Database
      /\ e.queues[u] = r
      /\ \A v \in Users \ {u} : e.queues[v] = d.queues[v]
      /\ e.available = d.available /\ e.sold = d.sold
      /\ e.paymentResults = d.paymentResults
    BY <1>1, <1>7, <1>8, WriteEntry
<1>10. Entries(e) \subseteq Entries(d) \cup {u} /\ Entries(d) \subseteq Users
    BY <1>9 DEF Entries
<1>11. WaitingIn(e) \subseteq (W \ {u}) \cup (IF granted THEN {} ELSE {u})
    BY <1>6, <1>9, <1>10 DEF WaitingIn, WithStatus
<1>12. WithStatus(e, Rights)
          \subseteq (WithStatus(d, Rights) \ {u}) \cup (IF granted THEN {u} ELSE {})
    BY <1>6, <1>9, <1>10 DEF WithStatus, Rights
<1>13. now + TTL # None /\ Cardinality(W) + 1 # None
    <2>1. now + TTL \in Nat /\ Cardinality(W) + 1 \in Nat
        BY <1>5, MockAssumption
    <2> QED BY <2>1, MockAssumption
<1>14. FieldsFit(e)
    <2>1. ASSUME NEW v \in WithStatus(e, Rights) PROVE e.queues[v].expires # None
        <3>1. CASE v = u
            <4>1. granted
                BY <1>12, <3>1
            <4> QED BY <1>6, <1>9, <1>13, <3>1, <4>1
        <3>2. CASE v # u
            BY <1>1, <1>3, <1>4, <1>9, <1>12, <3>2 DEF FieldsFit
        <3> QED BY <3>1, <3>2
    <2>2. ASSUME NEW v \in WaitingIn(e) PROVE e.queues[v].position # None
        <3>1. CASE v = u
            <4>1. ~ granted
                BY <1>11, <3>1
            <4> QED BY <1>6, <1>9, <1>13, <3>1, <4>1
        <3>2. CASE v # u
            BY <1>1, <1>3, <1>4, <1>9, <1>11, <3>2 DEF FieldsFit
        <3> QED BY <3>1, <3>2
    <2> QED BY <2>1, <2>2 DEF FieldsFit
<1>15. TicketsDiffer(e)
    <2>1. \A v \in Entries(e) \ {u} : v \in Entries(d) /\ e.queues[v] = d.queues[v]
        BY <1>9, <1>10
    <2>2. \A v \in Entries(e) \ {u} : e.queues[v].ticket < T /\ e.queues[v].ticket \in Nat
        BY <1>2, <1>3, <2>1
    <2>3. e.queues[u].ticket = T
        BY <1>6, <1>9
    <2>4. T \in Nat
        BY <1>2
    <2> HIDE DEF T
    <2> QED BY <1>1, <2>1, <2>2, <2>3, <2>4 DEF TicketsDiffer
<1>16. ASSUME NEW a \in WithStatus(e, Rights), NEW b \in WaitingIn(e)
       PROVE  e.queues[a].ticket < e.queues[b].ticket
    <2>1. ~ granted
        <3> SUFFICES ASSUME granted PROVE FALSE
            OBVIOUS
        <3> QED BY <1>11
    <2>2. a \in WithStatus(d, Rights) /\ a # u /\ a \in Users
        BY <1>12, <2>1, <1>3, <1>4
    <2>3. e.queues[a] = d.queues[a] /\ a \in Entries(d)
        BY <1>4, <1>9, <2>2
    <2>4. CASE b = u
        BY <1>2, <1>6, <1>9, <2>3, <2>4
    <2>5. CASE b # u
        <3>1. b \in W /\ e.queues[b] = d.queues[b]
            BY <1>3, <1>4, <1>9, <1>11, <2>5
        <3> QED BY <1>1, <2>2, <2>3, <3>1 DEF InLine
    <2> QED BY <2>4, <2>5
<1>17. ASSUME NEW v \in WaitingIn(e) PROVE e.queues[v].position > Ahead(e, v)
    <2> DEFINE A == {w \in W : d.queues[w].ticket < d.queues[v].ticket}
               B == {w \in WaitingIn(e) : e.queues[w].ticket < e.queues[v].ticket}
    <2>1. Ahead(e, v) = Cardinality(B)
        BY DEF Ahead
    <2>2. CASE v = u
        <3>1. ~ granted
            BY <1>11, <2>2
        <3>2. u \notin B
            BY <1>2, <1>6, <1>9, <2>2
        <3>3. B \in SUBSET W
            BY <1>11, <3>2
        <3>4. Cardinality(B) \in Nat /\ Cardinality(B) <= Cardinality(W)
            BY <1>5, <3>3, FS_Subset, FS_CardinalityType
        <3>5. e.queues[v].position = Cardinality(W) + 1
            BY <1>6, <1>9, <2>2, <3>1
        <3> HIDE DEF B, W
        <3> QED BY <1>5, <2>1, <3>4, <3>5
    <2>3. CASE v # u
        <3>1. v \in W /\ v \in Entries(d) /\ v \in Users /\ e.queues[v] = d.queues[v]
            BY <1>3, <1>4, <1>9, <1>11, <2>3
        <3>2. u \notin B
            BY <1>2, <1>3, <1>6, <1>9, <3>1
        <3>3. B \in SUBSET A
            BY <1>3, <1>4, <1>9, <1>11, <3>1, <3>2
        <3>4. IsFiniteSet(A)
            BY <1>5, FS_Subset
        <3>5. Cardinality(A) \in Nat /\ Cardinality(B) \in Nat
              /\ Cardinality(B) <= Cardinality(A)
            BY <3>3, <3>4, FS_Subset, FS_CardinalityType
        <3>6. d.queues[v].position > Cardinality(A) /\ d.queues[v].position # None
            BY <1>1, <3>1 DEF InLine, Ahead, FieldsFit
        <3>7. d.queues[v].position \in Nat
            BY <1>1, <3>1, <3>6, EntryFields
        <3> HIDE DEF A, B
        <3> QED BY <2>1, <3>1, <3>5, <3>6, <3>7
    <2> QED BY <2>2, <2>3
<1>18. Sold(e)
    BY <1>1, <1>9, SoldSame
<1>19. Cardinality(ActiveAt(e, now)) <= e.available
    <2> DEFINE A == ActiveGrants(d)
    <2>1. IsFiniteSet(A) /\ Cardinality(A) \in Nat /\ d.available \in Nat
          /\ Cardinality(ActiveAt(e, now)) \in Nat
        BY <1>1, <1>9, GrantsAreFinite, FS_CardinalityType, DatabaseFields
    <2>2. CASE granted
        <3>1. ActiveAt(e, now) \in SUBSET (A \cup {u})
            BY <1>3, <1>4, <1>9, <1>12 DEF ActiveAt, ActiveGrants
        <3>2. IsFiniteSet(A \cup {u}) /\ Cardinality(A \cup {u}) <= Cardinality(A) + 1
            BY <2>1, FS_AddElement
        <3>3. Cardinality(ActiveAt(e, now)) <= Cardinality(A \cup {u})
              /\ Cardinality(A \cup {u}) \in Nat
            BY <3>1, <3>2, FS_Subset, FS_CardinalityType
        <3>4. d.available - Cardinality(A) > 0
            BY <2>2 DEF Free
        <3> HIDE DEF A
        <3> QED BY <1>9, <2>1, <3>2, <3>3, <3>4
    <2>3. CASE ~ granted
        <3>1. ActiveAt(e, now) \in SUBSET A
            BY <1>3, <1>4, <1>9, <1>12, <2>3 DEF ActiveAt, ActiveGrants
        <3>2. Cardinality(ActiveAt(e, now)) <= Cardinality(A)
            BY <2>1, <3>1, FS_Subset
        <3> QED BY <1>1, <1>9, <2>1, <3>2
    <2> QED BY <2>2, <2>3
<1>20. Sound(e, now)
    BY <1>9, <1>14, <1>15, <1>16, <1>17, <1>18, <1>19 DEF Sound, InLine
<1> QED BY <1>20 DEF e
(* A right that is put to use stays the right it was.                      *)
LEMMA CheckoutSound ==
    ASSUME NEW d, NEW n, Sound(d, n), NEW u \in WithStatus(d, Rights)
    PROVE  Sound(Restated(d, u, "CHECKOUT_PENDING"), n)
<1> DEFINE e == Restated(d, u, "CHECKOUT_PENDING")
<1>1. d \in Database /\ FieldsFit(d) /\ TicketsDiffer(d) /\ InLine(d) /\ Sold(d)
      /\ Cardinality(ActiveAt(d, n)) <= d.available
    BY DEF Sound
<1>2. u \in Entries(d) /\ u \in Users /\ d.queues[u].status \in Rights
    BY DEF WithStatus, Entries
<1>3. "CHECKOUT_PENDING" \in Rights
    BY DEF Rights
<1>4. /\ e \in Database
      /\ e.queues[u].status = "CHECKOUT_PENDING"
      /\ e.queues[u].ticket = d.queues[u].ticket
      /\ e.queues[u].expires = d.queues[u].expires
      /\ \A v \in Users \ {u} : e.queues[v] = d.queues[v]
      /\ e.available = d.available /\ e.sold = d.sold
      /\ e.paymentResults = d.paymentResults
    BY <1>1, <1>2, <1>3, WriteStatus
<1> HIDE DEF e
<1>5. Entries(e) \subseteq Entries(d) /\ Entries(d) \subseteq Users
    BY <1>2, <1>4 DEF Entries
<1>6. u \notin WaitingIn(d) /\ u \notin WaitingIn(e)
    BY <1>2, <1>4 DEF WaitingIn, WithStatus, Rights
<1>7. WaitingIn(e) \subseteq WaitingIn(d) /\ WithStatus(e, Rights) \subseteq WithStatus(d, Rights)
    BY <1>2, <1>4, <1>5, <1>6 DEF WaitingIn, WithStatus
<1>8. /\ \A v \in Entries(d) : e.queues[v].ticket = d.queues[v].ticket
                              /\ e.queues[v].expires = d.queues[v].expires
      /\ \A v \in WaitingIn(d) : e.queues[v] = d.queues[v]
      /\ WaitingIn(d) \subseteq Entries(d) /\ WithStatus(d, Rights) \subseteq Entries(d)
    BY <1>4, <1>5, <1>6 DEF WaitingIn, WithStatus
<1>9. WaitingIn(e) = WaitingIn(d)
    BY <1>7, <1>8 DEF WaitingIn, WithStatus, Entries
<1>10. FieldsFit(e) /\ TicketsDiffer(e)
    BY <1>1, <1>5, <1>7, <1>8 DEF FieldsFit, TicketsDiffer
<1>11. ASSUME NEW v \in WaitingIn(e) PROVE e.queues[v].position > Ahead(e, v)
    <2>1. v \in WaitingIn(d) /\ e.queues[v] = d.queues[v]
        BY <1>7, <1>8, <1>11
    <2>2. {w \in WaitingIn(e) : e.queues[w].ticket < e.queues[v].ticket}
            = {w \in WaitingIn(d) : d.queues[w].ticket < d.queues[v].ticket}
        BY <1>8, <1>9, <2>1
    <2>3. Ahead(e, v) = Ahead(d, v)
        BY <2>2 DEF Ahead
    <2> QED BY <1>1, <2>1, <2>3 DEF InLine
<1>12. \A a \in WithStatus(e, Rights), b \in WaitingIn(e) :
          e.queues[a].ticket < e.queues[b].ticket
    BY <1>1, <1>7, <1>8 DEF InLine
<1>13. Cardinality(ActiveAt(e, n)) <= e.available
    <2>1. ActiveAt(e, n) \in SUBSET ActiveAt(d, n)
        BY <1>7, <1>8 DEF ActiveAt
    <2>2. IsFiniteSet(ActiveAt(d, n)) /\ Cardinality(ActiveAt(d, n)) \in Nat
          /\ Cardinality(ActiveAt(e, n)) \in Nat /\ d.available \in Nat
        BY <1>1, <1>4, GrantsAreFinite, DatabaseFields
    <2>3. Cardinality(ActiveAt(e, n)) <= Cardinality(ActiveAt(d, n))
        BY <2>1, <2>2, FS_Subset
    <2> QED BY <1>1, <1>4, <2>2, <2>3
<1>14. Sold(e)
    BY <1>1, <1>4, SoldSame
<1>15. Sound(e, n)
    BY <1>4, <1>10, <1>11, <1>12, <1>13, <1>14 DEF Sound, InLine
<1> QED BY <1>15 DEF e

(* A payment keeps a database sound, whenever it was read, if a unit was   *)
(* kept for it there: it is sold that unit, or the unit is free again.     *)
LEMMA PaySound ==
    ASSUME NEW d, Sound(d, now), now \in 0 .. MaxNow, NEW u \in WithStatus(d, Rights),
           NEW k \in Keys, d.paymentResults[k] = None, NEW result \in Results,
           Cardinality(ActiveAt(d, now) \cup {u}) <= d.available
    PROVE  Sound(Paid(d, u, k, result), now)
<1> DEFINE w == Restated(d, u, result)
           s == [d EXCEPT !.queues[u].status = result, !.paymentResults[k] = result]
           p == [d.paymentResults EXCEPT ![k] = result]
           q == [s EXCEPT !.available = IF @ > 0 THEN @ - 1 ELSE 0, !.sold = @ + 1]
           A == ActiveAt(d, now)
<1>1. d \in Database /\ FieldsFit(d) /\ TicketsDiffer(d) /\ InLine(d) /\ Sold(d)
    BY DEF Sound
<1>2. u \in Entries(d) /\ u \in Users /\ result \in Final
    BY DEF WithStatus, Entries, Results, Final
<1>3. /\ w \in Database
      /\ w.queues[u].status = result
      /\ w.queues[u].ticket = d.queues[u].ticket
      /\ \A v \in Users \ {u} : w.queues[v] = d.queues[v]
      /\ w.available = d.available /\ w.sold = d.sold
      /\ w.paymentResults = d.paymentResults
    <2>1. result \in {"WAITING"} \cup Rights \cup Final
        BY <1>2
    <2> HIDE DEF s, p, q, A
    <2> QED BY <1>1, <1>2, <2>1, WriteStatus
<1>4. s = [w EXCEPT !.paymentResults[k] = result]
    BY <1>1, DatabaseFields DEF Restated
<1> HIDE DEF w, s
<1>5. s = [queues |-> w.queues, available |-> d.available, sold |-> d.sold,
           paymentResults |-> p]
    BY <1>3, <1>4, DatabaseFields
<1>6. /\ p \in [Keys -> Results \cup {None}] /\ p[k] = result
      /\ \A j \in Keys \ {k} : p[j] = d.paymentResults[j]
    BY <1>1, DatabaseFields
<1>7. d.available \in Nat /\ d.sold \in Nat /\ w.queues \in [Users -> Entry \cup {None}]
    BY <1>1, <1>3, DatabaseFields
<1>8. Paid(d, u, k, result) = IF result = "PURCHASED" THEN q ELSE Promote(s)
    BY DEF Paid, s
<1> HIDE DEF p
<1>9. CASE result # "PURCHASED"
    <2>1. s \in Database
        BY <1>5, <1>6, <1>7 DEF Database
    <2>2. \A j \in Keys : s.paymentResults[j] = "PURCHASED"
                             <=> d.paymentResults[j] = "PURCHASED"
        BY <1>5, <1>6, <1>9, MockAssumption
    <2>3. Sold(s)
        BY <1>1, <1>5, <2>2, SoldSame
    <2>4. /\ \A v \in Users \ {u} : s.queues[v] = d.queues[v]
          /\ s.queues[u].ticket = d.queues[u].ticket
          /\ s.queues[u].status \in Final
          /\ s.available = d.available
        BY <1>2, <1>3, <1>5
    <2>5. Sound(s, now)
        BY <1>2, <2>1, <2>3, <2>4, EndSound
    <2> QED BY <1>8, <1>9, <2>5, PromoteSound
<1>10. CASE result = "PURCHASED"
    <2>1. IsFiniteSet(A) /\ Cardinality(A) \in Nat
        BY <1>1, GrantsAreFinite
    <2>2. IsFiniteSet(A \cup {u}) /\ Cardinality(A \cup {u}) \in Nat
          /\ Cardinality(A \cup {u}) >= 1
        <3> HIDE DEF A
        <3>1. IsFiniteSet(A \cup {u}) /\ Cardinality(A \cup {u}) \in Nat
            BY <2>1, FS_AddElement, FS_CardinalityType
        <3>2. Cardinality(A \cup {u}) # 0
            BY <3>1, FS_EmptySet
        <3> QED BY <3>1, <3>2
    <2>3. d.available > 0
        BY <1>7, <2>2
    <2>4. q = [queues |-> w.queues, available |-> d.available - 1, sold |-> d.sold + 1,
               paymentResults |-> p]
        <3>1. /\ s.available = d.available /\ s.sold = d.sold /\ s.queues = w.queues
              /\ s.paymentResults = p
            BY <1>5
        <3>2. (IF s.available > 0 THEN s.available - 1 ELSE 0) = d.available - 1
            BY <1>7, <2>3, <3>1
        <3>3. q = [s EXCEPT !.available = d.available - 1, !.sold = d.sold + 1]
            BY <3>1, <3>2
        <3> HIDE DEF q
        <3> QED BY <1>5, <3>3
    <2> HIDE DEF q
    <2>5. q \in Database
        <3>1. d.available - 1 \in Nat /\ d.sold + 1 \in Nat
            BY <1>7, <2>3
        <3> QED BY <1>6, <1>7, <2>4, <3>1 DEF Database
    <2>6. /\ \A v \in Users \ {u} : q.queues[v] = d.queues[v]
          /\ q.queues[u].ticket = d.queues[u].ticket
          /\ q.queues[u].status \in Final
        BY <1>2, <1>3, <2>4
    <2>7. /\ FieldsFit(q) /\ TicketsDiffer(q) /\ InLine(q)
          /\ ActiveAt(q, now) \subseteq A \ {u}
        BY <1>1, <1>2, <2>5, <2>6, EndedEntry
    <2>8. Cardinality(ActiveAt(q, now)) <= q.available
        <3>1. IsFiniteSet((A \cup {u}) \ {u})
              /\ Cardinality((A \cup {u}) \ {u}) = Cardinality(A \cup {u}) - 1
            <4> HIDE DEF A
            <4>1. u \in A \cup {u}
                OBVIOUS
            <4> QED BY <2>2, <4>1, FS_RemoveElement
        <3>2. ActiveAt(q, now) \in SUBSET ((A \cup {u}) \ {u})
            BY <2>7
        <3>3. Cardinality(ActiveAt(q, now)) <= Cardinality((A \cup {u}) \ {u})
              /\ Cardinality(ActiveAt(q, now)) \in Nat
            BY <2>5, <3>1, <3>2, FS_Subset, GrantsAreFinite
        <3>4. Cardinality(A \cup {u}) <= d.available /\ q.available = d.available - 1
            BY <2>4
        <3> HIDE DEF A
        <3> QED BY <1>7, <2>2, <3>1, <3>3, <3>4
    <2>9. Sold(q)
        <3> DEFINE P == Purchased(d)
        <3>1. IsFiniteSet(P) /\ d.sold = Cardinality(P) /\ d.available + d.sold = Stock
            BY <1>1 DEF Sold
        <3>2. k \notin P
            BY MockAssumption DEF Purchased
        <3>3. Purchased(q) = P \cup {k}
            BY <1>6, <1>10, <2>4 DEF Purchased
        <3> HIDE DEF P
        <3>4. IsFiniteSet(P \cup {k}) /\ Cardinality(P \cup {k}) = Cardinality(P) + 1
            BY <3>1, <3>2, FS_AddElement
        <3>5. q.available + q.sold = Stock
            BY <1>7, <2>4, <3>1, MockAssumption
        <3> QED BY <2>4, <3>1, <3>3, <3>4, <3>5 DEF Sold
    <2>10. Sound(q, now)
        BY <2>5, <2>7, <2>8, <2>9 DEF Sound
    <2> QED BY <1>8, <1>10, <2>10
<1> QED BY <1>9, <1>10
-----------------------------------------------------------------------------
(* The handlers.                                                           *)

LEMMA InvInit == MockInit => MockInv
<1> SUFFICES ASSUME MockInit PROVE MockInv
    OBVIOUS
<1> DEFINE e == EmptyDatabase
<1>1. db = e /\ now = 0 /\ calls = [t \in Tabs |-> None]
    BY DEF MockInit
<1>2. /\ e.available = Stock /\ e.sold = 0 /\ Stock \in Nat
      /\ \A k \in Keys : e.paymentResults[k] = None
      /\ \A u \in Users : e.queues[u] = None
      /\ e \in Database
    BY MockAssumption DEF EmptyDatabase, Database
<1> HIDE DEF e
<1>3. Entries(e) = {}
    BY <1>2 DEF Entries
<1>4. WaitingIn(e) = {} /\ WithStatus(e, Rights) = {} /\ ActiveAt(e, 0) = {}
    BY <1>3 DEF WaitingIn, WithStatus, ActiveAt
<1>5. Purchased(e) = {}
    BY <1>2, MockAssumption DEF Purchased
<1>6. Sound(e, 0)
    BY <1>2, <1>3, <1>4, <1>5, FS_EmptySet
       DEF Sound, FieldsFit, TicketsDiffer, InLine, Sold
<1>7. MockTypeOK
    BY <1>1, <1>2, MockAssumption DEF MockTypeOK
<1>8. \A t \in Tabs : calls[t] = None
    BY <1>1
<1> QED BY <1>1, <1>6, <1>7, <1>8 DEF MockInv

(* While the clock stands, only the database and the call of one tab are   *)
(* to be looked at.                                                        *)
LEMMA InvStep ==
    ASSUME MockInv, now' = now, Sound(db', now),
           \/ calls' = calls
           \/ \E t \in Tabs :
                /\ \/ calls' = [calls EXCEPT ![t] = None]
                   \/ \E c \in Call :
                        /\ calls' = [calls EXCEPT ![t] = c]
                        /\ Sound(c.read, now)
                        /\ c.op = "payment" => Payable(c, now)
    PROVE  MockInv'
<1>1. /\ db \in Database /\ now \in 0 .. MaxNow /\ calls \in [Tabs -> Call \cup {None}]
      /\ \A t \in Tabs : calls[t] # None =>
            /\ Sound(calls[t].read, now)
            /\ calls[t].op = "payment" => Payable(calls[t], now)
    BY DEF MockInv, MockTypeOK
<1>2. db' \in Database
    BY DEF Sound
<1>3. calls' \in [Tabs -> Call \cup {None}]
    BY <1>1
<1>4. \A t \in Tabs : calls'[t] # None =>
            /\ Sound(calls'[t].read, now)
            /\ calls'[t].op = "payment" => Payable(calls'[t], now)
    BY <1>1
<1>5. MockTypeOK'
    BY <1>1, <1>2, <1>3 DEF MockTypeOK
<1> QED BY <1>4, <1>5 DEF MockInv

LEMMA InvGet ==
    ASSUME MockInv, NEW u \in Users, GetQueueState(u)
    PROVE  MockInv'
<1>1. Sound(db, now) /\ now \in 0 .. MaxNow /\ u \in Entries(db)
      /\ db' = ExpireIfNeeded(db, u) /\ now' = now /\ calls' = calls
    BY DEF MockInv, MockTypeOK, GetQueueState
<1>2. Sound(db', now)
    BY <1>1, ExpireSound
<1> QED BY <1>1, <1>2, InvStep

LEMMA InvLeave ==
    ASSUME MockInv, NEW u \in Users, LeaveQueue(u)
    PROVE  MockInv'
<1> DEFINE left == Ended(db, u, "CANCELLED")
<1>1. Sound(db, now) /\ now \in 0 .. MaxNow /\ u \in Entries(db)
      /\ now' = now /\ calls' = calls
    BY DEF MockInv, MockTypeOK, LeaveQueue
<1>2. db' = IF db.queues[u].expires # None THEN Promote(left) ELSE left
    BY DEF LeaveQueue, Ended
<1>3. "CANCELLED" \in Final /\ db \in Database /\ Sold(db)
    BY <1>1 DEF Final, Sound
<1>4. /\ left \in Database
      /\ left.queues[u].status = "CANCELLED"
      /\ left.queues[u].ticket = db.queues[u].ticket
      /\ \A v \in Users \ {u} : left.queues[v] = db.queues[v]
      /\ left.available = db.available /\ left.sold = db.sold
      /\ left.paymentResults = db.paymentResults
    BY <1>1, <1>3, WriteEnd
<1> HIDE DEF left
<1>5. Sold(left)
    BY <1>3, <1>4, SoldSame
<1>6. Sound(left, now)
    BY <1>1, <1>3, <1>4, <1>5, EndSound
<1>7. Sound(Promote(left), now)
    BY <1>1, <1>6, PromoteSound
<1> QED BY <1>1, <1>2, <1>6, <1>7, InvStep

LEMMA InvStart ==
    ASSUME MockInv, NEW u \in Users, StartCheckout(u)
    PROVE  MockInv'
<1> DEFINE d == ExpireIfNeeded(db, u)
<1>1. Sound(db, now) /\ now \in 0 .. MaxNow /\ u \in Entries(db)
      /\ now' = now /\ calls' = calls
    BY DEF MockInv, MockTypeOK, StartCheckout
<1>2. db' = IF d.queues[u].status = "GRANTED" THEN Restated(d, u, "CHECKOUT_PENDING") ELSE d
    BY DEF StartCheckout, Restated
<1>3. Sound(d, now)
    BY <1>1, ExpireSound
<1> HIDE DEF d
<1>4. ASSUME d.queues[u].status = "GRANTED"
      PROVE  Sound(Restated(d, u, "CHECKOUT_PENDING"), now)
    <2>1. u \in WithStatus(d, Rights)
        <3>1. d = db
            BY <1>1, <1>4, ExpireSound DEF ExpireIfNeeded, d
        <3> QED BY <1>1, <1>4, <3>1 DEF WithStatus, Rights
    <2> QED BY <1>3, <2>1, CheckoutSound
<1> QED BY <1>1, <1>2, <1>3, <1>4, InvStep

LEMMA InvBeginJoin ==
    ASSUME MockInv, NEW t \in Tabs, NEW u \in Users, BeginJoin(t, u)
    PROVE  MockInv'
<1> DEFINE c == [op |-> "join", user |-> u, read |-> db]
<1>1. Sound(db, now) /\ db \in Database
      /\ now' = now /\ db' = db /\ calls' = [calls EXCEPT ![t] = c]
    BY DEF MockInv, Sound, BeginJoin
<1>2. c \in Call /\ c.read = db /\ c.op # "payment"
    BY <1>1 DEF Call
<1> HIDE DEF c
<1> QED BY <1>1, <1>2, InvStep

LEMMA InvEndJoin ==
    ASSUME MockInv, NEW t \in Tabs, EndJoin(t)
    PROVE  MockInv'
<1> DEFINE c == calls[t]
<1>1. /\ c # None /\ NextTicketNo(c.read) <= MaxTicket
      /\ db' = Joined(c.read, c.user) /\ now' = now
      /\ calls' = [calls EXCEPT ![t] = None]
    BY DEF EndJoin
<1>2. Sound(c.read, now) /\ now \in 0 .. MaxNow /\ c.user \in Users
    BY <1>1 DEF MockInv, MockTypeOK, Call
<1> HIDE DEF c
<1>3. Sound(db', now)
    BY <1>1, <1>2, JoinSound
<1> QED BY <1>1, <1>3, InvStep

LEMMA InvBeginPayment ==
    ASSUME MockInv, NEW t \in Tabs, NEW u \in Users, NEW k \in Keys, NEW result \in Results,
           BeginPayment(t, u, k, result)
    PROVE  MockInv'
<1> DEFINE c == [op |-> "payment", user |-> u, key |-> k, result |-> result, read |-> db]
<1>1. /\ Sound(db, now) /\ now \in 0 .. MaxNow /\ u \in Entries(db) /\ now' = now
      /\ db' = ExpireIfNeeded(db, u) /\ db.paymentResults[k] = None
      /\ calls' = IF db'.queues[u].status \notin Rights THEN calls
                  ELSE [calls EXCEPT ![t] = c]
    BY DEF MockInv, MockTypeOK, BeginPayment
<1>2. db \in Database /\ FieldsFit(db) /\ Cardinality(ActiveAt(db, now)) <= db.available
    BY <1>1 DEF Sound
<1>3. c \in Call /\ c.read = db /\ c.user = u /\ c.key = k
    BY <1>2, <1>1, EntryFields DEF Call
<1> HIDE DEF c
<1>4. Sound(db', now) /\ (Overdue(db.queues[u]) => db'.queues[u].status = "EXPIRED")
    BY <1>1, ExpireSound
<1>5. CASE db'.queues[u].status \notin Rights
    BY <1>1, <1>4, <1>5, InvStep
<1>6. CASE db'.queues[u].status \in Rights
    <2>1. ~ Overdue(db.queues[u])
        BY <1>4, <1>6 DEF Rights
    <2>2. db' = db
        BY <1>1, <2>1 DEF ExpireIfNeeded
    <2>3. u \in WithStatus(db, Rights)
        BY <1>1, <1>6, <2>2 DEF WithStatus
    <2>4. db.queues[u].expires \in Nat /\ db.queues[u].expires > now
        <3>1. db.queues[u].expires \in Nat
            BY <1>1, <1>2, <2>3, EntryFields, MockAssumption DEF FieldsFit
        <3> QED BY <1>1, <2>1, <2>3, <3>1, MockAssumption DEF Overdue, WithStatus
    <2>5. ActiveAt(db, now) \cup {u} = ActiveAt(db, now)
        BY <2>3, <2>4 DEF ActiveAt
    <2>6. Payable(c, now)
        BY <1>1, <1>2, <1>3, <2>3, <2>5 DEF Payable
    <2> QED BY <1>1, <1>3, <1>4, <1>6, <2>6, InvStep
<1> QED BY <1>5, <1>6

LEMMA InvEndPayment ==
    ASSUME MockInv, NEW t \in Tabs, EndPayment(t)
    PROVE  MockInv'
<1> DEFINE c == calls[t]
<1>1. /\ c # None /\ c.op = "payment"
      /\ db' = Paid(c.read, c.user, c.key, c.result) /\ now' = now
      /\ calls' = [calls EXCEPT ![t] = None]
    BY DEF EndPayment
<1>2. /\ Sound(c.read, now) /\ now \in 0 .. MaxNow /\ Payable(c, now)
      /\ c \in Call
    BY <1>1 DEF MockInv, MockTypeOK
<1>3. c.key \in Keys /\ c.result \in Results
    BY <1>1, <1>2 DEF Call
<1> HIDE DEF c
<1>4. Sound(db', now)
    BY <1>1, <1>2, <1>3, PaySound DEF Payable
<1> QED BY <1>1, <1>4, InvStep

LEMMA InvTick ==
    ASSUME MockInv, Tick
    PROVE  MockInv'
<1>1. /\ now \in Nat /\ now' \in Nat /\ now <= now' /\ now' \in 0 .. MaxNow
      /\ db' = db /\ calls' = calls
    BY MockAssumption DEF MockInv, MockTypeOK, Tick
<1>2. Sound(db', now')
    BY <1>1, SoundLater DEF MockInv
<1>3. ASSUME NEW t \in Tabs, calls[t] # None
      PROVE  /\ Sound(calls[t].read, now')
             /\ calls[t].op = "payment" => Payable(calls[t], now')
    <2> DEFINE c == calls[t]
               A == ActiveAt(c.read, now)
               B == ActiveAt(c.read, now')
    <2>1. Sound(c.read, now) /\ (c.op = "payment" => Payable(c, now))
        BY <1>3 DEF MockInv
    <2> HIDE DEF c
    <2>2. Sound(c.read, now') /\ B \subseteq A
        BY <1>1, <2>1, SoundLater
    <2>3. ASSUME c.op = "payment" PROVE Payable(c, now')
        <3>1. Payable(c, now) /\ c.read \in Database
            BY <2>1, <2>3 DEF Sound
        <3>2. IsFiniteSet(A) /\ IsFiniteSet(B) /\ c.read.available \in Nat
            BY <3>1, GrantsAreFinite, DatabaseFields
        <3>3. B \cup {c.user} \in SUBSET (A \cup {c.user})
            BY <2>2
        <3>4. Cardinality(A \cup {c.user}) <= c.read.available
            BY <3>1 DEF Payable
        <3> HIDE DEF A, B
        <3>5. IsFiniteSet(A \cup {c.user}) /\ IsFiniteSet(B \cup {c.user})
            BY <3>2, FS_AddElement
        <3>6. Cardinality(B \cup {c.user}) <= Cardinality(A \cup {c.user})
              /\ Cardinality(A \cup {c.user}) \in Nat /\ Cardinality(B \cup {c.user}) \in Nat
            BY <3>3, <3>5, FS_Subset, FS_CardinalityType
        <3>7. Cardinality(B \cup {c.user}) <= c.read.available
            BY <3>2, <3>4, <3>6
        <3> QED BY <3>1, <3>7 DEF Payable, B
    <2> QED BY <2>2, <2>3 DEF c
<1>4. MockTypeOK'
    BY <1>1 DEF MockInv, MockTypeOK
<1> QED BY <1>1, <1>2, <1>3, <1>4 DEF MockInv

LEMMA InvNext == MockInv /\ [MockNext]_mockVars => MockInv'
<1> SUFFICES ASSUME MockInv, [MockNext]_mockVars PROVE MockInv'
    OBVIOUS
<1>1. CASE MockNext
    <2>1. ASSUME NEW u \in Users, GetQueueState(u) PROVE MockInv'
        BY <2>1, InvGet
    <2>2. ASSUME NEW u \in Users, LeaveQueue(u) PROVE MockInv'
        BY <2>2, InvLeave
    <2>3. ASSUME NEW u \in Users, StartCheckout(u) PROVE MockInv'
        BY <2>3, InvStart
    <2>4. ASSUME NEW t \in Tabs, NEW u \in Users, BeginJoin(t, u) PROVE MockInv'
        BY <2>4, InvBeginJoin
    <2>5. ASSUME NEW t \in Tabs, NEW u \in Users, NEW k \in Keys, NEW result \in Results,
                 BeginPayment(t, u, k, result)
          PROVE  MockInv'
        BY <2>5, InvBeginPayment
    <2>6. ASSUME NEW t \in Tabs, EndJoin(t) PROVE MockInv'
        BY <2>6, InvEndJoin
    <2>7. ASSUME NEW t \in Tabs, EndPayment(t) PROVE MockInv'
        BY <2>7, InvEndPayment
    <2>8. CASE Tick
        BY <2>8, InvTick
    <2> QED BY <1>1, <2>1, <2>2, <2>3, <2>4, <2>5, <2>6, <2>7, <2>8 DEF MockNext
<1>2. CASE UNCHANGED mockVars
    BY <1>2 DEF mockVars, MockInv, MockTypeOK
<1> QED BY <1>1, <1>2

LEMMA InvAlways == MockSpec => []MockInv
<1> QED BY InvInit, InvNext, PTL DEF MockSpec

-----------------------------------------------------------------------------
(* Nobody waits beside a unit that no right holds.  This too has to be     *)
(* said of every database that is kept, and of a call that joins that its  *)
(* user had no right in the one it read.                                   *)

Held(d) == WaitingIn(d) # {} => d.available <= Cardinality(WithStatus(d, Rights))

HeldInv ==
    /\ Held(db)
    /\ \A t \in Tabs : calls[t] # None =>
          /\ Held(calls[t].read)
          /\ calls[t].op = "join" => calls[t].user \notin WithStatus(calls[t].read, Rights)

LEMMA RightsAreFinite ==
    ASSUME NEW d
    PROVE  /\ WithStatus(d, Rights) \subseteq Users /\ IsFiniteSet(WithStatus(d, Rights))
           /\ Cardinality(WithStatus(d, Rights)) \in Nat
<1>1. WithStatus(d, Rights) \subseteq Users
    BY DEF WithStatus, Entries
<1> QED BY <1>1, MockAssumption, FS_Subset, FS_CardinalityType

(* A change that opens no line, returns no unit and takes no right.        *)
LEMMA HeldStill ==
    ASSUME NEW d \in Database, NEW e \in Database, Held(d),
           WaitingIn(e) # {} => WaitingIn(d) # {},
           e.available <= d.available,
           WithStatus(d, Rights) \subseteq WithStatus(e, Rights)
    PROVE  Held(e)
<1>1. Cardinality(WithStatus(d, Rights)) <= Cardinality(WithStatus(e, Rights))
    BY RightsAreFinite, FS_Subset
<1> QED BY <1>1, RightsAreFinite, DatabaseFields DEF Held

(* Whatever the database was, after promotion who is left in line has      *)
(* nothing to wait beside.                                                 *)
LEMMA PromoteHolds ==
    ASSUME NEW d \in Database, TicketsDiffer(d), now \in 0 .. MaxNow
    PROVE  Held(Promote(d))
<1> DEFINE e == Promote(d)
           W == WaitingIn(d)
           C == Chosen(d)
           A == ActiveGrants(d)
           R == WithStatus(e, Rights)
<1>1. \A u \in Users :
         /\ u \notin W => e.queues[u] = d.queues[u]
         /\ u \in C => e.queues[u] = [d.queues[u] EXCEPT
               !.status = "GRANTED", !.position = None, !.expires = now + TTL]
    BY PromoteEntry
<1>2. e \in Database /\ e.available = d.available
    BY PromoteType, PromoteRest
<1> HIDE DEF e
<1>3. C \subseteq W /\ W \subseteq Entries(d) /\ A \subseteq WithStatus(d, Rights)
      /\ A \subseteq Entries(d) /\ Entries(d) \subseteq Users /\ A \cap W = {}
    BY DEF Chosen, WaitingIn, WithStatus, ActiveGrants, Entries, Rights
<1>4. ASSUME NEW u \in C PROVE u \in R /\ e.queues[u].status = "GRANTED"
    <2> DEFINE r == d.queues[u]
    <2>1. u \in Users /\ r \in Entry
        BY <1>3, EntryFields
    <2>2. e.queues[u] = [r EXCEPT !.status = "GRANTED", !.position = None, !.expires = now + TTL]
        BY <1>1, <2>1
    <2> HIDE DEF r
    <2>3. e.queues[u].status = "GRANTED"
        BY <2>1, <2>2 DEF Entry
    <2>4. now + TTL \in 0 .. MaxNow + TTL
        BY MockAssumption
    <2>5. e.queues[u] \in Entry
        BY <2>1, <2>2, <2>4 DEF Entry, Rights
    <2>6. e.queues[u] # None
        BY <2>5, NoneAssumption
    <2> QED BY <2>1, <2>3, <2>6 DEF WithStatus, Entries, Rights
<1>5. A \subseteq R
    BY <1>1, <1>3 DEF WithStatus, Entries
<1>6. WaitingIn(e) \subseteq W \ C
    <2>1. \A u \in WaitingIn(e) : u \in Users /\ e.queues[u].status = "WAITING"
                                  /\ e.queues[u] # None
        BY DEF WaitingIn, WithStatus, Entries
    <2>2. \A u \in Users \ W : d.queues[u] # None => d.queues[u].status # "WAITING"
        BY DEF WaitingIn, WithStatus, Entries
    <2> QED BY <1>1, <1>4, <2>1, <2>2
<1>7. ASSUME WaitingIn(e) # {} PROVE e.available <= Cardinality(R)
    <2>1. PICK v \in W : v \notin C
        BY <1>6, <1>7
    <2>2. FreeUnits(d) \in Nat /\ Free(d) \in Int /\ IsFiniteSet(A)
          /\ Ahead(d, v) \in Nat /\ Cardinality(W) \in Nat /\ Ahead(d, v) < Cardinality(W)
        BY <2>1, AheadBound, GrantsAreFinite
    <2>3. ~ (Ahead(d, v) < FreeUnits(d))
        BY <2>1 DEF Chosen
    <2>4. FreeUnits(d) <= Cardinality(W)
        BY <2>2, <2>3
    <2>5. IsFiniteSet(C) /\ Cardinality(C) = FreeUnits(d)
        BY <2>4, ChosenFill
    <2>6. A \cap C = {} /\ A \cup C \in SUBSET R
        BY <1>3, <1>4, <1>5
    <2>7. IsFiniteSet(R) /\ Cardinality(R) \in Nat
        BY RightsAreFinite
    <2>8. FreeUnits(d) >= d.available - Cardinality(A) /\ d.available \in Nat
          /\ Cardinality(A) \in Nat
        BY <2>2, FS_CardinalityType, DatabaseFields DEF FreeUnits, Free
    <2> HIDE DEF A, C, R, W
    <2>9. Cardinality(A \cup C) = Cardinality(A) + Cardinality(C)
        <3>1. Cardinality(A \cup C)
                 = Cardinality(A) + Cardinality(C) - Cardinality(A \cap C)
            BY <2>2, <2>5, FS_Union
        <3>2. Cardinality(A \cap C) = 0
            BY <2>6, FS_EmptySet
        <3> QED BY <2>2, <2>5, <2>8, <3>1, <3>2
    <2>10. Cardinality(A \cup C) <= Cardinality(R)
        BY <2>6, <2>7, FS_Subset
    <2> QED BY <1>2, <2>2, <2>5, <2>7, <2>8, <2>9, <2>10
<1> QED BY <1>7 DEF Held, e

(* Expiry promotes, or there was nothing to expire. *)
LEMMA ExpireHolds ==
    ASSUME NEW d, Sound(d, now), now \in 0 .. MaxNow, NEW u \in Entries(d), Held(d)
    PROVE  Held(ExpireIfNeeded(d, u))
<1> DEFINE e == Ended(d, u, "EXPIRED")
<1>1. d \in Database /\ FieldsFit(d) /\ TicketsDiffer(d) /\ InLine(d) /\ "EXPIRED" \in Final
    BY DEF Sound, Final
<1>2. /\ e \in Database /\ e.queues[u].status = "EXPIRED"
      /\ e.queues[u].ticket = d.queues[u].ticket
      /\ \A v \in Users \ {u} : e.queues[v] = d.queues[v]
    BY <1>1, WriteEnd
<1>3. ExpireIfNeeded(d, u) = IF ~ Overdue(d.queues[u]) THEN d ELSE Promote(e)
    BY DEF ExpireIfNeeded, Ended
<1> HIDE DEF e
<1>4. TicketsDiffer(e)
    BY <1>1, <1>2, EndedEntry
<1> QED BY <1>2, <1>3, <1>4, PromoteHolds

(* The newcomer had no right; with a unit free and nobody in line she gets *)
(* it, and otherwise there was no unit free or somebody in line already.   *)
LEMMA JoinHolds ==
    ASSUME NEW d \in Database, Held(d), NEW u \in Users, u \notin WithStatus(d, Rights)
    PROVE  Held(Joined(d, u))
<1> DEFINE granted == Free(d) > 0 /\ WaitingIn(d) = {}
           r == [ticket |-> NextTicketNo(d),
                 status |-> IF granted THEN "GRANTED" ELSE "WAITING",
                 position |-> IF granted THEN None ELSE Cardinality(WaitingIn(d)) + 1,
                 expires |-> IF granted THEN now + TTL ELSE None]
           e == Joined(d, u)
<1>1. r.status = IF granted THEN "GRANTED" ELSE "WAITING"
    OBVIOUS
<1>2. e = [d EXCEPT !.queues[u] = r]
    BY DEF Joined
<1> HIDE DEF r, e
<1>3. e.queues[u] = r /\ (\A v \in Users \ {u} : e.queues[v] = d.queues[v])
      /\ e.available = d.available
    BY <1>2, DatabaseFields
<1>4. WithStatus(d, Rights) \in SUBSET WithStatus(e, Rights)
    BY <1>3 DEF WithStatus, Entries
<1>5. Cardinality(WithStatus(d, Rights)) <= Cardinality(WithStatus(e, Rights))
      /\ Cardinality(WithStatus(d, Rights)) \in Nat
      /\ Cardinality(WithStatus(e, Rights)) \in Nat
    BY <1>4, RightsAreFinite, FS_Subset
<1>6. d.available \in Nat
    BY DatabaseFields
<1>7. CASE WaitingIn(d) # {}
    BY <1>3, <1>5, <1>6, <1>7 DEF Held, e
<1>8. CASE granted
    <2>1. WaitingIn(d) = {} /\ r.status = "GRANTED"
        BY <1>1, <1>8
    <2>2. WaitingIn(e) = {}
        BY <1>3, <2>1 DEF WaitingIn, WithStatus, Entries
    <2> QED BY <2>2 DEF Held, e
<1>9. CASE ~ (Free(d) > 0)
    <2>1. ActiveGrants(d) \in SUBSET WithStatus(d, Rights)
        BY DEF ActiveGrants
    <2>2. Cardinality(ActiveGrants(d)) <= Cardinality(WithStatus(d, Rights))
          /\ Cardinality(ActiveGrants(d)) \in Nat
        BY <2>1, RightsAreFinite, FS_Subset, FS_CardinalityType
    <2>3. d.available <= Cardinality(ActiveGrants(d))
        BY <1>6, <1>9, <2>2 DEF Free
    <2> QED BY <1>3, <1>5, <1>6, <2>2, <2>3 DEF Held, e
<1> QED BY <1>7, <1>8, <1>9

(* A unit that is sold leaves with the right to it; a payment that fails   *)
(* promotes.                                                               *)
LEMMA PayHolds ==
    ASSUME NEW d, Sound(d, now), now \in 0 .. MaxNow, Held(d),
           NEW u \in WithStatus(d, Rights), NEW k \in Keys, NEW result \in Results
    PROVE  Held(Paid(d, u, k, result))
<1> DEFINE w == Restated(d, u, result)
           s == [d EXCEPT !.queues[u].status = result, !.paymentResults[k] = result]
           p == [d.paymentResults EXCEPT ![k] = result]
           q == [s EXCEPT !.available = IF @ > 0 THEN @ - 1 ELSE 0, !.sold = @ + 1]
<1>1. d \in Database /\ FieldsFit(d) /\ TicketsDiffer(d) /\ InLine(d) /\ d.available \in Nat
    BY DatabaseFields DEF Sound
<1>2. u \in Entries(d) /\ u \in Users /\ result \in Final
    BY DEF WithStatus, Entries, Results, Final
<1>3. /\ w \in Database /\ w.queues[u].status = result
      /\ w.queues[u].ticket = d.queues[u].ticket
      /\ \A v \in Users \ {u} : w.queues[v] = d.queues[v]
      /\ w.available = d.available /\ w.sold = d.sold
      /\ w.paymentResults = d.paymentResults
    <2>1. result \in {"WAITING"} \cup Rights \cup Final
        BY <1>2
    <2> HIDE DEF s, p, q
    <2> QED BY <1>1, <1>2, <2>1, WriteStatus
<1>4. s = [w EXCEPT !.paymentResults[k] = result]
    BY <1>1, DatabaseFields DEF Restated
<1>5. Paid(d, u, k, result) = IF result = "PURCHASED" THEN q ELSE Promote(s)
    BY DEF Paid
<1> HIDE DEF w, s
<1>6. s = [queues |-> w.queues, available |-> d.available, sold |-> d.sold,
           paymentResults |-> p]
    BY <1>3, <1>4, DatabaseFields
<1>7. CASE result # "PURCHASED"
    <2>1. p \in [Keys -> Results \cup {None}]
        BY <1>1, DatabaseFields
    <2> HIDE DEF p
    <2>2. s \in Database
        BY <1>1, <1>3, <1>6, <2>1, DatabaseFields DEF Database
    <2>3. TicketsDiffer(s)
        BY <1>1, <1>2, <1>3, <1>6, <2>2, EndedEntry
    <2> QED BY <1>5, <1>7, <2>2, <2>3, PromoteHolds
<1>8. CASE result = "PURCHASED"
    <2>1. q.queues = w.queues /\ q.available = IF d.available > 0 THEN d.available - 1 ELSE 0
        BY <1>6
    <2> HIDE DEF q
    <2>2. WaitingIn(q) \subseteq WaitingIn(d)
        BY <1>3, <1>8, <2>1 DEF WaitingIn, WithStatus, Entries
    <2>3. WithStatus(d, Rights) \ {u} \in SUBSET WithStatus(q, Rights)
        BY <1>3, <2>1 DEF WithStatus, Entries
    <2> DEFINE R == WithStatus(d, Rights)
               S == WithStatus(q, Rights)
    <2>4. IsFiniteSet(R) /\ Cardinality(R) \in Nat /\ IsFiniteSet(S) /\ Cardinality(S) \in Nat
        BY RightsAreFinite
    <2> HIDE DEF R, S
    <2>5. Cardinality(R \ {u}) = Cardinality(R) - 1
        BY <2>4, FS_RemoveElement DEF R
    <2>6. Cardinality(R \ {u}) <= Cardinality(S)
        BY <2>3, <2>4, FS_Subset DEF R, S
    <2>7. WaitingIn(q) # {} => q.available <= Cardinality(S)
        <3> SUFFICES ASSUME WaitingIn(q) # {} PROVE q.available <= Cardinality(S)
            OBVIOUS
        <3>1. d.available <= Cardinality(R)
            BY <2>2 DEF Held, R
        <3> QED BY <1>1, <2>1, <2>4, <2>5, <2>6, <3>1
    <2> QED BY <1>5, <1>8, <2>7 DEF Held, S
<1> QED BY <1>7, <1>8

LEMMA HeldInit == MockInit => HeldInv
<1> SUFFICES ASSUME MockInit PROVE HeldInv
    OBVIOUS
<1>1. \A u \in Users : db.queues[u] = None
    BY DEF MockInit, EmptyDatabase
<1>2. WaitingIn(db) = {}
    BY <1>1 DEF WaitingIn, WithStatus, Entries
<1>3. \A t \in Tabs : calls[t] = None
    BY DEF MockInit
<1> QED BY <1>2, <1>3 DEF HeldInv, Held

(* Only what a call has written, or what a tab has read, is to be looked   *)
(* at.                                                                     *)
LEMMA HeldStep ==
    ASSUME MockInv, HeldInv, Held(db'),
           \/ calls' = calls
           \/ \E t \in Tabs :
                \/ calls' = [calls EXCEPT ![t] = None]
                \/ \E c \in Call :
                     /\ calls' = [calls EXCEPT ![t] = c] /\ Held(c.read)
                     /\ c.op = "join" => c.user \notin WithStatus(c.read, Rights)
    PROVE  HeldInv'
<1>1. calls \in [Tabs -> Call \cup {None}]
    BY DEF MockInv, MockTypeOK
<1>2. \A t \in Tabs : calls'[t] # None =>
          /\ Held(calls'[t].read)
          /\ calls'[t].op = "join" => calls'[t].user \notin WithStatus(calls'[t].read, Rights)
    BY <1>1 DEF HeldInv
<1> QED BY <1>2 DEF HeldInv, Held, WaitingIn, WithStatus, Entries

LEMMA HeldGet ==
    ASSUME MockInv, HeldInv, NEW u \in Users, GetQueueState(u)
    PROVE  HeldInv'
<1>1. Sound(db, now) /\ now \in 0 .. MaxNow /\ u \in Entries(db) /\ Held(db)
      /\ db' = ExpireIfNeeded(db, u) /\ calls' = calls
    BY DEF MockInv, MockTypeOK, GetQueueState, HeldInv
<1>2. Held(db')
    BY <1>1, ExpireHolds
<1> QED BY <1>1, <1>2, HeldStep

(* Who leaves without a right leaves the rights as they are. *)
LEMMA HeldLeave ==
    ASSUME MockInv, HeldInv, NEW u \in Users, LeaveQueue(u)
    PROVE  HeldInv'
<1> DEFINE left == Ended(db, u, "CANCELLED")
<1>1. now \in 0 .. MaxNow /\ u \in Entries(db) /\ calls' = calls /\ Held(db)
      /\ db \in Database /\ FieldsFit(db) /\ TicketsDiffer(db) /\ InLine(db)
      /\ "CANCELLED" \in Final
    BY DEF MockInv, MockTypeOK, LeaveQueue, HeldInv, Sound, Final
<1>2. db' = IF db.queues[u].expires # None THEN Promote(left) ELSE left
    BY DEF LeaveQueue, Ended
<1>3. /\ left \in Database /\ left.queues[u].status = "CANCELLED"
      /\ left.queues[u].ticket = db.queues[u].ticket
      /\ \A v \in Users \ {u} : left.queues[v] = db.queues[v]
      /\ left.available = db.available
    BY <1>1, WriteEnd
<1> HIDE DEF left
<1>4. CASE db.queues[u].expires # None
    <2>1. TicketsDiffer(left)
        BY <1>1, <1>3, EndedEntry
    <2>2. Held(db')
        BY <1>1, <1>2, <1>3, <1>4, <2>1, PromoteHolds
    <2> QED BY <1>1, <2>2, HeldStep
<1>5. CASE db.queues[u].expires = None
    <2>1. u \notin WithStatus(db, Rights)
        BY <1>1, <1>5 DEF FieldsFit
    <2>2. WithStatus(db, Rights) \subseteq WithStatus(left, Rights)
        BY <1>3, <2>1 DEF WithStatus, Entries
    <2>3. WaitingIn(left) \subseteq WaitingIn(db)
        BY <1>3 DEF WaitingIn, WithStatus, Entries
    <2>4. left.available <= db.available
        BY <1>1, <1>3, DatabaseFields
    <2>5. Held(left)
        BY <1>1, <1>3, <2>2, <2>3, <2>4, HeldStill
    <2> QED BY <1>1, <1>2, <1>5, <2>5, HeldStep
<1> QED BY <1>4, <1>5

LEMMA HeldStart ==
    ASSUME MockInv, HeldInv, NEW u \in Users, StartCheckout(u)
    PROVE  HeldInv'
<1> DEFINE d == ExpireIfNeeded(db, u)
           e == Restated(d, u, "CHECKOUT_PENDING")
<1>1. Sound(db, now) /\ now \in 0 .. MaxNow /\ u \in Entries(db) /\ calls' = calls /\ Held(db)
    BY DEF MockInv, MockTypeOK, StartCheckout, HeldInv
<1>2. db' = IF d.queues[u].status = "GRANTED" THEN e ELSE d
    BY DEF StartCheckout, Restated
<1>3. Held(d)
    BY <1>1, ExpireHolds
<1>4. ASSUME d.queues[u].status = "GRANTED" PROVE Held(e)
    <2>1. d = db
        BY <1>1, <1>4, ExpireSound DEF ExpireIfNeeded
    <2> HIDE DEF d
    <2>2. d \in Database /\ u \in Entries(d) /\ "CHECKOUT_PENDING" \in Rights /\ u \in Users
        BY <1>1, <2>1 DEF Sound, Rights, Entries
    <2>3. /\ e \in Database /\ e.queues[u] \in Entry
          /\ e.queues[u].status = "CHECKOUT_PENDING"
          /\ \A v \in Users \ {u} : e.queues[v] = d.queues[v]
          /\ e.available = d.available
        BY <2>2, WriteStatus
    <2> HIDE DEF e
    <2>4. WithStatus(d, Rights) \subseteq WithStatus(e, Rights)
        BY <2>2, <2>3, NoneAssumption DEF WithStatus, Entries
    <2>5. WaitingIn(e) \subseteq WaitingIn(d)
        BY <2>3 DEF WaitingIn, WithStatus, Entries
    <2>6. e.available <= d.available
        BY <2>2, <2>3, DatabaseFields
    <2> QED BY <1>3, <2>2, <2>3, <2>4, <2>5, <2>6, HeldStill
<1> QED BY <1>1, <1>2, <1>3, <1>4, HeldStep

LEMMA HeldBeginJoin ==
    ASSUME MockInv, HeldInv, NEW t \in Tabs, NEW u \in Users, BeginJoin(t, u)
    PROVE  HeldInv'
<1> DEFINE c == [op |-> "join", user |-> u, read |-> db]
<1>1. db \in Database /\ Held(db) /\ db' = db /\ calls' = [calls EXCEPT ![t] = c]
      /\ u \notin WithStatus(db, Rights)
    BY DEF MockInv, Sound, BeginJoin, HeldInv, WithStatus, Rights, Final
<1>2. c \in Call /\ c.read = db /\ c.user = u
    BY <1>1 DEF Call
<1> HIDE DEF c
<1> QED BY <1>1, <1>2, HeldStep

LEMMA HeldEndJoin ==
    ASSUME MockInv, HeldInv, NEW t \in Tabs, EndJoin(t)
    PROVE  HeldInv'
<1> DEFINE c == calls[t]
<1>1. c # None /\ c.op = "join" /\ db' = Joined(c.read, c.user)
      /\ calls' = [calls EXCEPT ![t] = None]
    BY DEF EndJoin
<1>2. c.read \in Database /\ c.user \in Users /\ Held(c.read)
      /\ c.user \notin WithStatus(c.read, Rights)
    BY <1>1 DEF MockInv, MockTypeOK, Call, HeldInv, Sound
<1> HIDE DEF c
<1>3. Held(db')
    BY <1>1, <1>2, JoinHolds
<1> QED BY <1>1, <1>3, HeldStep

LEMMA HeldBeginPayment ==
    ASSUME MockInv, HeldInv, NEW t \in Tabs, NEW u \in Users, NEW k \in Keys,
           NEW result \in Results, BeginPayment(t, u, k, result)
    PROVE  HeldInv'
<1> DEFINE c == [op |-> "payment", user |-> u, key |-> k, result |-> result, read |-> db]
<1>1. /\ Sound(db, now) /\ now \in 0 .. MaxNow /\ u \in Entries(db) /\ Held(db)
      /\ db' = ExpireIfNeeded(db, u)
      /\ calls' = calls \/ calls' = [calls EXCEPT ![t] = c]
    BY DEF MockInv, MockTypeOK, BeginPayment, HeldInv
<1>2. c \in Call /\ c.read = db /\ c.op # "join"
    BY <1>1 DEF Call, Sound
<1> HIDE DEF c
<1>3. Held(db')
    BY <1>1, ExpireHolds
<1> QED BY <1>1, <1>2, <1>3, HeldStep

LEMMA HeldEndPayment ==
    ASSUME MockInv, HeldInv, NEW t \in Tabs, EndPayment(t)
    PROVE  HeldInv'
<1> DEFINE c == calls[t]
<1>1. c # None /\ c.op = "payment" /\ db' = Paid(c.read, c.user, c.key, c.result)
      /\ calls' = [calls EXCEPT ![t] = None]
    BY DEF EndPayment
<1>2. /\ Sound(c.read, now) /\ now \in 0 .. MaxNow /\ Payable(c, now) /\ c \in Call
      /\ Held(c.read)
    BY <1>1 DEF MockInv, MockTypeOK, HeldInv
<1>3. c.key \in Keys /\ c.result \in Results
    BY <1>1, <1>2 DEF Call
<1> HIDE DEF c
<1>4. Held(db')
    BY <1>1, <1>2, <1>3, PayHolds DEF Payable
<1> QED BY <1>1, <1>4, HeldStep

LEMMA HeldNext == MockInv /\ HeldInv /\ [MockNext]_mockVars => HeldInv'
<1> SUFFICES ASSUME MockInv, HeldInv, [MockNext]_mockVars PROVE HeldInv'
    OBVIOUS
<1>1. CASE MockNext
    <2>1. ASSUME NEW u \in Users, GetQueueState(u) PROVE HeldInv'
        BY <2>1, HeldGet
    <2>2. ASSUME NEW u \in Users, LeaveQueue(u) PROVE HeldInv'
        BY <2>2, HeldLeave
    <2>3. ASSUME NEW u \in Users, StartCheckout(u) PROVE HeldInv'
        BY <2>3, HeldStart
    <2>4. ASSUME NEW t \in Tabs, NEW u \in Users, BeginJoin(t, u) PROVE HeldInv'
        BY <2>4, HeldBeginJoin
    <2>5. ASSUME NEW t \in Tabs, NEW u \in Users, NEW k \in Keys, NEW result \in Results,
                 BeginPayment(t, u, k, result)
          PROVE  HeldInv'
        BY <2>5, HeldBeginPayment
    <2>6. ASSUME NEW t \in Tabs, EndJoin(t) PROVE HeldInv'
        BY <2>6, HeldEndJoin
    <2>7. ASSUME NEW t \in Tabs, EndPayment(t) PROVE HeldInv'
        BY <2>7, HeldEndPayment
    <2>8. CASE Tick
        <3>1. db' = db /\ calls' = calls
            BY <2>8 DEF Tick
        <3> QED BY <3>1, HeldStep DEF HeldInv
    <2> QED BY <1>1, <2>1, <2>2, <2>3, <2>4, <2>5, <2>6, <2>7, <2>8 DEF MockNext
<1>2. CASE UNCHANGED mockVars
    BY <1>2, HeldStep DEF mockVars, HeldInv
<1> QED BY <1>1, <1>2

-----------------------------------------------------------------------------
(* The database and the calls of the tabs keep their types: the clock is   *)
(* never behind, a ticket and a position stay between 1 and the number of  *)
(* tickets drawn.                                                          *)
THEOREM MockTypes == MockSpec => []MockTypeOK
<1>1. MockInv => MockTypeOK
    BY DEF MockInv
<1> QED BY <1>1, InvAlways, PTL

(* However the tabs overwrite each other's calls, every right that has not *)
(* run out has a unit of its own, and as many units are sold as payments   *)
(* succeeded: a call writes one sound database, changed, over another.     *)
THEOREM RightsAreCovered == MockSpec => []StockCoversRights
<1>1. MockInv => StockCoversRights
    BY DEF MockInv, Sound, Sold, Purchased, ActiveAt, ActiveGrants, StockCoversRights
<1> QED BY <1>1, InvAlways, PTL

(* Nobody who waits has drawn a ticket before somebody who holds a right.  *)
THEOREM RightsGoInOrder == MockSpec => []FirstComeFirstServed
<1>1. MockInv => FirstComeFirstServed
    BY DEF MockInv, Sound, InLine, FirstComeFirstServed
<1> QED BY <1>1, InvAlways, PTL

(* The position shown to one who waits is behind all who wait before her.  *)
THEOREM PositionsHold == MockSpec => []PositionsNeverFlatter
<1>1. MockInv => PositionsNeverFlatter
    BY DEF MockInv, Sound, InLine, PositionsNeverFlatter
<1> QED BY <1>1, InvAlways, PTL

(* Nobody waits beside a unit that no right holds, however tabs overwrite  *)
(* each other's calls: whoever ends a right hands its unit on in the same  *)
(* call.                                                                   *)
THEOREM UnitsAreHeld == MockSpec => []NobodyWaitsBesideAUnit
<1>1. HeldInv => NobodyWaitsBesideAUnit
    BY DEF HeldInv, Held, NobodyWaitsBesideAUnit
<1>2. MockSpec => []HeldInv
    BY InvAlways, HeldInit, HeldNext, PTL DEF MockSpec
<1> QED BY <1>1, <1>2, PTL
=============================================================================
