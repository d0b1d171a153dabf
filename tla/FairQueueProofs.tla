--------------------------- MODULE FairQueueProofs ---------------------------
(***************************************************************************)
(* The safety invariants of FairQueue, what its steps may do, and that it  *)
(* implements FifoSale, proved for any number of products, units, users    *)
(* and tickets, any TTL and any lag.                                       *)
(*                                                                         *)
(* The first part is about rows: what the operations do to any tables es   *)
(* of entries, gs of grants, us of units and at of attempts, be they the   *)
(* committed ones or those in the middle of a transaction.  It ends with   *)
(* the types.                                                              *)
(*                                                                         *)
(* None of the invariants is inductive alone: that units match grants      *)
(* needs to know that nobody waiting has a grant (GrantsFollowEntries),    *)
(* that nobody is overtaken needs the next ticket to be the highest        *)
(* (TicketsFresh), and so on.  IInv is their conjunction, and that is      *)
(* inductive.                                                              *)
(***************************************************************************)
EXTENDS FairQueueSale, Ranking

(***************************************************************************)
(* Promotion.                                                              *)
(***************************************************************************)

(* M gives entries of W units of A, nobody two and none twice; it serves   *)
(* the front of W, and leaves entries waiting only if no unit is left.     *)
Pairing(M, W, A) ==
    /\ \A m \in M : m = <<m[1], m[2]>> /\ m[1] \in W /\ m[2] \in A
    /\ \A m, n \in M : m[1] = n[1] => m = n
    /\ \A m, n \in M : m[2] = n[2] => m = n
    /\ \A m \in M, e \in W : e[2] < m[1][2] => \E n \in M : n[1] = e
    /\ \/ \A e \in W : \E m \in M : m[1] = e
       \/ \A u \in A : \E m \in M : m[2] = u

(* The waiting entries of a product are numbered by their tickets.         *)
LEMMA WaitingNumbered ==
    ASSUME NEW es, EntriesOK(es), NEW p \in Products
    PROVE  LET W == Waiting(es, p) IN Numbered([e \in W |-> e[2]], W)
<1> DEFINE W == Waiting(es, p)
           key == [e \in W |-> e[2]]
<1>1. \A e \in W : e = <<p, e[2]>> /\ e[2] \in 1 .. MaxTicket
    BY DEF Waiting, EntriesOK, EntryIds
<1>2. key \in Injection(W, 1 .. MaxTicket)
    <2>1. key \in [W -> 1 .. MaxTicket]
        BY <1>1
    <2>2. \A x, y \in W : key[x] = key[y] => x = y
        BY <1>1
    <2> QED BY <2>1, <2>2 DEF Injection, IsInjective
<1>3. IsFiniteSet(1 .. MaxTicket)
    BY ConstantsAssumption, FS_Interval
<1>4. IsFiniteSet(W)
    BY <1>2, <1>3, FS_Injection
<1>5. \A x \in W : key[x] \in Nat
    BY <1>1, ConstantsAssumption
<1>6. \A x, y \in W : key[x] = key[y] => x = y
    BY <1>1
<1> HIDE DEF key
<1>7. Numbered(key, W)
    BY <1>4, <1>5, <1>6 DEF Numbered
<1> QED BY <1>7 DEF key

(* The available units of a product are numbered by their ids.             *)
LEMMA AvailableNumbered ==
    ASSUME NEW us, NEW p \in Products
    PROVE  LET A == Available(us, p) IN Numbered([u \in A |-> u], A)
<1> DEFINE A == Available(us, p)
<1>1. A \in SUBSET Units
    BY DEF Available, UnitsOf
<1>2. IsFiniteSet(A)
    BY <1>1, ConstantsAssumption, FS_Subset
<1> QED BY <1>1, <1>2, ConstantsAssumption DEF Numbered

(* Pairs is a pairing of the waiting entries with the available units.     *)
LEMMA PairsPair ==
    ASSUME NEW es, NEW us, EntriesOK(es), NEW p \in Products
    PROVE  Pairing(Pairs(es, us, p), Waiting(es, p), Available(us, p))
<1> DEFINE W == Waiting(es, p)
           A == Available(us, p)
           M == Pairs(es, us, p)
           wkey == [e \in W |-> e[2]]
           akey == [u \in A |-> u]
<1>1. Numbered(wkey, W) /\ Numbered(akey, A)
    BY WaitingNumbered, AvailableNumbered
<1>2. \A e \in W : Before(e, W) = Behind(wkey, W, e)
    BY DEF Before, Behind
<1>3. \A u \in A : Below(u, A) = Behind(akey, A, u)
    BY DEF Below, Behind
<1>4. \A e \in W : wkey[e] = e[2]
    OBVIOUS
<1> HIDE DEF wkey, akey
<1>5. M = {m \in W \X A : Rank(wkey, W, m[1]) = Rank(akey, A, m[2])}
    BY <1>2, <1>3 DEF Pairs, Rank
<1> HIDE DEF M, W, A
<1>6. IsFiniteSet(W) /\ IsFiniteSet(A)
    BY <1>1 DEF Numbered
<1>7. Cardinality(W) \in Nat /\ Cardinality(A) \in Nat
    BY <1>6, FS_CardinalityType
<1>8. \A m \in M : m = <<m[1], m[2]>> /\ m[1] \in W /\ m[2] \in A
    BY <1>5
<1>9. \A m, n \in M : m[1] = n[1] => m = n
    BY <1>1, <1>5, <1>8, RankInjective
<1>10. \A m, n \in M : m[2] = n[2] => m = n
    BY <1>1, <1>5, <1>8, RankInjective
<1>11. ASSUME NEW e \in W, Rank(wkey, W, e) < Cardinality(A)
       PROVE  \E m \in M : m[1] = e
    <2>1. Rank(wkey, W, e) \in 0 .. Cardinality(A) - 1
        BY <1>1, <1>7, <1>11, RankBound
    <2>2. PICK u \in A : Rank(akey, A, u) = Rank(wkey, W, e)
        BY <1>1, <2>1, RankOnto
    <2>3. <<e, u>> \in M
        BY <1>5, <2>2
    <2> QED BY <2>3
<1>12. ASSUME NEW u \in A, Rank(akey, A, u) < Cardinality(W)
       PROVE  \E m \in M : m[2] = u
    <2>1. Rank(akey, A, u) \in 0 .. Cardinality(W) - 1
        BY <1>1, <1>7, <1>12, RankBound
    <2>2. PICK e \in W : Rank(wkey, W, e) = Rank(akey, A, u)
        BY <1>1, <2>1, RankOnto
    <2>3. <<e, u>> \in M
        BY <1>5, <2>2
    <2> QED BY <2>3
<1>13. ASSUME NEW m \in M, NEW e \in W, e[2] < m[1][2]
       PROVE  \E n \in M : n[1] = e
    <2>1. Rank(wkey, W, e) < Rank(wkey, W, m[1])
        BY <1>1, <1>4, <1>8, <1>13, RankMonotone
    <2>2. Rank(wkey, W, m[1]) = Rank(akey, A, m[2])
        BY <1>5
    <2>3. Rank(akey, A, m[2]) \in 0 .. Cardinality(A) - 1
        BY <1>1, <1>8, RankBound
    <2>4. Rank(wkey, W, e) \in 0 .. Cardinality(W) - 1
        BY <1>1, RankBound
    <2>5. Rank(wkey, W, e) < Cardinality(A)
        BY <1>7, <2>1, <2>2, <2>3, <2>4
    <2> QED BY <1>11, <2>5
<1>14. \/ \A e \in W : \E m \in M : m[1] = e
       \/ \A u \in A : \E m \in M : m[2] = u
    <2>1. CASE Cardinality(W) <= Cardinality(A)
        <3>1. \A e \in W : Rank(wkey, W, e) \in 0 .. Cardinality(W) - 1
            BY <1>1, RankBound
        <3> QED BY <1>7, <1>11, <2>1, <3>1
    <2>2. CASE Cardinality(A) <= Cardinality(W)
        <3>1. \A u \in A : Rank(akey, A, u) \in 0 .. Cardinality(A) - 1
            BY <1>1, RankBound
        <3> QED BY <1>7, <1>12, <2>2, <3>1
    <2> QED BY <1>7, <2>1, <2>2
<1> QED BY <1>8, <1>9, <1>10, <1>13, <1>14 DEF Pairing, M, W, A

-----------------------------------------------------------------------------
(* es2, gs2, us2 are the tables after the entries of M got their units.    *)
Promoted(M, es, gs, us, p, lag, es2, gs2, us2) ==
    /\ Pairing(M, Waiting(es, p), Available(us, p))
    /\ es2 = PromotedEntries(es, M)
    /\ gs2 = PromotedGrants(gs, M, lag)
    /\ us2 = PromotedUnits(us, M)

(* The same, row by row: what the entries and units of M were, and what    *)
(* became of the rows of each table.                                       *)
Chosen(M, es, us, p) ==
    /\ \A m \in M : /\ m[1] \in DOMAIN es /\ m[1][1] = p
                    /\ es[m[1]].status = "WAITING"
                    /\ m[2] \in Units /\ ProductOf[m[2]] = p
                    /\ us[m[2]].status = "AVAILABLE" /\ us[m[2]].grant = None
    /\ \A m, n \in M : m[1] = n[1] => m[2] = n[2]
    /\ \A m, n \in M : m[2] = n[2] => m[1] = n[1]

EntryRows(M, es, es2) ==
    /\ DOMAIN es2 = DOMAIN es
    /\ \A m \in M : es2[m[1]] = [es[m[1]] EXCEPT !.status = "GRANTED"]
    /\ \A e \in DOMAIN es : (\E m \in M : m[1] = e) \/ es2[e] = es[e]

GrantRows(M, gs, lag, gs2) ==
    /\ DOMAIN gs2 = DOMAIN gs \cup {m[1] : m \in M}
    /\ \A m \in M : gs2[m[1]] = [unit |-> m[2], status |-> "ACTIVE",
                                left |-> TTL - lag, age |-> 0]
    /\ \A e \in DOMAIN gs : (\E m \in M : m[1] = e) \/ gs2[e] = gs[e]

UnitRows(M, us, us2) ==
    /\ \A m \in M : us2[m[2]] = [status |-> "RESERVED", grant |-> m[1]]
    /\ \A u \in Units : (\E m \in M : m[2] = u) \/ us2[u] = us[u]

(* A promotion, row by row: the three lemmas above together.               *)
LEMMA PromotedRows ==
    ASSUME NEW M, NEW es, NEW gs, NEW us, NEW es2, NEW gs2, NEW us2,
           NEW p \in Products, NEW lag \in Lags,
           Promoted(M, es, gs, us, p, lag, es2, gs2, us2)
    PROVE  /\ Chosen(M, es, us, p)
           /\ EntryRows(M, es, es2)
           /\ GrantRows(M, gs, lag, gs2)
           /\ UnitRows(M, us, us2)
<1>1. /\ \A m \in M : m[1] \in Waiting(es, p) /\ m[2] \in Available(us, p)
      /\ \A m, n \in M : m[1] = n[1] => m = n
      /\ \A m, n \in M : m[2] = n[2] => m = n
    BY DEF Promoted, Pairing
<1>2. Chosen(M, es, us, p)
    BY <1>1 DEF Chosen, Waiting, Available, UnitsOf
<1>3. \A m \in M : (CHOOSE n \in M : n[1] = m[1]) = m
    BY <1>1
<1>4. \A m \in M : (CHOOSE n \in M : n[2] = m[2]) = m
    BY <1>1
<1>5. EntryRows(M, es, es2)
    BY <1>2 DEF EntryRows, Chosen, Promoted, PromotedEntries
<1>6. GrantRows(M, gs, lag, gs2)
    BY <1>3 DEF GrantRows, Promoted, PromotedGrants
<1>7. UnitRows(M, us, us2)
    BY <1>2, <1>4 DEF UnitRows, Chosen, Promoted, PromotedUnits
<1> QED BY <1>2, <1>5, <1>6, <1>7

(* Promotion keeps every row well formed. *)
LEMMA PromotionTypes ==
    ASSUME NEW M, NEW es, NEW gs, NEW us, NEW es2, NEW gs2, NEW us2,
           NEW p \in Products, NEW lag \in Lags,
           EntriesOK(es), GrantsOK(es, gs), UnitsOK(us),
           Promoted(M, es, gs, us, p, lag, es2, gs2, us2)
    PROVE  EntriesOK(es2) /\ GrantsOK(es2, gs2) /\ UnitsOK(us2)
<1>1. /\ Chosen(M, es, us, p) /\ EntryRows(M, es, es2)
      /\ GrantRows(M, gs, lag, gs2) /\ UnitRows(M, us, us2)
    BY PromotedRows
<1>2. EntriesOK(es2)
    <2>1. ASSUME NEW e \in DOMAIN es2
          PROVE  es2[e] \in [user : Users, status : EntryStatus]
        <3>1. e \in DOMAIN es /\ es[e] \in [user : Users, status : EntryStatus]
            BY <1>1 DEF EntryRows, EntriesOK
        <3>2. es2[e] = es[e] \/ es2[e] = [es[e] EXCEPT !.status = "GRANTED"]
            BY <1>1, <3>1 DEF EntryRows
        <3> QED BY <3>1, <3>2 DEF EntryStatus
    <2> QED BY <1>1, <2>1 DEF EntriesOK, EntryRows
<1>3. GrantsOK(es2, gs2)
    <2>1. TTL - lag \in Floor .. TTL /\ 0 \in Lags
        BY ConstantsAssumption DEF Floor, Lags
    <2>2. ASSUME NEW m \in M
          PROVE  gs2[m[1]] \in [unit : Units, status : GrantStatus,
                                left : Floor .. TTL, age : Lags]
        <3>1. gs2[m[1]] = [unit |-> m[2], status |-> "ACTIVE",
                           left |-> TTL - lag, age |-> 0]
            BY <1>1 DEF GrantRows
        <3>2. m[2] \in Units
            BY <1>1 DEF Chosen
        <3> QED BY <2>1, <3>1, <3>2 DEF GrantStatus
    <2>3. ASSUME NEW e \in DOMAIN gs2
          PROVE  gs2[e] \in [unit : Units, status : GrantStatus,
                             left : Floor .. TTL, age : Lags]
        <3>1. CASE \E m \in M : m[1] = e
            BY <2>2, <3>1
        <3>2. CASE ~\E m \in M : m[1] = e
            BY <1>1, <2>3, <3>2 DEF GrantRows, GrantsOK
        <3> QED BY <3>1, <3>2
    <2>4. DOMAIN gs2 \subseteq DOMAIN es2
        BY <1>1 DEF GrantsOK, GrantRows, EntryRows, Chosen
    <2> QED BY <2>3, <2>4 DEF GrantsOK
<1>4. UnitsOK(us2)
    <2>1. ASSUME NEW m \in M
          PROVE  us2[m[2]] \in [status : UnitStatus, grant : EntryIds \cup {None}]
        <3>1. us2[m[2]] = [status |-> "RESERVED", grant |-> m[1]]
            BY <1>1 DEF UnitRows
        <3>2. m[1] \in EntryIds
            BY <1>1 DEF Chosen, EntriesOK
        <3> QED BY <3>1, <3>2 DEF UnitStatus
    <2>2. ASSUME NEW u \in Units
          PROVE  us2[u] \in [status : UnitStatus, grant : EntryIds \cup {None}]
        <3>1. CASE \E m \in M : m[2] = u
            BY <2>1, <3>1
        <3>2. CASE ~\E m \in M : m[2] = u
            BY <1>1, <3>2 DEF UnitRows, UnitsOK
        <3> QED BY <3>1, <3>2
    <2>3. us2 = [u \in Units |-> us2[u]]
        BY DEF Promoted, PromotedUnits
    <2> QED BY <2>2, <2>3 DEF UnitsOK
<1> QED BY <1>2, <1>3, <1>4

-----------------------------------------------------------------------------
(* What the tables are at every point of a transaction, so that promotion  *)
(* and closing can be applied to them.                                     *)
Consistent(es, gs, us) ==
    /\ EntriesOK(es) /\ GrantsOK(es, gs) /\ UnitsOK(us)
    /\ UnitsMatch(gs, us)
    /\ GrantsFollow(es, gs)
    /\ InOrder(es, gs)
    /\ OneActive(es)
    /\ NoneLeft(es, us)

(* A waiting entry has no grant, and no entry is NULL. *)
LEMMA WaitingHasNoGrant ==
    ASSUME NEW es, NEW gs, GrantsFollow(es, gs),
           NEW e \in DOMAIN es, es[e].status = "WAITING"
    PROVE  e \notin DOMAIN gs
BY DEF GrantsFollow, StatusPairs

(* No entry is mistaken for the NULL of a unit without a grant.            *)
LEMMA EntryIsNotNull ==
    ASSUME NEW es, EntriesOK(es), NEW e \in DOMAIN es
    PROVE  e # None
BY ConstantsAssumption DEF EntriesOK, EntryIds

(* Units and grants still match after promotion. *)
LEMMA PromotionUnitsMatch ==
    ASSUME NEW M, NEW es, NEW gs, NEW us, NEW es2, NEW gs2, NEW us2,
           NEW p \in Products, NEW lag \in Lags, Consistent(es, gs, us),
           Chosen(M, es, us, p), GrantRows(M, gs, lag, gs2), UnitRows(M, us, us2)
    PROVE  UnitsMatch(gs2, us2)
<1>1. \A m \in M : m[1] \notin DOMAIN gs
    BY WaitingHasNoGrant DEF Consistent, Chosen
<1>2. ASSUME NEW u \in Units
      PROVE  IF us2[u].status = "AVAILABLE" THEN us2[u].grant = None
             ELSE /\ us2[u].grant \in DOMAIN gs2
                  /\ gs2[us2[u].grant].unit = u
                  /\ gs2[us2[u].grant].status \in
                        IF us2[u].status = "RESERVED" THEN LiveGrant ELSE {"PURCHASED"}
    <2>1. CASE \E m \in M : m[2] = u
        <3>1. PICK m \in M : m[2] = u
            BY <2>1
        <3>2. us2[u] = [status |-> "RESERVED", grant |-> m[1]]
            BY <3>1 DEF UnitRows
        <3>3. /\ m[1] \in DOMAIN gs2
              /\ gs2[m[1]] = [unit |-> m[2], status |-> "ACTIVE", left |-> TTL - lag, age |-> 0]
            BY DEF GrantRows
        <3> QED BY <3>1, <3>2, <3>3 DEF LiveGrant
    <2>2. CASE ~\E m \in M : m[2] = u
        <3>1. us2[u] = us[u]
            BY <2>2 DEF UnitRows
        <3>2. CASE us[u].status = "AVAILABLE"
            BY <3>1, <3>2 DEF Consistent, UnitsMatch
        <3>3. CASE us[u].status # "AVAILABLE"
            <4> DEFINE g == us[u].grant
            <4>1. /\ g \in DOMAIN gs
                  /\ gs[g].unit = u
                  /\ gs[g].status \in
                        IF us[u].status = "RESERVED" THEN LiveGrant ELSE {"PURCHASED"}
                BY <3>3 DEF Consistent, UnitsMatch
            <4>2. g \in DOMAIN gs2 /\ gs2[g] = gs[g]
                BY <1>1, <4>1 DEF GrantRows
            <4> QED BY <3>1, <3>3, <4>1, <4>2
        <3> QED BY <3>2, <3>3
    <2> QED BY <2>1, <2>2
<1>3. ASSUME NEW e \in DOMAIN gs2
      PROVE  /\ ProductOf[gs2[e].unit] = e[1]
             /\ gs2[e].status \in LiveGrant \cup {"PURCHASED"} =>
                   us2[gs2[e].unit].grant = e
    <2>1. CASE \E m \in M : m[1] = e
        <3>1. PICK m \in M : m[1] = e
            BY <2>1
        <3>2. gs2[e] = [unit |-> m[2], status |-> "ACTIVE", left |-> TTL - lag, age |-> 0]
            BY <3>1 DEF GrantRows
        <3>3. us2[m[2]] = [status |-> "RESERVED", grant |-> m[1]]
            BY DEF UnitRows
        <3>4. ProductOf[m[2]] = p /\ m[1][1] = p
            BY DEF Chosen
        <3> QED BY <3>1, <3>2, <3>3, <3>4
    <2>2. CASE ~\E m \in M : m[1] = e
        <3>1. e \in DOMAIN gs /\ gs2[e] = gs[e]
            BY <1>3, <2>2 DEF GrantRows
        <3>2. ProductOf[gs[e].unit] = e[1] /\ gs[e].unit \in Units
            BY <3>1 DEF Consistent, UnitsMatch, GrantsOK
        <3>3. ASSUME gs[e].status \in LiveGrant \cup {"PURCHASED"}
              PROVE  us2[gs[e].unit].grant = e
            <4>1. us[gs[e].unit].grant = e
                BY <3>1, <3>3 DEF Consistent, UnitsMatch
            <4>2. e # None
                BY <3>1, EntryIsNotNull DEF Consistent, GrantsOK
            <4>3. ~\E m \in M : m[2] = gs[e].unit
                BY <4>1, <4>2 DEF Chosen
            <4> QED BY <3>2, <4>1, <4>3 DEF UnitRows
        <3> QED BY <3>1, <3>2, <3>3
    <2> QED BY <2>1, <2>2
<1> QED BY <1>2, <1>3 DEF UnitsMatch

(* Entries and grants still agree after promotion. *)
LEMMA PromotionGrantsFollow ==
    ASSUME NEW M, NEW es, NEW gs, NEW us, NEW es2, NEW gs2,
           NEW p \in Products, NEW lag \in Lags, Consistent(es, gs, us),
           Chosen(M, es, us, p), EntryRows(M, es, es2), GrantRows(M, gs, lag, gs2)
    PROVE  GrantsFollow(es2, gs2)
<1> SUFFICES ASSUME NEW e \in DOMAIN es
             PROVE  IF e \in DOMAIN gs2
                    THEN <<es2[e].status, gs2[e].status>> \in StatusPairs
                    ELSE es2[e].status \in {"WAITING", "SOLD_OUT", "CANCELLED"}
    BY DEF GrantsFollow, EntryRows
<1>1. CASE \E m \in M : m[1] = e
    <2>1. PICK m \in M : m[1] = e
        BY <1>1
    <2>2. es2[e] = [es[e] EXCEPT !.status = "GRANTED"] /\ es[e] \in [user : Users, status : EntryStatus]
        BY <2>1 DEF EntryRows, Consistent, EntriesOK
    <2>3. /\ gs2[e] = [unit |-> m[2], status |-> "ACTIVE", left |-> TTL - lag, age |-> 0]
          /\ e \in DOMAIN gs2
        BY <2>1 DEF GrantRows
    <2> QED BY <2>2, <2>3 DEF StatusPairs
<1>2. CASE ~\E m \in M : m[1] = e
    <2>1. es2[e] = es[e] /\ (e \in DOMAIN gs2 <=> e \in DOMAIN gs)
        BY <1>2 DEF EntryRows, GrantRows
    <2>2. e \in DOMAIN gs => gs2[e] = gs[e]
        BY <1>2 DEF GrantRows
    <2> QED BY <2>1, <2>2 DEF Consistent, GrantsFollow
<1> QED BY <1>1, <1>2

(* The front of the line is served: nobody is overtaken. *)
LEMMA PromotionInOrder ==
    ASSUME NEW M, NEW es, NEW gs, NEW us, NEW es2, NEW gs2, NEW us2,
           NEW p \in Products, NEW lag \in Lags, Consistent(es, gs, us),
           Promoted(M, es, gs, us, p, lag, es2, gs2, us2)
    PROVE  InOrder(es2, gs2)
<1>1. Chosen(M, es, us, p) /\ EntryRows(M, es, es2) /\ GrantRows(M, gs, lag, gs2)
    BY PromotedRows
<1> SUFFICES ASSUME NEW e \in DOMAIN es2, NEW f \in DOMAIN gs2,
                    e[1] = f[1], e[2] < f[2], es2[e].status = "WAITING"
             PROVE  FALSE
    BY DEF InOrder
<1>2. e \in DOMAIN es /\ es[e] \in [user : Users, status : EntryStatus]
    BY <1>1 DEF EntryRows, Consistent, EntriesOK
<1>3. ~\E m \in M : m[1] = e
    BY <1>1, <1>2 DEF EntryRows
<1>4. es[e].status = "WAITING"
    BY <1>1, <1>2, <1>3 DEF EntryRows
<1>5. CASE \E m \in M : m[1] = f
    <2>1. PICK m \in M : m[1] = f
        BY <1>5
    <2>2. f[1] = p
        BY <1>1, <2>1 DEF Chosen
    <2>3. e \in Waiting(es, p)
        BY <1>2, <1>4, <2>2 DEF Waiting
    <2>4. \E n \in M : n[1] = e
        BY <2>1, <2>3 DEF Promoted, Pairing
    <2> QED BY <1>3, <2>4
<1>6. CASE ~\E m \in M : m[1] = f
    <2>1. f \in DOMAIN gs
        BY <1>1, <1>6 DEF GrantRows
    <2> QED BY <1>2, <1>4, <2>1 DEF Consistent, InOrder
<1> QED BY <1>5, <1>6

(* Whoever is waiting after promotion was waiting before, and a unit that  *)
(* is free after it was free before.                                       *)
LEMMA PromotionShrinks ==
    ASSUME NEW M, NEW es, NEW us, NEW es2, NEW us2, NEW p \in Products,
           EntriesOK(es), Chosen(M, es, us, p), EntryRows(M, es, es2), UnitRows(M, us, us2)
    PROVE  /\ \A q \in Products : \A e \in Waiting(es2, q) :
                e \in Waiting(es, q) /\ ~\E m \in M : m[1] = e
           /\ \A q \in Products : \A u \in Available(us2, q) :
                u \in Available(us, q) /\ ~\E m \in M : m[2] = u
<1>1. ASSUME NEW q \in Products, NEW e \in Waiting(es2, q)
      PROVE  e \in Waiting(es, q) /\ ~\E m \in M : m[1] = e
    <2>1. /\ e \in DOMAIN es /\ e[1] = q /\ es2[e].status = "WAITING"
          /\ es[e] \in [user : Users, status : EntryStatus]
        BY DEF Waiting, EntryRows, EntriesOK
    <2>2. ~\E m \in M : m[1] = e
        BY <2>1 DEF EntryRows
    <2> QED BY <2>1, <2>2 DEF EntryRows, Waiting
<1>2. ASSUME NEW q \in Products, NEW u \in Available(us2, q)
      PROVE  u \in Available(us, q) /\ ~\E m \in M : m[2] = u
    <2>1. u \in UnitsOf(q) /\ u \in Units /\ us2[u].status = "AVAILABLE" /\ us2[u].grant = None
        BY DEF Available, UnitsOf
    <2>2. ASSUME NEW m \in M PROVE us2[m[2]].status = "RESERVED"
        <3>1. us2[m[2]] = [status |-> "RESERVED", grant |-> m[1]]
            BY DEF UnitRows
        <3> QED BY <3>1
    <2>3. ~\E m \in M : m[2] = u
        BY <2>1, <2>2
    <2>4. us2[u] = us[u]
        BY <2>1, <2>3 DEF UnitRows
    <2> QED BY <2>1, <2>3, <2>4 DEF Available
<1> QED BY <1>1, <1>2

(* Nobody joins the line of another product than p, and no unit of another *)
(* comes free.                                                             *)
OthersSpared(p, es, us, es2, us2) ==
    \A q \in Products : q # p => /\ Waiting(es2, q) \subseteq Waiting(es, q)
                                /\ Available(us2, q) \subseteq Available(us, q)

(* Promotion keeps the tables consistent, leaves nobody waiting for a free *)
(* unit of its product and changes nothing for the lines of the others.    *)
LEMMA PromotionConsistent ==
    ASSUME NEW M, NEW es, NEW gs, NEW us, NEW es2, NEW gs2, NEW us2,
           NEW p \in Products, NEW lag \in Lags, Consistent(es, gs, us),
           Promoted(M, es, gs, us, p, lag, es2, gs2, us2)
    PROVE  /\ Consistent(es2, gs2, us2)
           /\ Waiting(es2, p) = {} \/ Available(us2, p) = {}
           /\ OthersSpared(p, es, us, es2, us2)
<1>1. /\ Chosen(M, es, us, p) /\ EntryRows(M, es, es2)
      /\ GrantRows(M, gs, lag, gs2) /\ UnitRows(M, us, us2)
    BY PromotedRows
<1>2. EntriesOK(es2) /\ GrantsOK(es2, gs2) /\ UnitsOK(us2)
    BY PromotionTypes DEF Consistent
<1>3. UnitsMatch(gs2, us2) /\ GrantsFollow(es2, gs2) /\ InOrder(es2, gs2)
    BY <1>1, PromotionUnitsMatch, PromotionGrantsFollow, PromotionInOrder
<1>4. /\ \A q \in Products : \A e \in Waiting(es2, q) :
            e \in Waiting(es, q) /\ ~\E m \in M : m[1] = e
      /\ \A q \in Products : \A u \in Available(us2, q) :
            u \in Available(us, q) /\ ~\E m \in M : m[2] = u
    BY <1>1, PromotionShrinks DEF Consistent
<1>5. OneActive(es2)
    <2>1. ASSUME NEW e \in DOMAIN es
          PROVE  /\ es2[e].user = es[e].user
                 /\ es2[e].status \in ActiveEntry => es[e].status \in ActiveEntry
        <3>1. es[e] \in [user : Users, status : EntryStatus]
            BY DEF Consistent, EntriesOK
        <3>2. CASE \E m \in M : m[1] = e
            <4>0. PICK m \in M : m[1] = e
                BY <3>2
            <4>1. es2[e] = [es[e] EXCEPT !.status = "GRANTED"] /\ es[e].status = "WAITING"
                BY <1>1, <4>0 DEF EntryRows, Chosen
            <4> QED BY <3>1, <4>1 DEF ActiveEntry
        <3>3. CASE ~\E m \in M : m[1] = e
            BY <1>1, <3>3 DEF EntryRows
        <3> QED BY <3>2, <3>3
    <2> QED BY <1>1, <2>1 DEF OneActive, Consistent, EntryRows
<1>6. NoneLeft(es2, us2)
    <2> SUFFICES ASSUME NEW q \in Products, AllSold(us2, q) PROVE Waiting(es2, q) = {}
        BY DEF NoneLeft
    <2>1. ASSUME NEW u \in UnitsOf(q) PROVE us[u].status = "SOLD"
        <3>1. u \in Units /\ us2[u].status = "SOLD"
            BY DEF AllSold, UnitsOf
        <3>2. ASSUME NEW m \in M PROVE us2[m[2]].status = "RESERVED"
            <4>1. us2[m[2]] = [status |-> "RESERVED", grant |-> m[1]]
                BY <1>1 DEF UnitRows
            <4> QED BY <4>1
        <3> QED BY <1>1, <3>1, <3>2 DEF UnitRows
    <2>2. Waiting(es, q) = {}
        BY <2>1 DEF AllSold, Consistent, NoneLeft
    <2> QED BY <1>4, <2>2
<1>7. Waiting(es2, p) = {} \/ Available(us2, p) = {}
    BY <1>4 DEF Promoted, Pairing
<1>8. OthersSpared(p, es, us, es2, us2)
    BY <1>4 DEF OthersSpared
<1>9. Consistent(es2, gs2, us2)
    BY <1>2, <1>3, <1>5, <1>6 DEF Consistent
<1> QED BY <1>7, <1>8, <1>9

-----------------------------------------------------------------------------
(***************************************************************************)
(* The row updates keep the rows well formed.                              *)
(***************************************************************************)

(* MarkEntryStatus writes a status of the schema to an existing entry.     *)
LEMMA MarkEntryTypes ==
    ASSUME NEW es, EntriesOK(es), NEW e \in DOMAIN es, NEW from, NEW to \in EntryStatus
    PROVE  /\ EntriesOK(MarkEntryStatus(es, e, from, to))
           /\ DOMAIN MarkEntryStatus(es, e, from, to) = DOMAIN es
BY DEF EntriesOK, MarkEntryStatus

(* UpdateGrantStatus, which also clears the countdown, does so to a grant. *)
LEMMA UpdateGrantTypes ==
    ASSUME NEW es, NEW gs, GrantsOK(es, gs), NEW e \in DOMAIN gs,
           NEW from, NEW to \in GrantStatus
    PROVE  GrantsOK(es, UpdateGrantStatus(gs, e, from, to))
<1>1. 0 \in Floor .. TTL /\ 0 \in Lags
    BY ConstantsAssumption DEF Floor, Lags
<1> QED BY <1>1 DEF GrantsOK, UpdateGrantStatus

(* So do the two updates of a unit.                                        *)
LEMMA MarkUnitTypes ==
    ASSUME NEW us, UnitsOK(us), NEW u \in Units
    PROVE  UnitsOK(MarkUnitAvailable(us, u)) /\ UnitsOK(MarkUnitSold(us, u))
BY DEF UnitsOK, UnitStatus, MarkUnitAvailable, MarkUnitSold

-----------------------------------------------------------------------------
(* Of a table only the row of e (of u) differs, in the status given.       *)
EntryMoved(es, e, to, es2) ==
    /\ DOMAIN es2 = DOMAIN es
    /\ es2[e].status = to /\ es2[e].user = es[e].user
    /\ \A f \in DOMAIN es : f # e => es2[f] = es[f]

GrantMoved(gs, e, to, gs2) ==
    /\ DOMAIN gs2 = DOMAIN gs
    /\ gs2[e].status = to /\ gs2[e].unit = gs[e].unit
    /\ \A f \in DOMAIN gs : f # e => gs2[f] = gs[f]

UnitMoved(us, u, to, g, us2) ==
    /\ us2[u].status = to /\ us2[u].grant = g
    /\ \A v \in Units : v # u => us2[v] = us[v]

(* MarkEntryStatus moves the entry when its condition holds.               *)
LEMMA MarkEntryMoves ==
    ASSUME NEW es, EntriesOK(es), NEW e \in DOMAIN es, NEW to, NEW from,
           es[e].status = from
    PROVE  EntryMoved(es, e, to, MarkEntryStatus(es, e, from, to))
<1>1. es[e] \in [user : Users, status : EntryStatus]
    BY DEF EntriesOK
<1> QED BY <1>1 DEF EntryMoved, MarkEntryStatus

(* UpdateGrantStatus moves the grant when its condition holds.             *)
LEMMA UpdateGrantMoves ==
    ASSUME NEW es, NEW gs, GrantsOK(es, gs), NEW e \in DOMAIN gs, NEW to, NEW from,
           gs[e].status = from
    PROVE  GrantMoved(gs, e, to, UpdateGrantStatus(gs, e, from, to))
<1>1. gs[e] \in [unit : Units, status : GrantStatus, left : Floor .. TTL, age : Lags]
    BY DEF GrantsOK
<1> QED BY <1>1 DEF GrantMoved, UpdateGrantStatus

(* A reserved unit is moved, to be sold or to be available again.          *)
LEMMA MarkUnitMoves ==
    ASSUME NEW us, UnitsOK(us), NEW u \in Units, us[u].status = "RESERVED"
    PROVE  /\ UnitMoved(us, u, "AVAILABLE", None, MarkUnitAvailable(us, u))
           /\ UnitMoved(us, u, "SOLD", us[u].grant, MarkUnitSold(us, u))
<1>1. us[u] \in [status : UnitStatus, grant : EntryIds \cup {None}]
    BY DEF UnitsOK
<1>2. DOMAIN us = Units
    BY DEF UnitsOK
<1> QED BY <1>1, <1>2 DEF UnitMoved, MarkUnitAvailable, MarkUnitSold

(* The entry, the grant and the unit of a right that is held.              *)
LEMMA HeldRight ==
    ASSUME NEW es, NEW gs, NEW us, Consistent(es, gs, us),
           NEW e \in DOMAIN gs, gs[e].status \in LiveGrant
    PROVE  /\ e \in DOMAIN es /\ e \in EntryIds /\ e[1] \in Products
           /\ es[e].status = IF gs[e].status = "ACTIVE" THEN "GRANTED" ELSE "CHECKOUT_PENDING"
           /\ gs[e].unit \in Units /\ ProductOf[gs[e].unit] = e[1]
           /\ us[gs[e].unit].status = "RESERVED" /\ us[gs[e].unit].grant = e
<1>1. /\ e \in DOMAIN es /\ e \in EntryIds /\ e[1] \in Products
      /\ gs[e].unit \in Units
    BY DEF Consistent, EntriesOK, GrantsOK, EntryIds
<1>2. <<es[e].status, gs[e].status>> \in StatusPairs
    BY <1>1 DEF Consistent, GrantsFollow
<1>3. es[e].status = IF gs[e].status = "ACTIVE" THEN "GRANTED" ELSE "CHECKOUT_PENDING"
    BY <1>2 DEF StatusPairs, LiveGrant
<1>4. ProductOf[gs[e].unit] = e[1] /\ us[gs[e].unit].grant = e
    BY DEF Consistent, UnitsMatch
<1>5. e # None
    BY <1>1, EntryIsNotNull DEF Consistent
<1>6. us[gs[e].unit].status # "AVAILABLE"
    BY <1>1, <1>4, <1>5 DEF Consistent, UnitsMatch
<1>7. us[gs[e].unit].status # "SOLD"
    BY <1>1, <1>4, <1>6 DEF Consistent, UnitsMatch, LiveGrant
<1>8. us[gs[e].unit].status \in UnitStatus
    BY <1>1 DEF Consistent, UnitsOK
<1>9. us[gs[e].unit].status = "RESERVED"
    BY <1>6, <1>7, <1>8 DEF UnitStatus
<1> QED BY <1>1, <1>3, <1>4, <1>9

(* A unit state that goes with a grant's status. *)
Fits(gto, e, to, g) ==
    \/ gto \in LiveGrant /\ to = "RESERVED" /\ g = e
    \/ gto = "PURCHASED" /\ to = "SOLD" /\ g = e
    \/ gto \in {"EXPIRED", "FAILED", "CANCELLED"} /\ to = "AVAILABLE" /\ g = None

(* A held right moves on, with its entry and its unit: everything stays    *)
(* consistent but for what depends on how many units are sold.             *)
LEMMA MovedRight ==
    ASSUME NEW es, NEW gs, NEW us, NEW es2, NEW gs2, NEW us2, Consistent(es, gs, us),
           NEW e \in DOMAIN gs, gs[e].status \in LiveGrant,
           NEW to, NEW gto, NEW uto, NEW g,
           <<to, gto>> \in StatusPairs, Fits(gto, e, uto, g),
           EntryMoved(es, e, to, es2), GrantMoved(gs, e, gto, gs2),
           UnitMoved(us, gs[e].unit, uto, g, us2)
    PROVE  /\ UnitsMatch(gs2, us2) /\ GrantsFollow(es2, gs2)
           /\ InOrder(es2, gs2) /\ OneActive(es2)
           /\ \A q \in Products : Waiting(es2, q) \subseteq Waiting(es, q)
<1> DEFINE u == gs[e].unit
<1>1. /\ e \in DOMAIN es /\ es[e].status \in {"GRANTED", "CHECKOUT_PENDING"}
      /\ u \in Units /\ ProductOf[u] = e[1]
      /\ us[u].status = "RESERVED" /\ us[u].grant = e
    BY HeldRight
<1>2. to # "WAITING"
    BY DEF StatusPairs
<1>3. UnitsMatch(gs2, us2)
    <2>1. ASSUME NEW v \in Units
          PROVE  IF us2[v].status = "AVAILABLE" THEN us2[v].grant = None
                 ELSE /\ us2[v].grant \in DOMAIN gs2
                      /\ gs2[us2[v].grant].unit = v
                      /\ gs2[us2[v].grant].status \in
                            IF us2[v].status = "RESERVED" THEN LiveGrant ELSE {"PURCHASED"}
        <3>1. CASE v = u
            BY <1>1, <3>1 DEF Fits, UnitMoved, GrantMoved
        <3>2. CASE v # u
            <4>1. us2[v] = us[v]
                BY <3>2 DEF UnitMoved
            <4>2. CASE us[v].status = "AVAILABLE"
                BY <4>1, <4>2 DEF Consistent, UnitsMatch
            <4>3. CASE us[v].status # "AVAILABLE"
                <5>1. /\ us[v].grant \in DOMAIN gs
                      /\ gs[us[v].grant].unit = v
                      /\ gs[us[v].grant].status \in
                            IF us[v].status = "RESERVED" THEN LiveGrant ELSE {"PURCHASED"}
                    BY <4>3 DEF Consistent, UnitsMatch
                <5>2. gs2[us[v].grant] = gs[us[v].grant] /\ us[v].grant \in DOMAIN gs2
                    BY <3>2, <5>1 DEF GrantMoved
                <5> QED BY <4>1, <4>3, <5>1, <5>2
            <4> QED BY <4>2, <4>3
        <3> QED BY <3>1, <3>2
    <2>2. ASSUME NEW f \in DOMAIN gs2
          PROVE  /\ ProductOf[gs2[f].unit] = f[1]
                 /\ gs2[f].status \in LiveGrant \cup {"PURCHASED"} =>
                       us2[gs2[f].unit].grant = f
        <3>1. CASE f = e
            BY <1>1, <3>1 DEF Fits, UnitMoved, GrantMoved, LiveGrant
        <3>2. CASE f # e
            <4>1. f \in DOMAIN gs /\ gs2[f] = gs[f] /\ gs[f].unit \in Units
                BY <3>2 DEF GrantMoved, Consistent, GrantsOK
            <4>2. /\ ProductOf[gs[f].unit] = f[1]
                  /\ gs[f].status \in LiveGrant \cup {"PURCHASED"} => us[gs[f].unit].grant = f
                BY <4>1 DEF Consistent, UnitsMatch
            <4> QED BY <1>1, <3>2, <4>1, <4>2 DEF UnitMoved
        <3> QED BY <3>1, <3>2
    <2> QED BY <2>1, <2>2 DEF UnitsMatch
<1>4. GrantsFollow(es2, gs2)
    BY <1>1 DEF GrantsFollow, Consistent, EntryMoved, GrantMoved
<1>5. \A f \in DOMAIN es2 : es2[f].status = "WAITING" => es[f].status = "WAITING"
    BY <1>2 DEF EntryMoved
<1>6. InOrder(es2, gs2)
    BY <1>5 DEF InOrder, Consistent, EntryMoved, GrantMoved
<1>7. \A f \in DOMAIN es2 : /\ es2[f].user = es[f].user
                            /\ es2[f].status \in ActiveEntry => es[f].status \in ActiveEntry
    BY <1>1 DEF EntryMoved, ActiveEntry
<1>8. OneActive(es2)
    BY <1>7 DEF OneActive, Consistent, EntryMoved
<1>9. \A q \in Products : Waiting(es2, q) \subseteq Waiting(es, q)
    BY <1>5 DEF Waiting, EntryMoved
<1> QED BY <1>3, <1>4, <1>6, <1>8, <1>9

(* A right that ends gives its unit back: the line it leaves behind has    *)
(* something to be served with, and the other lines are untouched.         *)
LEMMA ReturnedRight ==
    ASSUME NEW es, NEW gs, NEW us, NEW es2, NEW gs2, NEW us2, Consistent(es, gs, us),
           NEW e \in DOMAIN gs, gs[e].status \in LiveGrant,
           NEW to, NEW gto \in {"EXPIRED", "FAILED", "CANCELLED"},
           <<to, gto>> \in StatusPairs,
           EntryMoved(es, e, to, es2), GrantMoved(gs, e, gto, gs2),
           UnitMoved(us, gs[e].unit, "AVAILABLE", None, us2),
           EntriesOK(es2), GrantsOK(es2, gs2), UnitsOK(us2)
    PROVE  /\ Consistent(es2, gs2, us2)
           /\ OthersSpared(e[1], es, us, es2, us2)
<1> DEFINE u == gs[e].unit
<1>1. u \in Units /\ ProductOf[u] = e[1]
    BY HeldRight
<1>2. Fits(gto, e, "AVAILABLE", None)
    BY DEF Fits
<1>3. /\ UnitsMatch(gs2, us2) /\ GrantsFollow(es2, gs2)
      /\ InOrder(es2, gs2) /\ OneActive(es2)
      /\ \A q \in Products : Waiting(es2, q) \subseteq Waiting(es, q)
    BY <1>2, MovedRight
<1>4. NoneLeft(es2, us2)
    <2> SUFFICES ASSUME NEW q \in Products, AllSold(us2, q) PROVE Waiting(es2, q) = {}
        BY DEF NoneLeft
    <2>1. q # e[1]
        BY <1>1 DEF AllSold, UnitsOf, UnitMoved
    <2>2. AllSold(us, q)
        BY <1>1, <2>1 DEF AllSold, UnitsOf, UnitMoved
    <2> QED BY <1>3, <2>2 DEF Consistent, NoneLeft
<1>5. \A q \in Products : q # e[1] => Available(us2, q) \subseteq Available(us, q)
    BY <1>1 DEF Available, UnitsOf, UnitMoved
<1>6. OthersSpared(e[1], es, us, es2, us2)
    BY <1>3, <1>5 DEF OthersSpared
<1>7. Consistent(es2, gs2, us2)
    BY <1>3, <1>4 DEF Consistent
<1> QED BY <1>6, <1>7

-----------------------------------------------------------------------------
(***************************************************************************)
(* The type invariant, for any number of products, units, users and        *)
(* tickets, any TTL and any lag.                                           *)
(***************************************************************************)

(* Promote is a promotion of the tables it is given. *)
LEMMA PromotePromotes ==
    ASSUME NEW es, NEW gs, NEW us, NEW p \in Products, NEW lag \in Lags, NEW said,
           EntriesOK(es), Promote(es, gs, us, p, lag, said)
    PROVE  /\ Promoted(Pairs(es, us, p), es, gs, us, p, lag, entries', grants', units')
           /\ announced' = said \cup {m[1] : m \in Pairs(es, us, p)}
BY PairsPair DEF Promote, Promoted

(* Promote keeps the rows well formed.                                     *)
LEMMA PromoteTypes ==
    ASSUME NEW es, NEW gs, NEW us, NEW p \in Products, NEW lag \in Lags,
           NEW said \in SUBSET EntryIds,
           EntriesOK(es), GrantsOK(es, gs), UnitsOK(us),
           Promote(es, gs, us, p, lag, said)
    PROVE  /\ EntriesOK(entries') /\ GrantsOK(entries', grants') /\ UnitsOK(units')
           /\ announced' \in SUBSET EntryIds
<1> DEFINE M == Pairs(es, us, p)
<1>1. /\ Promoted(M, es, gs, us, p, lag, entries', grants', units')
      /\ announced' = said \cup {m[1] : m \in M}
    BY PromotePromotes
<1>2. \A m \in M : m[1] \in EntryIds
    BY DEF Pairs, Waiting, EntriesOK
<1> HIDE DEF M
<1>3. announced' \in SUBSET EntryIds
    BY <1>1, <1>2
<1>4. EntriesOK(entries') /\ GrantsOK(entries', grants') /\ UnitsOK(units')
    BY <1>1, PromotionTypes
<1> QED BY <1>3, <1>4

(* Each status an operation writes is one of the schema's. *)
LEMMA Statuses ==
    /\ {"WAITING", "GRANTED", "CHECKOUT_PENDING", "PURCHASED", "EXPIRED",
        "PAYMENT_FAILED", "SOLD_OUT", "CANCELLED"} \subseteq EntryStatus
    /\ {"ACTIVE", "CHECKOUT_PENDING", "PURCHASED", "EXPIRED", "FAILED",
        "CANCELLED"} \subseteq GrantStatus
BY DEF EntryStatus, GrantStatus

(* What PaymentSucceeds and PaymentFails write to the attempts. *)
LEMMA RecordAttemptTypes ==
    ASSUME TypeOK, NEW e \in DOMAIN grants, NEW k \in Keys, NEW r \in Results,
           RecordAttempt(e, k, r)
    PROVE  AttemptsOK(attempts') /\ nextTicket' = nextTicket
<1>1. e \in EntryIds
    BY DEF TypeOK, EntriesOK, GrantsOK
<1> QED BY <1>1 DEF TypeOK, AttemptsOK, RecordAttempt

(* The steps that settle a grant and promote keep the types. *)
LEMMA ReleaseTypes ==
    ASSUME TypeOK, NEW e \in DOMAIN grants, NEW lag \in Lags,
           NEW from, NEW to \in EntryStatus, NEW gfrom, NEW gto \in GrantStatus,
           Promote(MarkEntryStatus(entries, e, from, to),
                   UpdateGrantStatus(grants, e, gfrom, gto),
                   MarkUnitAvailable(units, grants[e].unit), e[1], lag, {e})
    PROVE  /\ EntriesOK(entries') /\ GrantsOK(entries', grants') /\ UnitsOK(units')
           /\ announced' \in SUBSET EntryIds
<1> DEFINE es == MarkEntryStatus(entries, e, from, to)
           gs == UpdateGrantStatus(grants, e, gfrom, gto)
           us == MarkUnitAvailable(units, grants[e].unit)
<1>1. /\ e \in DOMAIN entries /\ e \in EntryIds /\ e[1] \in Products
      /\ grants[e].unit \in Units
    BY DEF TypeOK, EntriesOK, GrantsOK, EntryIds
<1>2. EntriesOK(es) /\ DOMAIN es = DOMAIN entries
    BY <1>1, MarkEntryTypes DEF TypeOK
<1>3. GrantsOK(entries, gs)
    BY UpdateGrantTypes DEF TypeOK
<1>4. UnitsOK(us)
    BY <1>1, MarkUnitTypes DEF TypeOK
<1> HIDE DEF es, gs, us
<1>5. GrantsOK(es, gs)
    BY <1>2, <1>3 DEF GrantsOK
<1>6. Promote(es, gs, us, e[1], lag, {e})
    BY DEF es, gs, us
<1>7. {e} \in SUBSET EntryIds
    BY <1>1
<1> QED BY <1>1, <1>2, <1>4, <1>5, <1>6, <1>7, PromoteTypes

(* A tick of the clock keeps a grant well formed: the countdown stops at   *)
(* Floor and the age at MaxLag.                                            *)
LEMMA ElapseTypes ==
    ASSUME NEW g \in [unit : Units, status : GrantStatus, left : Floor .. TTL, age : Lags]
    PROVE  Elapse(g) \in [unit : Units, status : GrantStatus, left : Floor .. TTL, age : Lags]
<1> DEFINE left == IF g.left > Floor THEN g.left - 1 ELSE g.left
           age == IF g.age < MaxLag THEN g.age + 1 ELSE g.age
<1>1. left \in Floor .. TTL /\ age \in Lags
    BY ConstantsAssumption DEF Floor, Lags
<1>2. Elapse(g) = g \/ Elapse(g) = [g EXCEPT !.left = left, !.age = age]
    BY DEF Elapse
<1> HIDE DEF left, age
<1> QED BY <1>1, <1>2

(* A new entry goes to the end of its product's line. *)
Joined(u, p) ==
    [f \in DOMAIN entries \cup {<<p, nextTicket[p]>>} |->
        IF f = <<p, nextTicket[p]>> THEN [user |-> u, status |-> "WAITING"] ELSE entries[f]]

(* JoinQueue keeps the types; the ticket it issues is one of the schema's. *)
LEMMA JoinTypes ==
    ASSUME TypeOK, NEW u \in Users, NEW p \in Products, JoinQueue(u, p)
    PROVE  TypeOK'
<1> DEFINE t == nextTicket[p]
           es == Joined(u, p)
<1>1. PICK lag \in Lags : Promote(es, grants, units, p, lag, {})
    BY DEF JoinQueue, Joined
<1>2. /\ t \in 1 .. MaxTicket
      /\ nextTicket' = [nextTicket EXCEPT ![p] = t + 1]
      /\ attempts' = attempts
    BY ConstantsAssumption DEF JoinQueue, TypeOK
<1>3. nextTicket' \in [Products -> 1 .. MaxTicket + 1]
    BY <1>2, ConstantsAssumption DEF TypeOK
<1>4. EntriesOK(es) /\ DOMAIN entries \subseteq DOMAIN es
    <2>1. <<p, t>> \in EntryIds
        BY <1>2 DEF EntryIds
    <2> HIDE DEF t
    <2>2. [user |-> u, status |-> "WAITING"] \in [user : Users, status : EntryStatus]
        BY DEF EntryStatus
    <2> QED BY <2>1, <2>2 DEF EntriesOK, TypeOK, Joined, t
<1>5. GrantsOK(es, grants) /\ UnitsOK(units)
    BY <1>4 DEF GrantsOK, TypeOK
<1> HIDE DEF es
<1>6. /\ EntriesOK(entries') /\ GrantsOK(entries', grants') /\ UnitsOK(units')
      /\ announced' \in SUBSET EntryIds
    BY <1>1, <1>4, <1>5, PromoteTypes
<1> QED BY <1>2, <1>3, <1>6 DEF TypeOK, AttemptsOK

(* A successful payment keeps the types, the closing of the line included. *)
LEMMA PayTypes ==
    ASSUME TypeOK, NEW e \in DOMAIN grants, NEW k \in Keys, PaymentSucceeds(e, k)
    PROVE  TypeOK'
<1> DEFINE es == MarkEntryStatus(entries, e, "CHECKOUT_PENDING", "PURCHASED")
           Closed == IF AllSold(units', e[1]) THEN Waiting(es, e[1]) ELSE {}
<1>1. e \in DOMAIN entries /\ e \in EntryIds /\ grants[e].unit \in Units
    BY DEF TypeOK, EntriesOK, GrantsOK
<1>2. AttemptsOK(attempts') /\ nextTicket' = nextTicket
    BY RecordAttemptTypes DEF PaymentSucceeds, Results
<1>3. UnitsOK(units')
    BY <1>1, MarkUnitTypes DEF PaymentSucceeds, TypeOK
<1>4. GrantsOK(entries, grants')
    BY Statuses, UpdateGrantTypes DEF PaymentSucceeds, TypeOK
<1>5. EntriesOK(es) /\ DOMAIN es = DOMAIN entries
    BY <1>1, Statuses, MarkEntryTypes DEF TypeOK
<1>6. /\ entries' = [f \in DOMAIN es |->
                       IF f \in Closed THEN [es[f] EXCEPT !.status = "SOLD_OUT"] ELSE es[f]]
      /\ announced' = {e} \cup Closed
    BY DEF PaymentSucceeds, CloseQueueIfSoldOut
<1>7. Closed \subseteq EntryIds
    BY <1>5 DEF Waiting, EntriesOK
<1> HIDE DEF es, Closed
<1>8. EntriesOK(entries') /\ DOMAIN entries' = DOMAIN entries
    BY <1>5, <1>6 DEF EntriesOK, EntryStatus
<1>9. GrantsOK(entries', grants')
    BY <1>4, <1>8 DEF GrantsOK
<1> QED BY <1>1, <1>2, <1>3, <1>6, <1>7, <1>8, <1>9 DEF TypeOK

(* The tables the migration creates are well formed.                       *)
LEMMA InitTypes == Init => TypeOK
<1> SUFFICES ASSUME Init PROVE TypeOK
    OBVIOUS
<1>1. nextTicket \in [Products -> 1 .. MaxTicket + 1]
    BY ConstantsAssumption DEF Init
<1>2. UnitsOK(units)
    BY DEF Init, UnitsOK, UnitStatus
<1>3. EntriesOK(entries) /\ GrantsOK(entries, grants) /\ AttemptsOK(attempts)
    BY DEF Init, EntriesOK, GrantsOK, AttemptsOK
<1> QED BY <1>1, <1>2, <1>3 DEF TypeOK, Init

(* Every step keeps the types: one case for each action.                   *)
LEMMA NextTypes == TypeOK /\ [Next]_vars => TypeOK'
<1> SUFFICES ASSUME TypeOK, [Next]_vars PROVE TypeOK'
    OBVIOUS
<1>1. ASSUME NEW u \in Users, NEW p \in Products, JoinQueue(u, p) PROVE TypeOK'
    BY <1>1, JoinTypes
<1>2. ASSUME NEW e \in DOMAIN entries, LeaveWaiting(e) PROVE TypeOK'
    <2>1. EntriesOK(entries') /\ DOMAIN entries' = DOMAIN entries
        BY <1>2, Statuses, MarkEntryTypes DEF LeaveWaiting, TypeOK
    <2> QED BY <1>2, <2>1 DEF LeaveWaiting, TypeOK, GrantsOK
<1>3. ASSUME NEW e \in DOMAIN entries, LeaveGranted(e) PROVE TypeOK'
    <2>1. /\ EntriesOK(entries') /\ GrantsOK(entries', grants') /\ UnitsOK(units')
          /\ announced' \in SUBSET EntryIds
        BY <1>3, Statuses, ReleaseTypes DEF LeaveGranted
    <2> QED BY <1>3, <2>1 DEF LeaveGranted, TypeOK
<1>4. ASSUME NEW e \in DOMAIN grants, StartCheckout(e) PROVE TypeOK'
    <2>1. e \in DOMAIN entries /\ e \in EntryIds
        BY DEF TypeOK, EntriesOK, GrantsOK
    <2>2. EntriesOK(entries') /\ DOMAIN entries' = DOMAIN entries
        BY <1>4, <2>1, Statuses, MarkEntryTypes DEF StartCheckout, TypeOK
    <2>3. GrantsOK(entries, grants')
        BY <1>4, Statuses, UpdateGrantTypes DEF StartCheckout, TypeOK
    <2> QED BY <1>4, <2>1, <2>2, <2>3 DEF StartCheckout, TypeOK, GrantsOK
<1>5. ASSUME NEW e \in DOMAIN grants, NEW k \in Keys, PaymentSucceeds(e, k)
      PROVE  TypeOK'
    BY <1>5, PayTypes
<1>6. ASSUME NEW e \in DOMAIN grants, NEW k \in Keys, NEW r \in {"failure", "timeout"},
             PaymentFails(e, k, r)
      PROVE  TypeOK'
    <2>1. AttemptsOK(attempts') /\ nextTicket' = nextTicket
        BY <1>6, RecordAttemptTypes DEF PaymentFails, Results
    <2>2. /\ EntriesOK(entries') /\ GrantsOK(entries', grants') /\ UnitsOK(units')
          /\ announced' \in SUBSET EntryIds
        BY <1>6, Statuses, ReleaseTypes DEF PaymentFails
    <2> QED BY <2>1, <2>2 DEF TypeOK
<1>7. ASSUME NEW e \in DOMAIN grants, Expire(e) PROVE TypeOK'
    <2>1. 0 .. grants[e].age \subseteq Lags
        BY ConstantsAssumption DEF TypeOK, GrantsOK, Lags
    <2>2. PICK lag \in Lags :
             Promote(MarkEntryStatus(entries, e, "GRANTED", "EXPIRED"),
                     UpdateGrantStatus(grants, e, "ACTIVE", "EXPIRED"),
                     MarkUnitAvailable(units, grants[e].unit), e[1], lag, {e})
        BY <1>7, <2>1 DEF Expire
    <2>3. /\ EntriesOK(entries') /\ GrantsOK(entries', grants') /\ UnitsOK(units')
          /\ announced' \in SUBSET EntryIds
        BY <2>2, Statuses, ReleaseTypes
    <2> QED BY <1>7, <2>3 DEF Expire, TypeOK
<1>8. CASE Tick
    <2>1. ASSUME NEW e \in DOMAIN grants
          PROVE  grants'[e] \in [unit : Units, status : GrantStatus,
                                 left : Floor .. TTL, age : Lags]
        BY <1>8, ElapseTypes DEF Tick, TypeOK, GrantsOK
    <2>2. DOMAIN grants' = DOMAIN grants
        BY <1>8 DEF Tick
    <2> QED BY <1>8, <2>1, <2>2 DEF Tick, TypeOK, GrantsOK
<1>9. CASE UNCHANGED vars
    BY <1>9 DEF vars, TypeOK
<1> QED BY <1>1, <1>2, <1>3, <1>4, <1>5, <1>6, <1>7, <1>8, <1>9 DEF Next

(* Every row of the tables stays well formed, whatever requests arrive and *)
(* whenever the worker runs.                                               *)
THEOREM TypeCorrect == Spec => []TypeOK
BY InitTypes, NextTypes, PTL DEF Spec

-----------------------------------------------------------------------------
(***************************************************************************)
(* The inductive invariant.                                                *)
(***************************************************************************)
IInv ==
    /\ TypeOK
    /\ UnitsMatchGrants
    /\ GrantsFollowEntries
    /\ NoOvertaking
    /\ OneActiveEntry
    /\ NobodyWaitsForNothing
    /\ NoIdleUnit
    /\ TicketsFresh
    /\ PaidOnce

(* The part of it that the lemmas about rows are about. *)
LEMMA IInvConsistent ==
    ASSUME IInv
    PROVE  Consistent(entries, grants, units) /\ TypeOK /\ NoIdle(entries, units)
BY DEF IInv, TypeOK, Consistent, UnitsMatchGrants, GrantsFollowEntries, NoOvertaking,
       OneActiveEntry, NobodyWaitsForNothing, NoIdleUnit

(* Conversely, the parts make up the inductive invariant.                  *)
LEMMA ConsistentIInv ==
    ASSUME TypeOK', Consistent(entries', grants', units'), NoIdle(entries', units'),
           TicketsFresh', PaidOnce'
    PROVE  IInv'
BY DEF IInv, Consistent, UnitsMatchGrants, GrantsFollowEntries, NoOvertaking,
       OneActiveEntry, NobodyWaitsForNothing, NoIdleUnit

(* TicketsFresh depends on the counters and on which entries there are.    *)
LEMMA SameTickets ==
    ASSUME TicketsFresh, nextTicket' = nextTicket, DOMAIN entries' = DOMAIN entries
    PROVE  TicketsFresh'
BY DEF TicketsFresh

(* The attempts stay right when no settled grant changes and none appears. *)
LEMMA SamePayments ==
    ASSUME NEW gs, NEW gs2, NEW at, PaidOnly(gs, at), DOMAIN gs \subseteq DOMAIN gs2,
           \A e \in DOMAIN gs :
               \/ gs2[e].status = gs[e].status
               \/ /\ gs[e].status \notin {"PURCHASED", "FAILED"}
                  /\ gs2[e].status \notin {"PURCHASED", "FAILED"},
           \A e \in DOMAIN gs2 \ DOMAIN gs : gs2[e].status \notin {"PURCHASED", "FAILED"}
    PROVE  PaidOnly(gs2, at)
BY DEF PaidOnly

(* ... and when a grant is settled together with its first attempt.        *)
LEMMA NewPayment ==
    ASSUME NEW gs, NEW gs2, NEW at, NEW at2, PaidOnly(gs, at),
           NEW e \in DOMAIN gs, gs[e].status = "CHECKOUT_PENDING",
           NEW k, k \notin DOMAIN at, NEW r,
           at2 = [j \in DOMAIN at \cup {k} |->
                    IF j = k THEN [entry |-> e, result |-> r] ELSE at[j]],
           GrantMoved(gs, e, IF r = "success" THEN "PURCHASED" ELSE "FAILED", gs2)
    PROVE  PaidOnly(gs2, at2)
<1>1. \A j \in DOMAIN at : at[j].entry # e
    BY DEF PaidOnly
<1>2. \A j \in DOMAIN at : at2[j] = at[j]
    OBVIOUS
<1>3. at2[k].entry = e /\ at2[k].result = r /\ DOMAIN at2 = DOMAIN at \cup {k}
    OBVIOUS
<1>4. ASSUME NEW j \in DOMAIN at2
      PROVE  /\ at2[j].entry \in DOMAIN gs2
             /\ gs2[at2[j].entry].status =
                    IF at2[j].result = "success" THEN "PURCHASED" ELSE "FAILED"
    <2>1. CASE j = k
        BY <1>3, <2>1 DEF GrantMoved
    <2>2. CASE j # k
        <3>1. j \in DOMAIN at /\ at2[j] = at[j] /\ at[j].entry # e
            BY <1>1, <1>2, <1>3, <2>2
        <3> QED BY <3>1 DEF GrantMoved, PaidOnly
    <2> QED BY <2>1, <2>2
<1>5. \A i, j \in DOMAIN at2 : at2[i].entry = at2[j].entry => i = j
    BY <1>1, <1>2, <1>3 DEF PaidOnly
<1>6. ASSUME NEW f \in DOMAIN gs2, gs2[f].status \in {"PURCHASED", "FAILED"}
      PROVE  \E j \in DOMAIN at2 : at2[j].entry = f
    <2>1. CASE f = e
        BY <1>3, <2>1
    <2>2. CASE f # e
        <3>1. f \in DOMAIN gs /\ gs[f].status \in {"PURCHASED", "FAILED"}
            BY <1>6, <2>2 DEF GrantMoved
        <3> QED BY <1>2, <1>3, <3>1 DEF PaidOnly
    <2> QED BY <2>1, <2>2
<1> QED BY <1>4, <1>5, <1>6 DEF PaidOnly

-----------------------------------------------------------------------------
(* A transaction that ends with Promote on consistent tables keeps the     *)
(* invariants, provided it has freed no unit of another product.           *)
LEMMA PromoteKeeps ==
    ASSUME NEW es, NEW gs, NEW us, NEW p \in Products, NEW lag \in Lags, NEW said,
           Consistent(es, gs, us), Promote(es, gs, us, p, lag, said),
           \A q \in Products : q # p => Waiting(es, q) = {} \/ Available(us, q) = {}
    PROVE  /\ Consistent(entries', grants', units')
           /\ NoIdle(entries', units')
           /\ DOMAIN entries' = DOMAIN es
           /\ \A at : PaidOnly(gs, at) => PaidOnly(grants', at)
<1> DEFINE M == Pairs(es, us, p)
<1>1. Promoted(M, es, gs, us, p, lag, entries', grants', units')
    BY PromotePromotes DEF Consistent
<1> HIDE DEF M
<1>2. /\ Chosen(M, es, us, p) /\ EntryRows(M, es, entries')
      /\ GrantRows(M, gs, lag, grants')
    BY <1>1, PromotedRows
<1>3. /\ Consistent(entries', grants', units')
      /\ Waiting(entries', p) = {} \/ Available(units', p) = {}
      /\ OthersSpared(p, es, us, entries', units')
    BY <1>1, PromotionConsistent
<1>4. NoIdle(entries', units')
    <2> SUFFICES ASSUME NEW q \in Products
                 PROVE  Waiting(entries', q) = {} \/ Available(units', q) = {}
        BY DEF NoIdle
    <2> QED BY <1>3 DEF OthersSpared
<1>5. \A m \in M : m[1] \notin DOMAIN gs
    BY <1>2, WaitingHasNoGrant DEF Consistent, Chosen
<1>6. DOMAIN gs \subseteq DOMAIN grants' /\ \A e \in DOMAIN gs : grants'[e] = gs[e]
    BY <1>2, <1>5 DEF GrantRows
<1>7. ASSUME NEW e \in DOMAIN grants' \ DOMAIN gs
      PROVE  grants'[e].status \notin {"PURCHASED", "FAILED"}
    <2>1. PICK m \in M : m[1] = e
        BY <1>2 DEF GrantRows
    <2>2. grants'[e] = [unit |-> m[2], status |-> "ACTIVE", left |-> TTL - lag, age |-> 0]
        BY <1>2, <2>1 DEF GrantRows
    <2> QED BY <2>2
<1>8. ASSUME NEW at, PaidOnly(gs, at) PROVE PaidOnly(grants', at)
    BY <1>6, <1>7, <1>8, SamePayments
<1> QED BY <1>2, <1>3, <1>4, <1>8 DEF EntryRows

(* The tables after the insert of JoinQueue, before it promotes.           *)
LEMMA JoinedConsistent ==
    ASSUME IInv, NEW u \in Users, NEW p \in Products, JoinQueue(u, p)
    PROVE  /\ Consistent(Joined(u, p), grants, units)
           /\ \A q \in Products : q # p => Waiting(Joined(u, p), q) = Waiting(entries, q)
<1> DEFINE t == nextTicket[p]
           e == <<p, t>>
           es == Joined(u, p)
<1>2. /\ t \in 1 .. MaxTicket /\ e \notin DOMAIN entries
      /\ nextTicket' = [nextTicket EXCEPT ![p] = t + 1]
      /\ attempts' = attempts
      /\ ~AllSold(units, p)
      /\ \A f \in DOMAIN entries :
            f[1] = p /\ entries[f].user = u => entries[f].status \notin ActiveEntry
    BY ConstantsAssumption DEF JoinQueue, IInv, TypeOK
<1>3. /\ DOMAIN es = DOMAIN entries \cup {e}
      /\ es[e] = [user |-> u, status |-> "WAITING"]
      /\ \A f \in DOMAIN entries : es[f] = entries[f]
    BY <1>2 DEF Joined
<1>4. Consistent(entries, grants, units) /\ NoIdle(entries, units) /\ TypeOK
    BY IInvConsistent
<1>5. \A f \in DOMAIN entries : f[1] = p => f[2] < t
    BY <1>2, ConstantsAssumption DEF IInv, TicketsFresh, TypeOK, EntriesOK, EntryIds
<1> HIDE DEF es
<1>6. EntriesOK(es)
    <2>1. [user |-> u, status |-> "WAITING"] \in [user : Users, status : EntryStatus]
        BY DEF EntryStatus
    <2>2. e \in EntryIds
        BY <1>2 DEF EntryIds
    <2> HIDE DEF e
    <2> QED BY <1>3, <1>4, <2>1, <2>2 DEF EntriesOK, TypeOK
<1>7. GrantsOK(es, grants) /\ UnitsOK(units) /\ UnitsMatch(grants, units)
    BY <1>3, <1>4 DEF GrantsOK, TypeOK, Consistent
<1>8. e \notin DOMAIN grants
    BY <1>2, <1>4 DEF TypeOK, GrantsOK
<1>9. GrantsFollow(es, grants)
    <2> HIDE DEF e
    <2> QED BY <1>3, <1>4, <1>8 DEF GrantsFollow, Consistent
<1>10. InOrder(es, grants)
    <2> SUFFICES ASSUME NEW d \in DOMAIN es, NEW f \in DOMAIN grants, d[1] = f[1], d[2] < f[2]
                 PROVE  es[d].status # "WAITING"
        BY DEF InOrder
    <2>1. f \in DOMAIN entries /\ f[2] \in Nat
        BY <1>4, ConstantsAssumption DEF TypeOK, GrantsOK, EntriesOK, EntryIds
    <2>2. d # e
        BY <1>2, <1>5, <2>1, ConstantsAssumption
    <2>3. d \in DOMAIN entries
        BY <1>3, <2>2
    <2> QED BY <1>3, <1>4, <2>3 DEF Consistent, InOrder
<1>11. OneActive(es)
    <2> SUFFICES ASSUME NEW c \in DOMAIN es, NEW d \in DOMAIN es,
                        c[1] = d[1], es[c].user = es[d].user,
                        es[c].status \in ActiveEntry, es[d].status \in ActiveEntry
                 PROVE  c = d
        BY DEF OneActive
    <2>1. CASE c = e
        BY <1>2, <1>3, <2>1
    <2>2. CASE d = e
        BY <1>2, <1>3, <2>2
    <2>3. CASE c # e /\ d # e
        BY <1>3, <1>4, <2>3 DEF Consistent, OneActive
    <2> QED BY <2>1, <2>2, <2>3
<1>12. \A q \in Products : q # p => Waiting(es, q) = Waiting(entries, q)
    BY <1>3 DEF Waiting
<1>13. NoneLeft(es, units)
    BY <1>2, <1>4, <1>12 DEF NoneLeft, Consistent
<1>14. Consistent(es, grants, units)
    BY <1>6, <1>7, <1>9, <1>10, <1>11, <1>13 DEF Consistent
<1> QED BY <1>12, <1>14 DEF es

(* JoinQueue keeps the invariant.                                          *)
LEMMA JoinKeeps ==
    ASSUME IInv, TypeOK', NEW u \in Users, NEW p \in Products, JoinQueue(u, p)
    PROVE  IInv'
<1> DEFINE t == nextTicket[p]
           e == <<p, t>>
           es == Joined(u, p)
<1>1. PICK lag \in Lags : Promote(es, grants, units, p, lag, {})
    BY DEF JoinQueue, Joined
<1>2. /\ t \in 1 .. MaxTicket
      /\ nextTicket' = [nextTicket EXCEPT ![p] = t + 1]
      /\ attempts' = attempts
    BY ConstantsAssumption DEF JoinQueue, IInv, TypeOK
<1>3. DOMAIN es = DOMAIN entries \cup {e}
    BY DEF Joined
<1>4. NoIdle(entries, units) /\ TypeOK
    BY IInvConsistent
<1>5. \A q \in Products : q # p => Waiting(es, q) = Waiting(entries, q)
    BY JoinedConsistent
<1>6. Consistent(es, grants, units)
    BY JoinedConsistent
<1> HIDE DEF es
<1>7. \A q \in Products : q # p => Waiting(es, q) = {} \/ Available(units, q) = {}
    BY <1>4, <1>5 DEF NoIdle
<1>8. /\ Consistent(entries', grants', units') /\ NoIdle(entries', units')
      /\ DOMAIN entries' = DOMAIN es
      /\ \A at : PaidOnly(grants, at) => PaidOnly(grants', at)
    BY <1>1, <1>6, <1>7, PromoteKeeps
<1>9. PaidOnce'
    BY <1>2, <1>8 DEF IInv, PaidOnce
<1>10. TicketsFresh'
    <2> SUFFICES ASSUME NEW q \in Products, NEW n \in 1 .. MaxTicket
                 PROVE  <<q, n>> \in DOMAIN entries' <=> n < nextTicket'[q]
        BY DEF TicketsFresh
    <2>1. <<q, n>> \in DOMAIN entries <=> n < nextTicket[q]
        BY DEF IInv, TicketsFresh
    <2>2. nextTicket'[q] = IF q = p THEN t + 1 ELSE nextTicket[q]
        BY <1>2, <1>4 DEF TypeOK
    <2>3. n \in Nat /\ t \in Nat
        BY <1>2, ConstantsAssumption
    <2>4. <<q, n>> \in DOMAIN entries' <=> <<q, n>> \in DOMAIN entries \/ (q = p /\ n = t)
        BY <1>3, <1>8
    <2> QED BY <2>1, <2>2, <2>3, <2>4
<1> QED BY <1>8, <1>9, <1>10, ConsistentIInv

(* The three ways a right ends without a sale: the owner leaves, the       *)
(* payment fails, the worker finds it expired.  The tables before the unit *)
(* that comes back is promoted for.                                        *)
LEMMA ReleasedConsistent ==
    ASSUME IInv, NEW e \in DOMAIN grants,
           NEW from, NEW to \in EntryStatus, NEW gfrom \in LiveGrant,
           NEW gto \in {"EXPIRED", "FAILED", "CANCELLED"},
           entries[e].status = from, grants[e].status = gfrom, <<to, gto>> \in StatusPairs
    PROVE  LET es == MarkEntryStatus(entries, e, from, to)
               gs == UpdateGrantStatus(grants, e, gfrom, gto)
               us == MarkUnitAvailable(units, grants[e].unit)
           IN  /\ Consistent(es, gs, us)
               /\ OthersSpared(e[1], entries, units, es, us)
               /\ EntryMoved(entries, e, to, es)
               /\ UnitMoved(units, grants[e].unit, "AVAILABLE", None, us)
<1> DEFINE es == MarkEntryStatus(entries, e, from, to)
           gs == UpdateGrantStatus(grants, e, gfrom, gto)
           us == MarkUnitAvailable(units, grants[e].unit)
<1>1. Consistent(entries, grants, units) /\ TypeOK
    BY IInvConsistent
<1>2. /\ e \in DOMAIN entries /\ e[1] \in Products
      /\ grants[e].unit \in Units /\ units[grants[e].unit].status = "RESERVED"
    BY <1>1, HeldRight
<1>3. EntryMoved(entries, e, to, es) /\ EntriesOK(es)
    BY <1>1, <1>2, MarkEntryMoves, MarkEntryTypes DEF TypeOK
<1>4. gto \in GrantStatus
    BY Statuses
<1>5. GrantMoved(grants, e, gto, gs) /\ GrantsOK(entries, gs)
    BY <1>1, <1>4, UpdateGrantMoves, UpdateGrantTypes DEF TypeOK
<1>6. UnitMoved(units, grants[e].unit, "AVAILABLE", None, us) /\ UnitsOK(us)
    BY <1>1, <1>2, MarkUnitMoves, MarkUnitTypes DEF TypeOK
<1> HIDE DEF es, gs, us
<1>8. GrantsOK(es, gs)
    BY <1>3, <1>5 DEF GrantsOK, EntryMoved
<1>9. /\ Consistent(es, gs, us)
      /\ OthersSpared(e[1], entries, units, es, us)
    BY <1>1, <1>3, <1>5, <1>6, <1>8, ReturnedRight
<1> QED BY <1>3, <1>6, <1>9 DEF es, gs, us

(* ... and after it: the invariants are kept.                              *)
LEMMA ReleaseKeeps ==
    ASSUME IInv, NEW e \in DOMAIN grants, NEW lag \in Lags,
           NEW from, NEW to \in EntryStatus, NEW gfrom \in LiveGrant,
           NEW gto \in {"EXPIRED", "FAILED", "CANCELLED"},
           entries[e].status = from, grants[e].status = gfrom, <<to, gto>> \in StatusPairs,
           Promote(MarkEntryStatus(entries, e, from, to),
                   UpdateGrantStatus(grants, e, gfrom, gto),
                   MarkUnitAvailable(units, grants[e].unit), e[1], lag, {e})
    PROVE  /\ Consistent(entries', grants', units') /\ NoIdle(entries', units')
           /\ DOMAIN entries' = DOMAIN entries
           /\ \A at : PaidOnly(UpdateGrantStatus(grants, e, gfrom, gto), at) => PaidOnly(grants', at)
<1> DEFINE es == MarkEntryStatus(entries, e, from, to)
           gs == UpdateGrantStatus(grants, e, gfrom, gto)
           us == MarkUnitAvailable(units, grants[e].unit)
<1>1. NoIdle(entries, units) /\ e[1] \in Products
    BY IInvConsistent, HeldRight
<1>2. /\ Consistent(es, gs, us)
      /\ OthersSpared(e[1], entries, units, es, us)
      /\ EntryMoved(entries, e, to, es)
    BY ReleasedConsistent
<1>3. Promote(es, gs, us, e[1], lag, {e})
    OBVIOUS
<1> HIDE DEF es, gs, us
<1>4. \A q \in Products : q # e[1] => Waiting(es, q) = {} \/ Available(us, q) = {}
    BY <1>1, <1>2 DEF NoIdle, OthersSpared
<1>5. /\ Consistent(entries', grants', units') /\ NoIdle(entries', units')
      /\ DOMAIN entries' = DOMAIN es
      /\ \A at : PaidOnly(gs, at) => PaidOnly(grants', at)
    BY <1>1, <1>2, <1>3, <1>4, PromoteKeeps
<1>6. DOMAIN entries' = DOMAIN entries
    BY <1>2, <1>5 DEF EntryMoved
<1> QED BY <1>5, <1>6 DEF gs

(* The entry is not the one of a grant, and stops waiting. *)
LEMMA LeaveWaitingKeeps ==
    ASSUME IInv, TypeOK', NEW e \in DOMAIN entries, LeaveWaiting(e)
    PROVE  IInv'
<1>1. Consistent(entries, grants, units) /\ NoIdle(entries, units) /\ TypeOK
    BY IInvConsistent
<1>2. EntryMoved(entries, e, "CANCELLED", entries')
    BY <1>1, MarkEntryMoves DEF LeaveWaiting, TypeOK
<1>3. /\ entries[e].status = "WAITING"
      /\ grants' = grants /\ units' = units
      /\ nextTicket' = nextTicket /\ attempts' = attempts
    BY DEF LeaveWaiting
<1>4. e \notin DOMAIN grants
    BY <1>1, <1>3, WaitingHasNoGrant DEF Consistent
<1>5. GrantsFollow(entries', grants')
    BY <1>1, <1>2, <1>3, <1>4 DEF Consistent, GrantsFollow, EntryMoved
<1>6. \A f \in DOMAIN entries' :
         /\ entries'[f].status = "WAITING" => entries[f].status = "WAITING"
         /\ entries'[f].user = entries[f].user
         /\ entries'[f].status \in ActiveEntry => entries[f].status \in ActiveEntry
    BY <1>2, <1>3 DEF EntryMoved, ActiveEntry
<1>7. InOrder(entries', grants') /\ OneActive(entries')
    BY <1>1, <1>2, <1>3, <1>6 DEF Consistent, InOrder, OneActive, EntryMoved
<1>8. \A q \in Products : Waiting(entries', q) \subseteq Waiting(entries, q)
    BY <1>2, <1>6 DEF Waiting, EntryMoved
<1>9. NoneLeft(entries', units') /\ NoIdle(entries', units')
    BY <1>1, <1>3, <1>8 DEF NoneLeft, NoIdle, Consistent
<1>10. Consistent(entries', grants', units')
    BY <1>1, <1>3, <1>5, <1>7, <1>9 DEF Consistent, TypeOK
<1>11. TicketsFresh'
    BY <1>2, <1>3, SameTickets DEF IInv, EntryMoved
<1>12. PaidOnce'
    BY <1>3 DEF IInv, PaidOnce
<1> QED BY <1>9, <1>10, <1>11, <1>12, ConsistentIInv

(* StartCheckout keeps the invariant: the right moves on with its entry.   *)
LEMMA CheckoutKeeps ==
    ASSUME IInv, TypeOK', NEW e \in DOMAIN grants, StartCheckout(e)
    PROVE  IInv'
<1>1. Consistent(entries, grants, units) /\ NoIdle(entries, units) /\ TypeOK
    BY IInvConsistent
<1>2. /\ grants[e].status = "ACTIVE" /\ entries[e].status = "GRANTED"
      /\ units' = units /\ nextTicket' = nextTicket /\ attempts' = attempts
    BY DEF StartCheckout
<1>3. grants[e].status \in LiveGrant
    BY <1>2 DEF LiveGrant
<1>4. /\ e \in DOMAIN entries /\ grants[e].unit \in Units
      /\ units[grants[e].unit].status = "RESERVED" /\ units[grants[e].unit].grant = e
    BY <1>1, <1>3, HeldRight
<1>5. EntryMoved(entries, e, "CHECKOUT_PENDING", entries')
    BY <1>1, <1>4, MarkEntryMoves DEF StartCheckout, TypeOK
<1>6. GrantMoved(grants, e, "CHECKOUT_PENDING", grants')
    BY <1>1, UpdateGrantMoves DEF StartCheckout, TypeOK
<1>7. UnitMoved(units, grants[e].unit, "RESERVED", e, units')
    BY <1>2, <1>4 DEF UnitMoved
<1>8. /\ <<"CHECKOUT_PENDING", "CHECKOUT_PENDING">> \in StatusPairs
      /\ Fits("CHECKOUT_PENDING", e, "RESERVED", e)
    BY DEF StatusPairs, Fits, LiveGrant
<1>9. /\ UnitsMatch(grants', units') /\ GrantsFollow(entries', grants')
      /\ InOrder(entries', grants') /\ OneActive(entries')
      /\ \A q \in Products : Waiting(entries', q) \subseteq Waiting(entries, q)
    BY <1>1, <1>3, <1>5, <1>6, <1>7, <1>8, MovedRight
<1>10. NoneLeft(entries', units') /\ NoIdle(entries', units')
    BY <1>1, <1>2, <1>9 DEF NoneLeft, NoIdle, Consistent
<1>11. Consistent(entries', grants', units')
    BY <1>9, <1>10 DEF Consistent, TypeOK
<1>12. TicketsFresh'
    BY <1>2, <1>5, SameTickets DEF IInv, EntryMoved
<1>13. PaidOnly(grants', attempts)
    BY <1>2, <1>6, SamePayments DEF IInv, PaidOnce, GrantMoved
<1>14. PaidOnce'
    BY <1>2, <1>13 DEF PaidOnce
<1> QED BY <1>10, <1>11, <1>12, <1>14, ConsistentIInv

(* The sale: the unit is gone, and with the last one the line is closed.   *)
LEMMA PayKeeps ==
    ASSUME IInv, TypeOK', NEW e \in DOMAIN grants, NEW k \in Keys, PaymentSucceeds(e, k)
    PROVE  IInv'
<1> DEFINE es == MarkEntryStatus(entries, e, "CHECKOUT_PENDING", "PURCHASED")
           p == e[1]
           Closed == IF AllSold(units', p) THEN Waiting(es, p) ELSE {}
<1>1. Consistent(entries, grants, units) /\ NoIdle(entries, units) /\ TypeOK
    BY IInvConsistent
<1>2. /\ grants[e].status = "CHECKOUT_PENDING" /\ k \notin DOMAIN attempts
      /\ nextTicket' = nextTicket
      /\ attempts' = [j \in DOMAIN attempts \cup {k} |->
                        IF j = k THEN [entry |-> e, result |-> "success"] ELSE attempts[j]]
    BY DEF PaymentSucceeds, RecordAttempt
<1>3. grants[e].status \in LiveGrant
    BY <1>2 DEF LiveGrant
<1>4. /\ e \in DOMAIN entries /\ p \in Products /\ entries[e].status = "CHECKOUT_PENDING"
      /\ grants[e].unit \in Units /\ ProductOf[grants[e].unit] = p
      /\ units[grants[e].unit].status = "RESERVED" /\ units[grants[e].unit].grant = e
    BY <1>1, <1>2, <1>3, HeldRight
<1>5. EntryMoved(entries, e, "PURCHASED", es) /\ EntriesOK(es)
    BY <1>1, <1>4, Statuses, MarkEntryMoves, MarkEntryTypes DEF TypeOK
<1>6. GrantMoved(grants, e, "PURCHASED", grants')
    BY <1>1, <1>2, UpdateGrantMoves DEF PaymentSucceeds, TypeOK
<1>7. UnitMoved(units, grants[e].unit, "SOLD", e, units')
    BY <1>1, <1>4, MarkUnitMoves DEF PaymentSucceeds, TypeOK
<1>8. <<"PURCHASED", "PURCHASED">> \in StatusPairs /\ Fits("PURCHASED", e, "SOLD", e)
    BY DEF StatusPairs, Fits
<1>9. entries' = [f \in DOMAIN es |->
                    IF f \in Closed THEN [es[f] EXCEPT !.status = "SOLD_OUT"] ELSE es[f]]
    BY DEF PaymentSucceeds, CloseQueueIfSoldOut
<1> HIDE DEF es
<1>10. /\ UnitsMatch(grants', units') /\ GrantsFollow(es, grants')
       /\ InOrder(es, grants') /\ OneActive(es)
       /\ \A q \in Products : Waiting(es, q) \subseteq Waiting(entries, q)
    BY <1>1, <1>3, <1>5, <1>6, <1>7, <1>8, MovedRight
<1>11. \A f \in Closed : f \in DOMAIN es /\ es[f].status = "WAITING" /\ f \notin DOMAIN grants'
    BY <1>10, WaitingHasNoGrant DEF Waiting
<1>12. AllSold(units', p) => Closed = Waiting(es, p)
    OBVIOUS
<1> HIDE DEF Closed
<1>13. DOMAIN entries' = DOMAIN es
    BY <1>9
<1>14. ASSUME NEW f \in DOMAIN es
       PROVE  \/ f \notin Closed /\ entries'[f] = es[f]
              \/ /\ f \in Closed /\ entries'[f].user = es[f].user
                 /\ entries'[f].status = "SOLD_OUT"
    <2>1. es[f] \in [user : Users, status : EntryStatus]
        BY <1>5 DEF EntriesOK
    <2> QED BY <1>9, <2>1
<1>15. GrantsFollow(entries', grants')
    BY <1>10, <1>11, <1>13, <1>14 DEF GrantsFollow
<1>16. \A f \in DOMAIN es :
          /\ entries'[f].status = "WAITING" => es[f].status = "WAITING" /\ f \notin Closed
          /\ entries'[f].user = es[f].user
          /\ entries'[f].status \in ActiveEntry => es[f].status \in ActiveEntry
    BY <1>14 DEF ActiveEntry
<1>17. InOrder(entries', grants')
    BY <1>10, <1>13, <1>16 DEF InOrder
<1>18. OneActive(entries')
    BY <1>10, <1>13, <1>16 DEF OneActive
<1>19. \A q \in Products : /\ Waiting(entries', q) \subseteq Waiting(es, q)
                           /\ Waiting(entries', q) \cap Closed = {}
    BY <1>13, <1>16 DEF Waiting
<1>20. \A q \in Products : Waiting(entries', q) \subseteq Waiting(entries, q)
    BY <1>10, <1>19
<1>21. NoneLeft(entries', units')
    <2> SUFFICES ASSUME NEW q \in Products, AllSold(units', q) PROVE Waiting(entries', q) = {}
        BY DEF NoneLeft
    <2>1. CASE q = p
        BY <1>12, <1>19, <2>1
    <2>2. CASE q # p
        <3>1. AllSold(units, q)
            BY <1>4, <1>7, <2>2 DEF AllSold, UnitsOf, UnitMoved
        <3>2. Waiting(entries, q) = {}
            BY <1>1, <3>1 DEF Consistent, NoneLeft
        <3> QED BY <1>20, <3>2
    <2> QED BY <2>1, <2>2
<1>22. \A q \in Products : Available(units', q) \subseteq Available(units, q)
    BY <1>7 DEF Available, UnitsOf, UnitMoved
<1>23. NoIdle(entries', units')
    BY <1>1, <1>20, <1>22 DEF NoIdle
<1>24. Consistent(entries', grants', units')
    BY <1>10, <1>15, <1>17, <1>18, <1>21 DEF Consistent, TypeOK
<1>25. TicketsFresh'
    BY <1>2, <1>5, <1>13, SameTickets DEF IInv, EntryMoved
<1>26. PaidOnce'
    BY <1>2, <1>6, NewPayment DEF IInv, PaidOnce
<1> QED BY <1>23, <1>24, <1>25, <1>26, ConsistentIInv

(* Time changes no status. *)
LEMMA TickKeeps ==
    ASSUME IInv, TypeOK', Tick
    PROVE  IInv'
<1>1. Consistent(entries, grants, units) /\ NoIdle(entries, units) /\ TypeOK
    BY IInvConsistent
<1>2. /\ entries' = entries /\ units' = units
      /\ nextTicket' = nextTicket /\ attempts' = attempts
      /\ DOMAIN grants' = DOMAIN grants
    BY DEF Tick
<1>3. ASSUME NEW e \in DOMAIN grants
      PROVE  grants'[e].status = grants[e].status /\ grants'[e].unit = grants[e].unit
    <2>1. grants[e] \in [unit : Units, status : GrantStatus, left : Floor .. TTL, age : Lags]
        BY <1>1 DEF TypeOK, GrantsOK
    <2> QED BY <2>1 DEF Tick, Elapse
<1>4. UnitsMatch(grants', units')
    BY <1>1, <1>2, <1>3 DEF Consistent, UnitsMatch
<1>5. GrantsFollow(entries', grants') /\ InOrder(entries', grants')
    BY <1>1, <1>2, <1>3 DEF Consistent, GrantsFollow, InOrder
<1>6. Consistent(entries', grants', units')
    BY <1>1, <1>2, <1>4, <1>5 DEF Consistent, TypeOK
<1>7. PaidOnly(grants', attempts)
    BY <1>2, <1>3, SamePayments DEF IInv, PaidOnce
<1>8. TicketsFresh' /\ PaidOnce'
    BY <1>2, <1>7, SameTickets DEF IInv, PaidOnce
<1> QED BY <1>1, <1>2, <1>6, <1>8, ConsistentIInv

-----------------------------------------------------------------------------
(* The invariant holds of the tables the migration creates.                *)
LEMMA InitIInv == Init => IInv
<1> SUFFICES ASSUME Init PROVE IInv
    OBVIOUS
<1>1. /\ DOMAIN entries = {} /\ DOMAIN grants = {} /\ DOMAIN attempts = {}
      /\ nextTicket = [p \in Products |-> 1]
      /\ \A u \in Units : units[u] = [status |-> "AVAILABLE", grant |-> None]
    BY DEF Init
<1>2. TypeOK
    BY InitTypes
<1>3. UnitsMatchGrants
    BY <1>1 DEF UnitsMatchGrants, UnitsMatch
<1>4. GrantsFollowEntries /\ NoOvertaking /\ OneActiveEntry /\ PaidOnce
    BY <1>1 DEF GrantsFollowEntries, GrantsFollow, NoOvertaking, InOrder,
                OneActiveEntry, OneActive, PaidOnce, PaidOnly
<1>5. NobodyWaitsForNothing /\ NoIdleUnit
    BY <1>1 DEF NobodyWaitsForNothing, NoneLeft, NoIdleUnit, NoIdle, Waiting
<1>6. TicketsFresh
    BY <1>1, ConstantsAssumption DEF TicketsFresh
<1> QED BY <1>2, <1>3, <1>4, <1>5, <1>6 DEF IInv

(* Every step keeps the invariant: one case for each action.               *)
LEMMA NextIInv == IInv /\ [Next]_vars => IInv'
<1> SUFFICES ASSUME IInv, [Next]_vars PROVE IInv'
    OBVIOUS
<1>1. TypeOK /\ TypeOK' /\ Consistent(entries, grants, units)
    BY IInvConsistent, NextTypes
<1>2. ASSUME NEW u \in Users, NEW p \in Products, JoinQueue(u, p) PROVE IInv'
    BY <1>1, <1>2, JoinKeeps
<1>3. ASSUME NEW e \in DOMAIN entries, LeaveWaiting(e) PROVE IInv'
    BY <1>1, <1>3, LeaveWaitingKeeps
<1>4. ASSUME NEW e \in DOMAIN entries, LeaveGranted(e) PROVE IInv'
    <2>1. /\ e \in DOMAIN grants /\ grants[e].status = "ACTIVE"
          /\ entries[e].status = "GRANTED"
          /\ nextTicket' = nextTicket /\ attempts' = attempts
        BY <1>4 DEF LeaveGranted
    <2>2. PICK lag \in Lags :
             Promote(MarkEntryStatus(entries, e, "GRANTED", "CANCELLED"),
                     UpdateGrantStatus(grants, e, "ACTIVE", "CANCELLED"),
                     MarkUnitAvailable(units, grants[e].unit), e[1], lag, {e})
        BY <1>4 DEF LeaveGranted
    <2>3. /\ "CANCELLED" \in EntryStatus /\ "ACTIVE" \in LiveGrant
          /\ <<"CANCELLED", "CANCELLED">> \in StatusPairs
        BY DEF EntryStatus, LiveGrant, StatusPairs
    <2>4. /\ Consistent(entries', grants', units') /\ NoIdle(entries', units')
          /\ DOMAIN entries' = DOMAIN entries
          /\ \A at : PaidOnly(UpdateGrantStatus(grants, e, "ACTIVE", "CANCELLED"), at)
                        => PaidOnly(grants', at)
        BY <2>1, <2>2, <2>3, ReleaseKeeps
    <2>5. GrantMoved(grants, e, "CANCELLED", UpdateGrantStatus(grants, e, "ACTIVE", "CANCELLED"))
        BY <1>1, <2>1, UpdateGrantMoves DEF TypeOK
    <2>6. PaidOnly(UpdateGrantStatus(grants, e, "ACTIVE", "CANCELLED"), attempts)
        BY <2>1, <2>5, SamePayments DEF IInv, PaidOnce, GrantMoved
    <2>7. TicketsFresh' /\ PaidOnce'
        BY <2>1, <2>4, <2>6, SameTickets DEF IInv, PaidOnce
    <2> QED BY <1>1, <2>4, <2>7, ConsistentIInv
<1>5. ASSUME NEW e \in DOMAIN grants, StartCheckout(e) PROVE IInv'
    BY <1>1, <1>5, CheckoutKeeps
<1>6. ASSUME NEW e \in DOMAIN grants, NEW k \in Keys, PaymentSucceeds(e, k) PROVE IInv'
    BY <1>1, <1>6, PayKeeps
<1>7. ASSUME NEW e \in DOMAIN grants, NEW k \in Keys, NEW r \in {"failure", "timeout"},
             PaymentFails(e, k, r)
      PROVE  IInv'
    <2>1. /\ grants[e].status = "CHECKOUT_PENDING" /\ k \notin DOMAIN attempts
          /\ nextTicket' = nextTicket
          /\ attempts' = [j \in DOMAIN attempts \cup {k} |->
                            IF j = k THEN [entry |-> e, result |-> r] ELSE attempts[j]]
        BY <1>7 DEF PaymentFails, RecordAttempt
    <2>2. PICK lag \in Lags :
             Promote(MarkEntryStatus(entries, e, "CHECKOUT_PENDING", "PAYMENT_FAILED"),
                     UpdateGrantStatus(grants, e, "CHECKOUT_PENDING", "FAILED"),
                     MarkUnitAvailable(units, grants[e].unit), e[1], lag, {e})
        BY <1>7 DEF PaymentFails
    <2>3. /\ "PAYMENT_FAILED" \in EntryStatus /\ "CHECKOUT_PENDING" \in LiveGrant
          /\ <<"PAYMENT_FAILED", "FAILED">> \in StatusPairs
        BY DEF EntryStatus, LiveGrant, StatusPairs
    <2>4. entries[e].status = "CHECKOUT_PENDING"
        BY <1>1, <2>1, <2>3, HeldRight
    <2>5. /\ Consistent(entries', grants', units') /\ NoIdle(entries', units')
          /\ DOMAIN entries' = DOMAIN entries
          /\ \A at : PaidOnly(UpdateGrantStatus(grants, e, "CHECKOUT_PENDING", "FAILED"), at)
                        => PaidOnly(grants', at)
        BY <2>1, <2>2, <2>3, <2>4, ReleaseKeeps
    <2>6. GrantMoved(grants, e, "FAILED",
                     UpdateGrantStatus(grants, e, "CHECKOUT_PENDING", "FAILED"))
        BY <1>1, <2>1, UpdateGrantMoves DEF TypeOK
    <2>7. (IF r = "success" THEN "PURCHASED" ELSE "FAILED") = "FAILED"
        OBVIOUS
    <2>8. PaidOnly(UpdateGrantStatus(grants, e, "CHECKOUT_PENDING", "FAILED"), attempts')
        BY <2>1, <2>6, <2>7, NewPayment DEF IInv, PaidOnce
    <2>9. TicketsFresh' /\ PaidOnce'
        BY <2>1, <2>5, <2>8, SameTickets DEF IInv, PaidOnce
    <2> QED BY <1>1, <2>5, <2>9, ConsistentIInv
<1>8. ASSUME NEW e \in DOMAIN grants, Expire(e) PROVE IInv'
    <2>1. /\ grants[e].status = "ACTIVE"
          /\ nextTicket' = nextTicket /\ attempts' = attempts
        BY <1>8 DEF Expire
    <2>2. 0 .. grants[e].age \subseteq Lags
        BY <1>1, ConstantsAssumption DEF TypeOK, GrantsOK, Lags
    <2>3. PICK lag \in Lags :
             Promote(MarkEntryStatus(entries, e, "GRANTED", "EXPIRED"),
                     UpdateGrantStatus(grants, e, "ACTIVE", "EXPIRED"),
                     MarkUnitAvailable(units, grants[e].unit), e[1], lag, {e})
        BY <1>8, <2>2 DEF Expire
    <2>4. /\ "EXPIRED" \in EntryStatus /\ "ACTIVE" \in LiveGrant
          /\ <<"EXPIRED", "EXPIRED">> \in StatusPairs
        BY DEF EntryStatus, LiveGrant, StatusPairs
    <2>5. entries[e].status = "GRANTED"
        BY <1>1, <2>1, <2>4, HeldRight
    <2>6. /\ Consistent(entries', grants', units') /\ NoIdle(entries', units')
          /\ DOMAIN entries' = DOMAIN entries
          /\ \A at : PaidOnly(UpdateGrantStatus(grants, e, "ACTIVE", "EXPIRED"), at)
                        => PaidOnly(grants', at)
        BY <2>1, <2>3, <2>4, <2>5, ReleaseKeeps
    <2>7. GrantMoved(grants, e, "EXPIRED", UpdateGrantStatus(grants, e, "ACTIVE", "EXPIRED"))
        BY <1>1, <2>1, UpdateGrantMoves DEF TypeOK
    <2>8. PaidOnly(UpdateGrantStatus(grants, e, "ACTIVE", "EXPIRED"), attempts)
        BY <2>1, <2>7, SamePayments DEF IInv, PaidOnce, GrantMoved
    <2>9. TicketsFresh' /\ PaidOnce'
        BY <2>1, <2>6, <2>8, SameTickets DEF IInv, PaidOnce
    <2> QED BY <1>1, <2>6, <2>9, ConsistentIInv
<1>9. CASE Tick
    BY <1>1, <1>9, TickKeeps
<1>10. CASE UNCHANGED vars
    <2>1. /\ nextTicket' = nextTicket /\ entries' = entries /\ grants' = grants
          /\ units' = units /\ attempts' = attempts
        BY <1>10 DEF vars
    <2>2. Consistent(entries', grants', units') /\ NoIdle(entries', units')
        BY <2>1, IInvConsistent
    <2>3. TicketsFresh' /\ PaidOnce'
        BY <2>1, SameTickets DEF IInv, PaidOnce
    <2> QED BY <1>1, <2>2, <2>3, ConsistentIInv
<1> QED BY <1>2, <1>3, <1>4, <1>5, <1>6, <1>7, <1>8, <1>9, <1>10 DEF Next

(* The strengthening that carries the theorems below. *)
THEOREM Inductive == Spec => []IInv
BY InitIInv, NextIInv, PTL DEF Spec

(* No unit is sold or promised twice and none is lost. *)
THEOREM UnitsAlwaysMatch == Spec => []UnitsMatchGrants
<1>1. IInv => UnitsMatchGrants
    BY DEF IInv
<1> QED BY <1>1, Inductive, PTL

(* The entry and the grant of a user never disagree. *)
THEOREM GrantsAlwaysFollow == Spec => []GrantsFollowEntries
<1>1. IInv => GrantsFollowEntries
    BY DEF IInv
<1> QED BY <1>1, Inductive, PTL

(* Strict FIFO: while an entry waits, nobody behind it has been granted    *)
(* anything, whatever leaves, expires, fails and is promoted in between.   *)
THEOREM Fifo == Spec => []NoOvertaking
<1>1. IInv => NoOvertaking
    BY DEF IInv
<1> QED BY <1>1, Inductive, PTL

(* Nobody waits for a product while a unit of it is free. *)
THEOREM UnitsNeverIdle == Spec => []NoIdleUnit
<1>1. IInv => NoIdleUnit
    BY DEF IInv
<1> QED BY <1>1, Inductive, PTL

(* A user has at most one active entry per product. *)
THEOREM EntriesUnique == Spec => []OneActiveEntry
<1>1. IInv => OneActiveEntry
    BY DEF IInv
<1> QED BY <1>1, Inductive, PTL

(* A grant is settled by one payment result and by the one recorded. *)
THEOREM PaymentsSettleOnce == Spec => []PaidOnce
<1>1. IInv => PaidOnce
    BY DEF IInv
<1> QED BY <1>1, Inductive, PTL

(* Nobody is left in the line of a product that is sold out. *)
THEOREM LineEndsWithStock == Spec => []NobodyWaitsForNothing
<1>1. IInv => NobodyWaitsForNothing
    BY DEF IInv
<1> QED BY <1>1, Inductive, PTL

(* The next ticket of a product is never in use. *)
THEOREM TicketsStayFresh == Spec => []TicketsFresh
<1>1. IInv => TicketsFresh
    BY DEF IInv
<1> QED BY <1>1, Inductive, PTL

-----------------------------------------------------------------------------
(***************************************************************************)
(* The steps.  The row updates are conditional, and silent when the        *)
(* condition fails.  That they stay inside the tables of state.go          *)
(* therefore depends on what the other rows say: that a grant is ACTIVE    *)
(* only with its entry GRANTED, that its unit is RESERVED and of its       *)
(* entry's product.  IInv says that.                                       *)
(***************************************************************************)

(* An entry stays as it is, or moves inside its table, is one of p, and is *)
(* announced unless its owner left the line.                               *)
EntriesMove(p) ==
    \A f \in DOMAIN entries :
        /\ f \in DOMAIN entries'
        /\ entries'[f].user = entries[f].user
        /\ \/ entries'[f] = entries[f]
           \/ /\ f[1] = p
              /\ <<entries[f].status, entries'[f].status>> \in QueueEntryTransitions
              /\ \/ f \in announced'
                 \/ entries[f].status = "WAITING" /\ entries'[f].status = "CANCELLED"

(* A grant keeps its unit, and its status moves inside the table.          *)
GrantsMove ==
    \A f \in DOMAIN grants :
        /\ f \in DOMAIN grants'
        /\ grants'[f].unit = grants[f].unit
        /\ \/ grants'[f].status = grants[f].status
           \/ <<grants[f].status, grants'[f].status>> \in GrantTransitions

(* A unit stays as it is, or is one of p and moves inside its table.  One  *)
(* that is given back and granted again at once changes hands only.        *)
UnitsMove(p) ==
    \A u \in Units :
        \/ units'[u] = units[u]
        \/ /\ ProductOf[u] = p
           /\ \/ units'[u].status = units[u].status
              \/ <<units[u].status, units'[u].status>> \in UnitTransitions

(* The tickets of other products and the recorded attempts stay.           *)
RestStays(p) ==
    /\ \A q \in Products : q # p => nextTicket'[q] = nextTicket[q]
    /\ \A k \in DOMAIN attempts : k \in DOMAIN attempts' /\ attempts'[k] = attempts[k]

(* What holds of every step; p is the product whose row is locked.         *)
StepOf(p) ==
    EntriesMove(p) /\ GrantsMove /\ UnitsMove(p) /\ RestStays(p) /\ InTime

(* Promote itself grants waiting entries of p free units of p.             *)
LEMMA PromoteRows ==
    ASSUME NEW es, NEW gs, NEW us, NEW p \in Products, NEW lag \in Lags, NEW said,
           EntriesOK(es), UnitsOK(us), GrantsFollow(es, gs),
           Promote(es, gs, us, p, lag, said)
    PROVE  /\ \A f \in DOMAIN es :
                /\ f \in DOMAIN entries' /\ entries'[f].user = es[f].user
                /\ \/ entries'[f] = es[f]
                   \/ /\ f[1] = p /\ f \in announced'
                      /\ es[f].status = "WAITING" /\ entries'[f].status = "GRANTED"
           /\ \A f \in DOMAIN gs : f \in DOMAIN grants' /\ grants'[f] = gs[f]
           /\ \A u \in Units :
                \/ units'[u] = us[u]
                \/ /\ ProductOf[u] = p
                   /\ us[u].status = "AVAILABLE" /\ units'[u].status = "RESERVED"
           /\ said \subseteq announced'
<1> DEFINE M == Pairs(es, us, p)
<1>1. /\ Promoted(M, es, gs, us, p, lag, entries', grants', units')
      /\ announced' = said \cup {m[1] : m \in M}
    BY PromotePromotes
<1> HIDE DEF M
<1>2. /\ Chosen(M, es, us, p) /\ EntryRows(M, es, entries')
      /\ GrantRows(M, gs, lag, grants') /\ UnitRows(M, us, units')
    BY <1>1, PromotedRows
<1>3. ASSUME NEW f \in DOMAIN es
      PROVE  /\ f \in DOMAIN entries' /\ entries'[f].user = es[f].user
             /\ \/ entries'[f] = es[f]
                \/ /\ f[1] = p /\ f \in announced'
                   /\ es[f].status = "WAITING" /\ entries'[f].status = "GRANTED"
    <2>1. es[f] \in [user : Users, status : EntryStatus] /\ f \in DOMAIN entries'
        BY <1>2 DEF EntriesOK, EntryRows
    <2>2. CASE \E m \in M : m[1] = f
        <3>1. f[1] = p /\ es[f].status = "WAITING" /\ f \in announced'
            BY <1>1, <1>2, <2>2 DEF Chosen
        <3>2. entries'[f] = [es[f] EXCEPT !.status = "GRANTED"]
            BY <1>2, <2>2 DEF EntryRows
        <3> QED BY <2>1, <3>1, <3>2
    <2>3. CASE ~\E m \in M : m[1] = f
        BY <1>2, <2>1, <2>3 DEF EntryRows
    <2> QED BY <2>2, <2>3
<1>4. \A m \in M : m[1] \notin DOMAIN gs
    BY <1>2, WaitingHasNoGrant DEF Chosen
<1>5. \A f \in DOMAIN gs : f \in DOMAIN grants' /\ grants'[f] = gs[f]
    BY <1>2, <1>4 DEF GrantRows
<1>6. ASSUME NEW u \in Units
      PROVE  \/ units'[u] = us[u]
             \/ /\ ProductOf[u] = p
                /\ us[u].status = "AVAILABLE" /\ units'[u].status = "RESERVED"
    <2>1. CASE \E m \in M : m[2] = u
        <3>1. PICK m \in M : m[2] = u
            BY <2>1
        <3>2. ProductOf[u] = p /\ us[u].status = "AVAILABLE"
            BY <1>2, <3>1 DEF Chosen
        <3>3. units'[u] = [status |-> "RESERVED", grant |-> m[1]]
            BY <1>2, <3>1 DEF UnitRows
        <3> QED BY <3>2, <3>3
    <2>2. CASE ~\E m \in M : m[2] = u
        BY <1>2, <2>2 DEF UnitRows
    <2> QED BY <2>1, <2>2
<1> QED BY <1>1, <1>3, <1>5, <1>6

(* A right ends without a sale, as in ReleaseKeeps: the three rows move    *)
(* together, and promotion leaves the entry and the grant alone.           *)
LEMMA ReleaseMoves ==
    ASSUME IInv, NEW e \in DOMAIN grants, NEW lag \in Lags,
           NEW from, NEW to \in EntryStatus, NEW gfrom \in LiveGrant,
           NEW gto \in {"EXPIRED", "FAILED", "CANCELLED"},
           entries[e].status = from, grants[e].status = gfrom, <<to, gto>> \in StatusPairs,
           <<from, to>> \in QueueEntryTransitions, <<gfrom, gto>> \in GrantTransitions,
           Promote(MarkEntryStatus(entries, e, from, to),
                   UpdateGrantStatus(grants, e, gfrom, gto),
                   MarkUnitAvailable(units, grants[e].unit), e[1], lag, {e})
    PROVE  /\ EntriesMove(e[1]) /\ GrantsMove /\ UnitsMove(e[1])
           /\ grants'[e].status = gto
           /\ \A f \in DOMAIN grants : f # e => grants'[f] = grants[f]
<1> DEFINE es == MarkEntryStatus(entries, e, from, to)
           gs == UpdateGrantStatus(grants, e, gfrom, gto)
           us == MarkUnitAvailable(units, grants[e].unit)
           u == grants[e].unit
<1>1. Consistent(entries, grants, units) /\ TypeOK
    BY IInvConsistent
<1>2. /\ e \in DOMAIN entries /\ e[1] \in Products
      /\ u \in Units /\ ProductOf[u] = e[1] /\ units[u].status = "RESERVED"
    BY <1>1, HeldRight
<1>3. EntryMoved(entries, e, to, es) /\ EntriesOK(es)
    BY <1>1, <1>2, MarkEntryMoves, MarkEntryTypes DEF TypeOK
<1>4. GrantMoved(grants, e, gto, gs)
    BY <1>1, UpdateGrantMoves DEF TypeOK
<1>5. UnitMoved(units, u, "AVAILABLE", None, us) /\ UnitsOK(us)
    BY <1>1, <1>2, MarkUnitMoves, MarkUnitTypes DEF TypeOK
<1>6. Promote(es, gs, us, e[1], lag, {e})
    OBVIOUS
<1> HIDE DEF es, gs, us
<1>7. to # "WAITING" /\ e \in DOMAIN gs
    BY <1>4 DEF StatusPairs, GrantMoved
<1>8. GrantsFollow(es, gs)
    BY <1>1, <1>3, <1>4 DEF Consistent, GrantsFollow, EntryMoved, GrantMoved
<1>9. /\ \A f \in DOMAIN es :
            /\ f \in DOMAIN entries' /\ entries'[f].user = es[f].user
            /\ \/ entries'[f] = es[f]
               \/ /\ f[1] = e[1] /\ f \in announced'
                  /\ es[f].status = "WAITING" /\ entries'[f].status = "GRANTED"
      /\ \A f \in DOMAIN gs : f \in DOMAIN grants' /\ grants'[f] = gs[f]
      /\ \A v \in Units :
            \/ units'[v] = us[v]
            \/ /\ ProductOf[v] = e[1]
               /\ us[v].status = "AVAILABLE" /\ units'[v].status = "RESERVED"
      /\ e \in announced'
    BY <1>2, <1>3, <1>5, <1>6, <1>8, PromoteRows
<1>10. EntriesMove(e[1])
    <2> SUFFICES ASSUME NEW f \in DOMAIN entries
                 PROVE  /\ f \in DOMAIN entries'
                        /\ entries'[f].user = entries[f].user
                        /\ \/ entries'[f] = entries[f]
                           \/ /\ f[1] = e[1] /\ f \in announced'
                              /\ <<entries[f].status, entries'[f].status>>
                                    \in QueueEntryTransitions
        BY DEF EntriesMove
    <2>1. CASE f = e
        BY <1>3, <1>7, <1>9, <2>1 DEF EntryMoved
    <2>2. CASE f # e
        <3>1. f \in DOMAIN es /\ es[f] = entries[f]
            BY <1>3, <2>2 DEF EntryMoved
        <3>2. <<"WAITING", "GRANTED">> \in QueueEntryTransitions
            BY DEF QueueEntryTransitions
        <3> QED BY <1>9, <3>1, <3>2
    <2> QED BY <2>1, <2>2
<1>11. /\ GrantsMove /\ grants'[e].status = gto
       /\ \A f \in DOMAIN grants : f # e => grants'[f] = grants[f]
    BY <1>4, <1>9 DEF GrantsMove, GrantMoved
<1>12. UnitsMove(e[1])
    <2> SUFFICES ASSUME NEW v \in Units
                 PROVE  \/ units'[v] = units[v]
                        \/ /\ ProductOf[v] = e[1]
                           /\ \/ units'[v].status = units[v].status
                              \/ <<units[v].status, units'[v].status>> \in UnitTransitions
        BY DEF UnitsMove
    <2>1. /\ <<"AVAILABLE", "RESERVED">> \in UnitTransitions
          /\ <<"RESERVED", "AVAILABLE">> \in UnitTransitions
        BY DEF UnitTransitions
    <2>2. CASE v = u
        BY <1>2, <1>5, <1>9, <2>1, <2>2 DEF UnitMoved
    <2>3. CASE v # u
        BY <1>5, <1>9, <2>1, <2>3 DEF UnitMoved
    <2> QED BY <2>2, <2>3
<1> QED BY <1>10, <1>11, <1>12

(* A right that only its end could take out of its time ends in time.      *)
LEMMA EndsInTime ==
    ASSUME NEW e \in DOMAIN grants, NEW gto, gto # "CHECKOUT_PENDING",
           gto = "EXPIRED" => grants[e].left < 0,
           grants'[e].status = gto,
           \A f \in DOMAIN grants : f # e => grants'[f].status = grants[f].status
    PROVE  InTime
BY DEF InTime

-----------------------------------------------------------------------------
(* A new entry, and whoever is promoted with it or before it.              *)
LEMMA JoinStep ==
    ASSUME IInv, NEW u \in Users, NEW p \in Products, JoinQueue(u, p)
    PROVE  StepOf(p)
<1> DEFINE e == <<p, nextTicket[p]>>
           es == Joined(u, p)
<1>1. PICK lag \in Lags : Promote(es, grants, units, p, lag, {})
    BY DEF JoinQueue, Joined
<1>2. Consistent(entries, grants, units) /\ TypeOK
    BY IInvConsistent
<1>3. /\ e \notin DOMAIN entries /\ nextTicket[p] \in 1 .. MaxTicket
      /\ attempts' = attempts /\ nextTicket' = [nextTicket EXCEPT ![p] = @ + 1]
    BY <1>2, ConstantsAssumption DEF JoinQueue, TypeOK
<1>4. /\ DOMAIN es = DOMAIN entries \cup {e}
      /\ es[e] = [user |-> u, status |-> "WAITING"]
      /\ \A f \in DOMAIN entries : es[f] = entries[f]
    BY <1>3 DEF Joined
<1>5. e \in EntryIds
    BY <1>3 DEF EntryIds
<1> HIDE DEF es, e
<1>6. [user |-> u, status |-> "WAITING"] \in [user : Users, status : EntryStatus]
    BY DEF EntryStatus
<1>7. EntriesOK(es)
    BY <1>2, <1>4, <1>5, <1>6 DEF EntriesOK, TypeOK
<1>8. e \notin DOMAIN grants
    BY <1>2, <1>3 DEF TypeOK, GrantsOK
<1>9. GrantsFollow(es, grants)
    BY <1>2, <1>4, <1>8 DEF GrantsFollow, Consistent
<1>10. /\ \A f \in DOMAIN es :
             /\ f \in DOMAIN entries' /\ entries'[f].user = es[f].user
             /\ \/ entries'[f] = es[f]
                \/ /\ f[1] = p /\ f \in announced'
                   /\ es[f].status = "WAITING" /\ entries'[f].status = "GRANTED"
       /\ \A f \in DOMAIN grants : f \in DOMAIN grants' /\ grants'[f] = grants[f]
       /\ \A v \in Units :
             \/ units'[v] = units[v]
             \/ /\ ProductOf[v] = p
                /\ units[v].status = "AVAILABLE" /\ units'[v].status = "RESERVED"
    BY <1>1, <1>2, <1>7, <1>9, PromoteRows DEF TypeOK
<1>11. <<"WAITING", "GRANTED">> \in QueueEntryTransitions
    BY DEF QueueEntryTransitions
<1>12. EntriesMove(p)
    BY <1>4, <1>10, <1>11 DEF EntriesMove
<1>13. <<"AVAILABLE", "RESERVED">> \in UnitTransitions
    BY DEF UnitTransitions
<1>14. GrantsMove /\ UnitsMove(p) /\ InTime
    BY <1>10, <1>13 DEF GrantsMove, UnitsMove, InTime
<1>15. RestStays(p)
    BY <1>2, <1>3 DEF RestStays, TypeOK
<1> QED BY <1>12, <1>14, <1>15 DEF StepOf

(* A waiting user leaves, unannounced.                                     *)
LEMMA LeaveWaitingStep ==
    ASSUME IInv, NEW e \in DOMAIN entries, LeaveWaiting(e)
    PROVE  StepOf(e[1])
<1>1. EntryMoved(entries, e, "CANCELLED", entries')
    BY MarkEntryMoves DEF LeaveWaiting, IInv, TypeOK
<1>2. /\ entries[e].status = "WAITING" /\ grants' = grants /\ units' = units
      /\ nextTicket' = nextTicket /\ attempts' = attempts
    BY DEF LeaveWaiting
<1>3. <<"WAITING", "CANCELLED">> \in QueueEntryTransitions
    BY DEF QueueEntryTransitions
<1>4. EntriesMove(e[1])
    BY <1>1, <1>2, <1>3 DEF EntriesMove, EntryMoved
<1>5. GrantsMove /\ UnitsMove(e[1]) /\ RestStays(e[1]) /\ InTime
    BY <1>2 DEF GrantsMove, UnitsMove, RestStays, InTime
<1> QED BY <1>4, <1>5 DEF StepOf

(* The owner of a right leaves.                                            *)
LEMMA LeaveGrantedStep ==
    ASSUME IInv, NEW e \in DOMAIN entries, LeaveGranted(e)
    PROVE  StepOf(e[1])
<1>1. /\ e \in DOMAIN grants /\ grants[e].status = "ACTIVE" /\ entries[e].status = "GRANTED"
      /\ nextTicket' = nextTicket /\ attempts' = attempts
    BY DEF LeaveGranted
<1>2. PICK lag \in Lags :
         Promote(MarkEntryStatus(entries, e, "GRANTED", "CANCELLED"),
                 UpdateGrantStatus(grants, e, "ACTIVE", "CANCELLED"),
                 MarkUnitAvailable(units, grants[e].unit), e[1], lag, {e})
    BY DEF LeaveGranted
<1>3. /\ "CANCELLED" \in EntryStatus /\ "ACTIVE" \in LiveGrant
      /\ <<"CANCELLED", "CANCELLED">> \in StatusPairs
    BY DEF EntryStatus, LiveGrant, StatusPairs
<1>4. /\ <<"GRANTED", "CANCELLED">> \in QueueEntryTransitions
      /\ <<"ACTIVE", "CANCELLED">> \in GrantTransitions
    BY DEF QueueEntryTransitions, GrantTransitions
<1>5. /\ EntriesMove(e[1]) /\ GrantsMove /\ UnitsMove(e[1])
      /\ grants'[e].status = "CANCELLED"
      /\ \A f \in DOMAIN grants : f # e => grants'[f] = grants[f]
    BY <1>1, <1>2, <1>3, <1>4, ReleaseMoves
<1>6. InTime
    BY <1>1, <1>5, EndsInTime
<1>7. RestStays(e[1])
    BY <1>1 DEF RestStays
<1> QED BY <1>5, <1>6, <1>7 DEF StepOf

(* The owner of a right buys, within MaxLag of its end.                    *)
LEMMA CheckoutStep ==
    ASSUME IInv, NEW e \in DOMAIN grants, StartCheckout(e)
    PROVE  StepOf(e[1])
<1>1. TypeOK /\ e \in DOMAIN entries
    BY DEF IInv, TypeOK, GrantsOK
<1>2. /\ grants[e].status = "ACTIVE" /\ entries[e].status = "GRANTED" /\ e \in announced'
      /\ units' = units /\ nextTicket' = nextTicket /\ attempts' = attempts
    BY DEF StartCheckout
<1>3. EntryMoved(entries, e, "CHECKOUT_PENDING", entries')
    BY <1>1, MarkEntryMoves DEF StartCheckout, TypeOK
<1>4. GrantMoved(grants, e, "CHECKOUT_PENDING", grants')
    BY <1>1, UpdateGrantMoves DEF StartCheckout, TypeOK
<1>5. /\ <<"GRANTED", "CHECKOUT_PENDING">> \in QueueEntryTransitions
      /\ <<"ACTIVE", "CHECKOUT_PENDING">> \in GrantTransitions
    BY DEF QueueEntryTransitions, GrantTransitions
<1>6. EntriesMove(e[1])
    BY <1>2, <1>3, <1>5 DEF EntriesMove, EntryMoved
<1>7. GrantsMove
    BY <1>2, <1>4, <1>5 DEF GrantsMove, GrantMoved
<1>8. grants[e].left > -MaxLag
    <2>1. PICK lag \in 0 .. grants[e].age : grants[e].left + lag > 0
        BY DEF StartCheckout
    <2>2. grants[e].left \in Int /\ grants[e].age \in 0 .. MaxLag
        BY <1>1, ConstantsAssumption DEF TypeOK, GrantsOK, Floor, Lags
    <2> QED BY <2>1, <2>2, ConstantsAssumption
<1>9. InTime
    BY <1>4, <1>8 DEF InTime, GrantMoved
<1>10. UnitsMove(e[1]) /\ RestStays(e[1])
    BY <1>2 DEF UnitsMove, RestStays
<1> QED BY <1>6, <1>7, <1>9, <1>10 DEF StepOf

(* A sale, and whoever is turned away by the last one.                     *)
LEMMA PayStep ==
    ASSUME IInv, NEW e \in DOMAIN grants, NEW k \in Keys, PaymentSucceeds(e, k)
    PROVE  StepOf(e[1])
<1> DEFINE es == MarkEntryStatus(entries, e, "CHECKOUT_PENDING", "PURCHASED")
           Closed == IF AllSold(units', e[1]) THEN Waiting(es, e[1]) ELSE {}
           u == grants[e].unit
<1>1. Consistent(entries, grants, units) /\ TypeOK
    BY IInvConsistent
<1>2. /\ grants[e].status = "CHECKOUT_PENDING" /\ k \notin DOMAIN attempts
      /\ nextTicket' = nextTicket
      /\ attempts' = [j \in DOMAIN attempts \cup {k} |->
                        IF j = k THEN [entry |-> e, result |-> "success"] ELSE attempts[j]]
    BY DEF PaymentSucceeds, RecordAttempt
<1>3. /\ e \in DOMAIN entries /\ entries[e].status = "CHECKOUT_PENDING"
      /\ u \in Units /\ ProductOf[u] = e[1] /\ units[u].status = "RESERVED"
    BY <1>1, <1>2, HeldRight DEF LiveGrant
<1>4. EntryMoved(entries, e, "PURCHASED", es) /\ EntriesOK(es)
    BY <1>1, <1>3, Statuses, MarkEntryMoves, MarkEntryTypes DEF TypeOK
<1>5. GrantMoved(grants, e, "PURCHASED", grants')
    BY <1>1, <1>2, UpdateGrantMoves DEF PaymentSucceeds, TypeOK
<1>6. UnitMoved(units, u, "SOLD", units[u].grant, units')
    BY <1>1, <1>3, MarkUnitMoves DEF PaymentSucceeds, TypeOK
<1>7. /\ entries' = [f \in DOMAIN es |->
                       IF f \in Closed THEN [es[f] EXCEPT !.status = "SOLD_OUT"] ELSE es[f]]
      /\ announced' = {e} \cup Closed
    BY DEF PaymentSucceeds, CloseQueueIfSoldOut
<1>8. \A f \in Closed : f[1] = e[1] /\ es[f].status = "WAITING"
    BY DEF Waiting
<1> HIDE DEF es, Closed
<1>9. /\ <<"WAITING", "SOLD_OUT">> \in QueueEntryTransitions
      /\ <<"CHECKOUT_PENDING", "PURCHASED">> \in QueueEntryTransitions
      /\ <<"CHECKOUT_PENDING", "PURCHASED">> \in GrantTransitions
      /\ <<"RESERVED", "SOLD">> \in UnitTransitions
    BY DEF QueueEntryTransitions, GrantTransitions, UnitTransitions
<1>10. ASSUME NEW f \in DOMAIN entries
       PROVE  /\ f \in DOMAIN entries'
              /\ entries'[f].user = entries[f].user
              /\ \/ entries'[f] = entries[f]
                 \/ /\ f[1] = e[1] /\ f \in announced'
                    /\ <<entries[f].status, entries'[f].status>> \in QueueEntryTransitions
    <2>1. /\ f \in DOMAIN es /\ es[f] \in [user : Users, status : EntryStatus]
          /\ es[f].user = entries[f].user
        BY <1>4 DEF EntryMoved, EntriesOK
    <2>2. CASE f = e
        <3>1. f \notin Closed
            BY <1>4, <1>8, <2>2 DEF EntryMoved
        <3> QED BY <1>3, <1>4, <1>7, <1>9, <2>1, <2>2, <3>1 DEF EntryMoved
    <2>3. CASE f # e /\ f \in Closed
        <3>1. entries'[f] = [es[f] EXCEPT !.status = "SOLD_OUT"] /\ es[f] = entries[f]
            BY <1>4, <1>7, <2>1, <2>3 DEF EntryMoved
        <3> QED BY <1>7, <1>8, <1>9, <2>1, <2>3, <3>1
    <2>4. CASE f # e /\ f \notin Closed
        BY <1>4, <1>7, <2>1, <2>4 DEF EntryMoved
    <2> QED BY <2>2, <2>3, <2>4
<1>11. EntriesMove(e[1])
    BY <1>10 DEF EntriesMove
<1>12. GrantsMove /\ InTime
    BY <1>2, <1>5, <1>9 DEF GrantsMove, InTime, GrantMoved
<1>13. UnitsMove(e[1])
    BY <1>3, <1>6, <1>9 DEF UnitsMove, UnitMoved
<1>14. RestStays(e[1])
    BY <1>2 DEF RestStays
<1> QED BY <1>11, <1>12, <1>13, <1>14 DEF StepOf

(* A payment fails.                                                        *)
LEMMA FailStep ==
    ASSUME IInv, NEW e \in DOMAIN grants, NEW k \in Keys, NEW r \in {"failure", "timeout"},
           PaymentFails(e, k, r)
    PROVE  StepOf(e[1])
<1>1. /\ grants[e].status = "CHECKOUT_PENDING" /\ k \notin DOMAIN attempts
      /\ nextTicket' = nextTicket
      /\ attempts' = [j \in DOMAIN attempts \cup {k} |->
                        IF j = k THEN [entry |-> e, result |-> r] ELSE attempts[j]]
    BY DEF PaymentFails, RecordAttempt
<1>2. PICK lag \in Lags :
         Promote(MarkEntryStatus(entries, e, "CHECKOUT_PENDING", "PAYMENT_FAILED"),
                 UpdateGrantStatus(grants, e, "CHECKOUT_PENDING", "FAILED"),
                 MarkUnitAvailable(units, grants[e].unit), e[1], lag, {e})
    BY DEF PaymentFails
<1>3. /\ "PAYMENT_FAILED" \in EntryStatus /\ "CHECKOUT_PENDING" \in LiveGrant
      /\ <<"PAYMENT_FAILED", "FAILED">> \in StatusPairs
    BY DEF EntryStatus, LiveGrant, StatusPairs
<1>4. /\ <<"CHECKOUT_PENDING", "PAYMENT_FAILED">> \in QueueEntryTransitions
      /\ <<"CHECKOUT_PENDING", "FAILED">> \in GrantTransitions
    BY DEF QueueEntryTransitions, GrantTransitions
<1>5. entries[e].status = "CHECKOUT_PENDING"
    BY <1>1, <1>3, IInvConsistent, HeldRight
<1>6. /\ EntriesMove(e[1]) /\ GrantsMove /\ UnitsMove(e[1])
      /\ grants'[e].status = "FAILED"
      /\ \A f \in DOMAIN grants : f # e => grants'[f] = grants[f]
    BY <1>1, <1>2, <1>3, <1>4, <1>5, ReleaseMoves
<1>7. InTime
    BY <1>6, EndsInTime
<1>8. RestStays(e[1])
    BY <1>1 DEF RestStays
<1> QED BY <1>6, <1>7, <1>8 DEF StepOf

(* The worker ends a right, whose time is over whenever the transaction    *)
(* that says so began.                                                     *)
LEMMA ExpireStep ==
    ASSUME IInv, NEW e \in DOMAIN grants, Expire(e)
    PROVE  StepOf(e[1])
<1>1. grants[e].status = "ACTIVE" /\ nextTicket' = nextTicket /\ attempts' = attempts
    BY DEF Expire
<1>2. PICK lag \in 0 .. grants[e].age :
         /\ grants[e].left + lag < 0
         /\ Promote(MarkEntryStatus(entries, e, "GRANTED", "EXPIRED"),
                    UpdateGrantStatus(grants, e, "ACTIVE", "EXPIRED"),
                    MarkUnitAvailable(units, grants[e].unit), e[1], lag, {e})
    BY DEF Expire
<1>3. grants[e].left \in Int /\ grants[e].age \in 0 .. MaxLag
    BY ConstantsAssumption DEF IInv, TypeOK, GrantsOK, Floor, Lags
<1>4. lag \in Lags /\ grants[e].left < 0
    BY <1>2, <1>3, ConstantsAssumption DEF Lags
<1>5. /\ "EXPIRED" \in EntryStatus /\ "ACTIVE" \in LiveGrant
      /\ <<"EXPIRED", "EXPIRED">> \in StatusPairs
    BY DEF EntryStatus, LiveGrant, StatusPairs
<1>6. /\ <<"GRANTED", "EXPIRED">> \in QueueEntryTransitions
      /\ <<"ACTIVE", "EXPIRED">> \in GrantTransitions
    BY DEF QueueEntryTransitions, GrantTransitions
<1>7. entries[e].status = "GRANTED"
    BY <1>1, <1>5, IInvConsistent, HeldRight
<1>8. /\ EntriesMove(e[1]) /\ GrantsMove /\ UnitsMove(e[1])
      /\ grants'[e].status = "EXPIRED"
      /\ \A f \in DOMAIN grants : f # e => grants'[f] = grants[f]
    BY <1>1, <1>2, <1>4, <1>5, <1>6, <1>7, ReleaseMoves
<1>9. InTime
    BY <1>4, <1>8, EndsInTime
<1>10. RestStays(e[1])
    BY <1>1 DEF RestStays
<1> QED BY <1>8, <1>9, <1>10 DEF StepOf

(* Time moves no row: it is a step of no product.                          *)
LEMMA TickStep ==
    ASSUME IInv, Tick
    PROVE  StepOf(None)
<1>1. /\ entries' = entries /\ units' = units
      /\ nextTicket' = nextTicket /\ attempts' = attempts
      /\ DOMAIN grants' = DOMAIN grants
    BY DEF Tick
<1>2. ASSUME NEW e \in DOMAIN grants
      PROVE  grants'[e].status = grants[e].status /\ grants'[e].unit = grants[e].unit
    <2>1. grants[e] \in [unit : Units, status : GrantStatus, left : Floor .. TTL, age : Lags]
        BY DEF IInv, TypeOK, GrantsOK
    <2> QED BY <2>1 DEF Tick, Elapse
<1>3. GrantsMove /\ InTime
    BY <1>1, <1>2 DEF GrantsMove, InTime
<1>4. EntriesMove(None) /\ UnitsMove(None) /\ RestStays(None)
    BY <1>1 DEF EntriesMove, UnitsMove, RestStays
<1> QED BY <1>3, <1>4 DEF StepOf

-----------------------------------------------------------------------------
(* Every step is one of a single product, or of none.                      *)
LEMMA NextStep == IInv /\ [Next]_vars => \E p \in Products \cup {None} : StepOf(p)
<1> SUFFICES ASSUME IInv, [Next]_vars PROVE \E p \in Products \cup {None} : StepOf(p)
    OBVIOUS
<1>1. \A e \in DOMAIN entries : e[1] \in Products
    BY DEF IInv, TypeOK, EntriesOK, EntryIds
<1>2. \A e \in DOMAIN grants : e[1] \in Products
    BY <1>1 DEF IInv, TypeOK, GrantsOK
<1>3. ASSUME NEW u \in Users, NEW p \in Products, JoinQueue(u, p) PROVE StepOf(p)
    BY <1>3, JoinStep
<1>4. ASSUME NEW e \in DOMAIN entries, LeaveWaiting(e) PROVE StepOf(e[1])
    BY <1>4, LeaveWaitingStep
<1>5. ASSUME NEW e \in DOMAIN entries, LeaveGranted(e) PROVE StepOf(e[1])
    BY <1>5, LeaveGrantedStep
<1>6. ASSUME NEW e \in DOMAIN grants, StartCheckout(e) PROVE StepOf(e[1])
    BY <1>6, CheckoutStep
<1>7. ASSUME NEW e \in DOMAIN grants, NEW k \in Keys, PaymentSucceeds(e, k)
      PROVE  StepOf(e[1])
    BY <1>7, PayStep
<1>8. ASSUME NEW e \in DOMAIN grants, NEW k \in Keys, NEW r \in {"failure", "timeout"},
             PaymentFails(e, k, r)
      PROVE  StepOf(e[1])
    BY <1>8, FailStep
<1>9. ASSUME NEW e \in DOMAIN grants, Expire(e) PROVE StepOf(e[1])
    BY <1>9, ExpireStep
<1>10. CASE Tick
    BY <1>10, TickStep
<1>11. CASE UNCHANGED vars
    <2>1. StepOf(None)
        BY <1>11 DEF vars, StepOf, EntriesMove, GrantsMove, UnitsMove, RestStays, InTime
    <2> QED BY <2>1
<1> QED BY <1>1, <1>2, <1>3, <1>4, <1>5, <1>6, <1>7, <1>8, <1>9, <1>10, <1>11 DEF Next

(* The conditional updates of the services never leave the tables of       *)
(* state.go and never touch a row that is final.                           *)
THEOREM StepsAreLegal == Spec => LegalTransitions
<1>1. IInv /\ [Next]_vars => LegalStep
    <2> SUFFICES ASSUME IInv, [Next]_vars PROVE LegalStep
        OBVIOUS
    <2>1. PICK p \in Products \cup {None} : StepOf(p)
        BY NextStep
    <2> QED BY <2>1 DEF StepOf, EntriesMove, GrantsMove, UnitsMove, RestStays, LegalStep
<1> QED BY <1>1, Inductive, PTL DEF Spec, LegalTransitions

(* Whoever's entry changes status learns of it from the transaction that   *)
(* changed it, unless they gave up their place.                            *)
THEOREM EveryChangeAnnounced == Spec => ChangesAnnounced
<1> DEFINE Said == \A e \in DOMAIN entries :
                       \/ entries'[e].status = entries[e].status
                       \/ entries[e].status = "WAITING" /\ entries'[e].status = "CANCELLED"
                       \/ e \in announced'
<1>1. IInv /\ [Next]_vars => Said
    <2> SUFFICES ASSUME IInv, [Next]_vars PROVE Said
        OBVIOUS
    <2>1. PICK p \in Products \cup {None} : StepOf(p)
        BY NextStep
    <2> QED BY <2>1 DEF StepOf, EntriesMove
<1> QED BY <1>1, Inductive, PTL DEF Spec, ChangesAnnounced

(* A transaction writes rows of one product only.                          *)
THEOREM ProductsApart == Spec => OneProductPerStep
<1> DEFINE Apart == \A p, q \in Products : Touched(p) /\ Touched(q) => p = q
<1>1. IInv /\ [Next]_vars => Apart
    <2> SUFFICES ASSUME IInv, [Next]_vars PROVE Apart
        OBVIOUS
    <2>1. PICK p \in Products \cup {None} : StepOf(p)
        BY NextStep
    <2>2. ASSUME NEW q \in Products, Touched(q) PROVE q = p
        BY <2>1, <2>2 DEF StepOf, EntriesMove, UnitsMove, RestStays, Touched, UnitsOf
    <2> QED BY <2>2
<1> QED BY <1>1, Inductive, PTL DEF Spec, OneProductPerStep

(* No right is taken away while it is valid, and none is used more than    *)
(* MaxLag after its end, whatever the lags of the transactions.            *)
THEOREM Deadlines == Spec => DeadlineRespected
<1>1. IInv /\ [Next]_vars => InTime
    <2> SUFFICES ASSUME IInv, [Next]_vars PROVE InTime
        OBVIOUS
    <2>1. PICK p \in Products \cup {None} : StepOf(p)
        BY NextStep
    <2> QED BY <2>1 DEF StepOf
<1> QED BY <1>1, Inductive, PTL DEF Spec, DeadlineRespected


-----------------------------------------------------------------------------
(***************************************************************************)
(* FairQueue implements FifoSale.  The tickets, the number of pieces that  *)
(* are free and the ones served are counted on one side, rows paired on    *)
(* the other.                                                              *)
(***************************************************************************)

LineOf(es, p) == {e[2] : e \in Waiting(es, p)}
Holding(es, p) == {e \in DOMAIN es : e[1] = p /\ es[e].status \in HoldingEntry}
HoldersOf(es, p) == {e[2] : e \in Holding(es, p)}
WithUnitStatus(us, p, status) == {u \in UnitsOf(p) : us[u].status = status}
SoldOf(us, p) == WithUnitStatus(us, p, "SOLD")

(* Entries of one product are as many as their tickets.                    *)
LEMMA TicketsCount ==
    ASSUME NEW p, NEW X \in SUBSET EntryIds, \A e \in X : e[1] = p
    PROVE  /\ IsFiniteSet(X) /\ IsFiniteSet({e[2] : e \in X})
           /\ Cardinality({e[2] : e \in X}) = Cardinality(X)
<1> DEFINE T == {e[2] : e \in X}
           f == [e \in X |-> e[2]]
<1>1. \A e \in X : e = <<p, e[2]>> /\ e[2] \in 1 .. MaxTicket
    BY DEF EntryIds
<1>2. f \in [X -> 1 .. MaxTicket] /\ f \in [X -> T]
    BY <1>1
<1>3. \A x, y \in X : f[x] = f[y] => x = y
    BY <1>1
<1>4. \A t \in T : \E x \in X : f[x] = t
    OBVIOUS
<1> HIDE DEF f
<1>5. f \in Injection(X, 1 .. MaxTicket) /\ f \in Bijection(X, T)
    BY <1>2, <1>3, <1>4 DEF Injection, IsInjective, Surjection, Bijection
<1>6. IsFiniteSet(X)
    BY <1>5, ConstantsAssumption, FS_Interval, FS_Injection
<1>7. ExistsBijection(X, T)
    BY <1>5 DEF ExistsBijection
<1> QED BY <1>6, <1>7, FS_Bijection

(* The waiting and the holding entries of a product are such sets.         *)
LEMMA TicketSets ==
    ASSUME NEW es, EntriesOK(es), NEW p
    PROVE  /\ Waiting(es, p) \in SUBSET EntryIds /\ Holding(es, p) \in SUBSET EntryIds
           /\ \A e \in Waiting(es, p) \cup Holding(es, p) : e[1] = p
BY DEF EntriesOK, Waiting, Holding

(* Of the units of a product as many are reserved as entries hold a right. *)
LEMMA ReservedAreHeld ==
    ASSUME NEW es, NEW gs, NEW us, Consistent(es, gs, us), NEW p \in Products
    PROVE  /\ IsFiniteSet(HoldersOf(es, p))
           /\ Cardinality(WithUnitStatus(us, p, "RESERVED")) = Cardinality(HoldersOf(es, p))
<1> DEFINE H == Holding(es, p)
           R == WithUnitStatus(us, p, "RESERVED")
           f == [e \in H |-> gs[e].unit]
<1>1. \A e \in H : e \in DOMAIN gs /\ gs[e].status \in LiveGrant
    BY DEF Consistent, GrantsFollow, StatusPairs, Holding, HoldingEntry, LiveGrant
<1>2. \A e \in H : f[e] \in R /\ us[f[e]].grant = e
    BY <1>1, HeldRight DEF WithUnitStatus, UnitsOf, Holding
<1>3. ASSUME NEW u \in R
      PROVE  us[u].grant \in H /\ f[us[u].grant] = u
    <2> DEFINE e == us[u].grant
    <2>1. u \in Units /\ ProductOf[u] = p /\ us[u].status = "RESERVED"
        BY DEF WithUnitStatus, UnitsOf
    <2>2. e \in DOMAIN gs /\ gs[e].unit = u /\ gs[e].status \in LiveGrant
        BY <2>1 DEF Consistent, UnitsMatch
    <2>3. /\ e \in DOMAIN es /\ e[1] = p
          /\ es[e].status \in HoldingEntry
        BY <2>1, <2>2, HeldRight DEF HoldingEntry
    <2> QED BY <2>2, <2>3 DEF Holding
<1> HIDE DEF H, R
<1>4. f \in [H -> R]
    BY <1>2
<1>5. \A x, y \in H : f[x] = f[y] => x = y
    BY <1>2
<1>6. \A u \in R : \E x \in H : f[x] = u
    BY <1>3
<1> HIDE DEF f
<1>7. ExistsBijection(H, R)
    <2>1. f \in Bijection(H, R)
        BY <1>4, <1>5, <1>6 DEF Injection, IsInjective, Surjection, Bijection
    <2> QED BY <2>1 DEF ExistsBijection
<1>8. /\ IsFiniteSet(H) /\ IsFiniteSet(HoldersOf(es, p))
      /\ Cardinality(HoldersOf(es, p)) = Cardinality(H)
    BY TicketsCount, TicketSets DEF Consistent, HoldersOf, H
<1> QED BY <1>7, <1>8, FS_Bijection DEF R

(* What neither is sold nor held by somebody is available.                 *)
LEMMA FreeUnits ==
    ASSUME NEW es, NEW gs, NEW us, Consistent(es, gs, us), NEW p \in Products
    PROVE  /\ Cardinality(UnitsOf(p)) - Cardinality(HoldersOf(es, p)) - Cardinality(SoldOf(us, p))
                 = Cardinality(Available(us, p))
           /\ Cardinality(UnitsOf(p)) \in Nat /\ Cardinality(SoldOf(us, p)) \in Nat
           /\ IsFiniteSet(Available(us, p)) /\ Cardinality(Available(us, p)) \in Nat
           /\ IsFiniteSet(SoldOf(us, p))
<1> DEFINE A == WithUnitStatus(us, p, "AVAILABLE")
           R == WithUnitStatus(us, p, "RESERVED")
           S == WithUnitStatus(us, p, "SOLD")
<1>1. UnitsOf(p) \in SUBSET Units /\ A \in SUBSET Units /\ R \in SUBSET Units /\ S \in SUBSET Units
    BY DEF WithUnitStatus, UnitsOf
<1>2. UnitsOf(p) = (A \cup R) \cup S
    BY DEF WithUnitStatus, UnitsOf, Consistent, UnitsOK, UnitStatus
<1>3. A \cap R = {} /\ (A \cup R) \cap S = {}
    BY DEF WithUnitStatus
<1>4. Available(us, p) = A
    BY DEF Available, WithUnitStatus, UnitsOf, Consistent, UnitsMatch
<1> HIDE DEF A, R, S
<1>5. IsFiniteSet(UnitsOf(p)) /\ IsFiniteSet(A) /\ IsFiniteSet(R) /\ IsFiniteSet(S)
    BY <1>1, ConstantsAssumption, FS_Subset
<1>6. /\ IsFiniteSet(A \cup R)
      /\ Cardinality(A \cup R) = Cardinality(A) + Cardinality(R) - Cardinality({})
    BY <1>3, <1>5, FS_Union
<1>7. Cardinality(UnitsOf(p)) = Cardinality(A \cup R) + Cardinality(S) - Cardinality({})
    BY <1>2, <1>3, <1>5, <1>6, FS_Union
<1>8. /\ Cardinality(A) \in Nat /\ Cardinality(R) \in Nat /\ Cardinality(S) \in Nat
      /\ Cardinality(UnitsOf(p)) \in Nat
    BY <1>5, FS_CardinalityType
<1>9. Cardinality({}) = 0
    BY FS_EmptySet
<1>10. Cardinality(R) = Cardinality(HoldersOf(es, p))
    BY ReservedAreHeld DEF R
<1>11. SoldOf(us, p) = S
    BY DEF SoldOf, S
<1>12. Cardinality(UnitsOf(p)) - Cardinality(R) - Cardinality(S) = Cardinality(A)
    BY <1>6, <1>7, <1>8, <1>9
<1> QED BY <1>4, <1>5, <1>8, <1>10, <1>11, <1>12

(* The stock is sold when as many units are SOLD as there are.             *)
LEMMA SoldOutIsAllSold ==
    ASSUME NEW us, NEW p \in Products
    PROVE  AllSold(us, p) <=> /\ Cardinality(UnitsOf(p)) > 0
                              /\ Cardinality(SoldOf(us, p)) = Cardinality(UnitsOf(p))
<1> DEFINE U == UnitsOf(p)
           S == SoldOf(us, p)
<1>1. S \in SUBSET U /\ U \in SUBSET Units
    BY DEF SoldOf, WithUnitStatus, UnitsOf
<1>2. IsFiniteSet(U)
    BY <1>1, ConstantsAssumption, FS_Subset
<1>3. Cardinality(U) = Cardinality(S) <=> U = S
    BY <1>1, <1>2, FS_Subset
<1>4. Cardinality(U) \in Nat /\ (Cardinality(U) = 0 <=> U = {})
    BY <1>2, FS_CardinalityType, FS_EmptySet
<1>5. Cardinality(U) > 0 <=> U # {}
    BY <1>4
<1>6. AllSold(us, p) <=> U # {} /\ U = S
    BY DEF AllSold, SoldOf, WithUnitStatus
<1> QED BY <1>3, <1>5, <1>6

(* The tickets that are served: as many as are free, from the front.       *)
Front(L, n) == {t \in L : Cardinality({v \in L : v < t}) < n}

(* Those that promotion pairs with a unit are those that the sale serves.  *)
LEMMA ServedArePaired ==
    ASSUME NEW es, NEW us, EntriesOK(es), NEW p \in Products,
           NEW t \in LineOf(es, p)
    PROVE  <<p, t>> \in Waiting(es, p) /\
           (t \in Front(LineOf(es, p), Cardinality(Available(us, p)))
              <=> \E m \in Pairs(es, us, p) : m[1] = <<p, t>>)
<1> DEFINE W == Waiting(es, p)
           A == Available(us, p)
           L == LineOf(es, p)
           wkey == [e \in W |-> e[2]]
           akey == [u \in A |-> u]
           e == <<p, t>>
<1>1. Numbered(wkey, W) /\ Numbered(akey, A)
    BY WaitingNumbered, AvailableNumbered
<1>2. W \in SUBSET EntryIds /\ \A f \in W : f[1] = p /\ f = <<p, f[2]>>
    BY TicketSets DEF EntryIds
<1>3. e \in W
    BY <1>2 DEF LineOf
<1>4. {v \in L : v < t} = {f[2] : f \in Before(e, W)}
    BY <1>2 DEF LineOf, Before
<1>5. Cardinality({v \in L : v < t}) = Cardinality(Before(e, W))
    <2>1. Before(e, W) \in SUBSET EntryIds /\ \A f \in Before(e, W) : f[1] = p
        BY <1>2 DEF Before
    <2> QED BY <1>4, <2>1, TicketsCount
<1>6. /\ \A f \in W : Rank(wkey, W, f) = Cardinality(Before(f, W))
      /\ \A u \in A : Rank(akey, A, u) = Cardinality(Below(u, A))
    <2>1. \A f \in W : Behind(wkey, W, f) = Before(f, W)
        BY DEF Before, Behind
    <2>2. \A u \in A : Behind(akey, A, u) = Below(u, A)
        BY DEF Below, Behind
    <2> QED BY <2>1, <2>2 DEF Rank
<1>7. (\E m \in Pairs(es, us, p) : m[1] = e)
         <=> \E u \in A : Rank(akey, A, u) = Rank(wkey, W, e)
    <2>1. \A m \in Pairs(es, us, p) :
             m[1] \in W /\ m[2] \in A /\ Rank(wkey, W, m[1]) = Rank(akey, A, m[2])
        BY <1>6 DEF Pairs
    <2>2. ASSUME NEW u \in A, Rank(akey, A, u) = Rank(wkey, W, e)
          PROVE  <<e, u>> \in Pairs(es, us, p)
        BY <1>3, <1>6, <2>2 DEF Pairs
    <2> QED BY <2>1, <2>2
<1> HIDE DEF W, A, L, wkey, akey
<1>8. IsFiniteSet(A) /\ Cardinality(A) \in Nat
    BY <1>1, FS_CardinalityType DEF Numbered
<1>9. Rank(wkey, W, e) \in Nat
    <2>1. Cardinality(W) \in Nat
        BY <1>1, FS_CardinalityType DEF Numbered
    <2>2. Rank(wkey, W, e) \in 0 .. Cardinality(W) - 1
        BY <1>1, <1>3, RankBound
    <2> QED BY <2>1, <2>2
<1>10. (\E u \in A : Rank(akey, A, u) = Rank(wkey, W, e)) <=> Rank(wkey, W, e) < Cardinality(A)
    <2>1. \A u \in A : Rank(akey, A, u) \in 0 .. Cardinality(A) - 1
        BY <1>1, RankBound
    <2>2. ASSUME Rank(wkey, W, e) < Cardinality(A)
          PROVE  \E u \in A : Rank(akey, A, u) = Rank(wkey, W, e)
        <3>1. Rank(wkey, W, e) \in 0 .. Cardinality(A) - 1
            BY <1>8, <1>9, <2>2
        <3> QED BY <1>1, <3>1, RankOnto
    <2> QED BY <1>8, <2>1, <2>2
<1>11. t \in Front(L, Cardinality(A)) <=> Rank(wkey, W, e) < Cardinality(A)
    BY <1>3, <1>5, <1>6 DEF Front, L
<1> QED BY <1>3, <1>7, <1>10, <1>11 DEF W, A, L

-----------------------------------------------------------------------------
(* L, H and s become what is in the tables of p, and nothing else changes. *)
SaleRows(p, L, H, s) ==
    /\ LineOf(entries', p) = L /\ HoldersOf(entries', p) = H
    /\ Cardinality(SoldOf(units', p)) = s
    /\ \A q \in Products : q # p =>
          /\ LineOf(entries', q) = LineOf(entries, q)
          /\ HoldersOf(entries', q) = HoldersOf(entries, q)
          /\ SoldOf(units', q) = SoldOf(units, q)

(* A step of p is no step of another product.                              *)
LEMMA OthersStay ==
    ASSUME NEW p, StepOf(p), NEW q \in Products, q # p,
           \A f \in DOMAIN entries' : f[1] = p \/ f \in DOMAIN entries
    PROVE  /\ LineOf(entries', q) = LineOf(entries, q)
           /\ HoldersOf(entries', q) = HoldersOf(entries, q)
           /\ SoldOf(units', q) = SoldOf(units, q)
<1>1. \A f \in DOMAIN entries : f \in DOMAIN entries' /\ (f[1] = q => entries'[f] = entries[f])
    BY DEF StepOf, EntriesMove
<1>2. \A f \in DOMAIN entries' : f[1] = q => f \in DOMAIN entries
    OBVIOUS
<1>3. Waiting(entries', q) = Waiting(entries, q) /\ Holding(entries', q) = Holding(entries, q)
    BY <1>1, <1>2 DEF Waiting, Holding
<1>4. SoldOf(units', q) = SoldOf(units, q)
    BY DEF StepOf, UnitsMove, SoldOf, WithUnitStatus, UnitsOf
<1> QED BY <1>3, <1>4 DEF LineOf, HoldersOf

(* Promotion serves the front of the line, as long as the line or the      *)
(* stock lasts.                                                            *)
LEMMA PromoteServes ==
    ASSUME NEW es, NEW gs, NEW us, Consistent(es, gs, us),
           NEW p \in Products, NEW lag \in Lags, NEW said, Promote(es, gs, us, p, lag, said)
    PROVE  LET served == Front(LineOf(es, p), Cardinality(Available(us, p)))
           IN  /\ LineOf(entries', p) = LineOf(es, p) \ served
               /\ HoldersOf(entries', p) = HoldersOf(es, p) \cup served
               /\ SoldOf(units', p) = SoldOf(us, p)
<1> DEFINE M == Pairs(es, us, p)
           served == Front(LineOf(es, p), Cardinality(Available(us, p)))
<1>1. Promoted(M, es, gs, us, p, lag, entries', grants', units') /\ EntriesOK(es)
    BY PromotePromotes DEF Consistent
<1>2. \A t \in LineOf(es, p) :
         <<p, t>> \in Waiting(es, p) /\ (t \in served <=> \E m \in M : m[1] = <<p, t>>)
    BY <1>1, ServedArePaired
<1>3. served \in SUBSET LineOf(es, p)
    BY DEF Front
<1>4. Chosen(M, es, us, p) /\ EntryRows(M, es, entries') /\ UnitRows(M, us, units')
    BY <1>1, PromotedRows
<1> HIDE DEF M, served
<1>5. \A e \in DOMAIN es : e = <<e[1], e[2]>> /\ es[e] \in [user : Users, status : EntryStatus]
    BY <1>1 DEF EntriesOK, EntryIds
<1>6. Waiting(entries', p) = {e \in Waiting(es, p) : e[2] \notin served}
    <2>1. ASSUME NEW e \in Waiting(es, p)
          PROVE  e \in Waiting(entries', p) <=> e[2] \notin served
        <3>1. e \in DOMAIN es /\ e = <<p, e[2]>> /\ e[2] \in LineOf(es, p)
            BY <1>5 DEF Waiting, LineOf
        <3>2. e[2] \in served <=> \E m \in M : m[1] = e
            BY <1>2, <3>1
        <3>3. CASE \E m \in M : m[1] = e
            <4>1. entries'[e] = [es[e] EXCEPT !.status = "GRANTED"]
                BY <1>4, <3>3 DEF EntryRows
            <4>2. entries'[e].status = "GRANTED"
                BY <1>5, <3>1, <4>1
            <4> QED BY <3>2, <3>3, <4>2 DEF Waiting
        <3>4. CASE ~ \E m \in M : m[1] = e
            BY <1>4, <3>1, <3>2, <3>4 DEF EntryRows, Waiting
        <3> QED BY <3>3, <3>4
    <2>2. ASSUME NEW e \in Waiting(entries', p)
          PROVE  e \in Waiting(es, p)
        <3>1. e \in DOMAIN es /\ e[1] = p /\ entries'[e].status = "WAITING"
            BY <1>4 DEF EntryRows, Waiting
        <3>2. ~ \E m \in M : m[1] = e
            BY <1>4, <1>5, <3>1 DEF EntryRows
        <3> QED BY <1>4, <3>1, <3>2 DEF EntryRows, Waiting
    <2> QED BY <2>1, <2>2
<1>7. Holding(entries', p) = Holding(es, p) \cup {e \in Waiting(es, p) : e[2] \in served}
    <2>1. ASSUME NEW e \in DOMAIN es, e[1] = p
          PROVE  e \in Holding(entries', p)
                    <=> e \in Holding(es, p) \/ (e \in Waiting(es, p) /\ e[2] \in served)
        <3>1. CASE \E m \in M : m[1] = e
            <4>1. es[e].status = "WAITING"
                BY <1>4, <3>1 DEF Chosen
            <4>2. entries'[e] = [es[e] EXCEPT !.status = "GRANTED"]
                BY <1>4, <3>1 DEF EntryRows
            <4>3. entries'[e].status = "GRANTED"
                BY <1>5, <4>2
            <4>4. e \in Waiting(es, p) /\ e[2] \in LineOf(es, p) /\ e = <<p, e[2]>>
                BY <1>5, <2>1, <4>1 DEF Waiting, LineOf
            <4>5. e[2] \in served
                BY <1>2, <3>1, <4>4
            <4> QED BY <1>4, <2>1, <4>3, <4>4, <4>5 DEF Holding, HoldingEntry, EntryRows
        <3>2. CASE ~ \E m \in M : m[1] = e
            <4>1. entries'[e] = es[e]
                BY <1>4, <3>2 DEF EntryRows
            <4>2. ~ (e \in Waiting(es, p) /\ e[2] \in served)
                BY <1>2, <1>5, <2>1, <3>2 DEF LineOf
            <4> QED BY <1>4, <4>1, <4>2 DEF Holding, EntryRows
        <3> QED BY <3>1, <3>2
    <2>2. \A e \in Holding(entries', p) : e \in DOMAIN es /\ e[1] = p
        BY <1>4 DEF EntryRows, Holding
    <2>3. \A e \in Holding(es, p) \cup Waiting(es, p) : e \in DOMAIN es /\ e[1] = p
        BY DEF Holding, Waiting
    <2> QED BY <2>1, <2>2, <2>3
<1>8. LineOf(entries', p) = LineOf(es, p) \ served
    BY <1>6 DEF LineOf
<1>9. HoldersOf(entries', p) = HoldersOf(es, p) \cup served
    BY <1>3, <1>7 DEF LineOf, HoldersOf
<1>10. SoldOf(units', p) = SoldOf(us, p)
    <2>1. ASSUME NEW u \in Units
          PROVE  units'[u].status = "SOLD" <=> us[u].status = "SOLD"
        <3>1. CASE \E m \in M : m[2] = u
            <4>1. PICK m \in M : m[2] = u
                BY <3>1
            <4>2. us[u].status = "AVAILABLE"
                BY <1>4, <4>1 DEF Chosen
            <4>3. units'[u] = [status |-> "RESERVED", grant |-> m[1]]
                BY <1>4, <4>1 DEF UnitRows
            <4> QED BY <4>2, <4>3
        <3>2. CASE ~ \E m \in M : m[2] = u
            BY <1>4, <3>2 DEF UnitRows
        <3> QED BY <3>1, <3>2
    <2> QED BY <2>1 DEF SoldOf, WithUnitStatus, UnitsOf
<1> QED BY <1>8, <1>9, <1>10 DEF served

(* The refinement mapping, in the terms of these lemmas.                   *)
LEMMA Mapped ==
    /\ Tickets({"WAITING"}) = [q \in Products |-> LineOf(entries, q)]
    /\ Tickets(HoldingEntry) = [q \in Products |-> HoldersOf(entries, q)]
    /\ Tickets({"WAITING"})' = [q \in Products |-> LineOf(entries', q)]
    /\ Tickets(HoldingEntry)' = [q \in Products |-> HoldersOf(entries', q)]
<1>1. \A es, q : Waiting(es, q) = {f \in DOMAIN es : f[1] = q /\ es[f].status \in {"WAITING"}}
    BY DEF Waiting
<1> QED BY <1>1 DEF Tickets, LineOf, HoldersOf, Holding

(* The sale counts as everybody does.                                      *)
LEMMA SaleCounts == \A S : Sale!Cardinality(S) = Cardinality(S)
BY DEF Sale!Cardinality, Cardinality

(* The rows, once settled, are those of a settled sale.                    *)
LEMMA SaleSettles ==
    ASSUME NEW p \in Products, NEW L, NEW H, NEW s,
           LET free == Cardinality(UnitsOf(p)) - Cardinality(H) - s
               soldOut == Cardinality(UnitsOf(p)) > 0 /\ s = Cardinality(UnitsOf(p))
           IN  SaleRows(p, IF soldOut THEN {} ELSE L \ Front(L, free), H \cup Front(L, free), s)
    PROVE  Sale!Settle(p, L, H, s)
<1>1. Tickets({"WAITING"})' = [Tickets({"WAITING"}) EXCEPT ![p] = LineOf(entries', p)]
    BY Mapped DEF SaleRows
<1>2. Tickets(HoldingEntry)' = [Tickets(HoldingEntry) EXCEPT ![p] = HoldersOf(entries', p)]
    BY Mapped DEF SaleRows
<1>3. [q \in Products |-> Cardinality({u \in UnitsOf(q) : units[u].status = "SOLD"})]'
         = [[q \in Products |-> Cardinality({u \in UnitsOf(q) : units[u].status = "SOLD"})]
               EXCEPT ![p] = Cardinality(SoldOf(units', p))]
    BY DEF SaleRows, SoldOf, WithUnitStatus
<1>4. [q \in Products |-> Cardinality(UnitsOf(q))][p] = Cardinality(UnitsOf(p))
    OBVIOUS
<1> QED BY <1>1, <1>2, <1>3, <1>4, SaleCounts DEF SaleRows, Front, Sale!Settle, Sale!SoldOut

(* A transaction that promotes settles the sale, on what its own updates   *)
(* left in the line, in the hands of the holders and on the shelf.         *)
LEMMA PromoteSettles ==
    ASSUME NEW es, NEW gs, NEW us, Consistent(es, gs, us),
           NEW p \in Products, NEW lag \in Lags, NEW said, Promote(es, gs, us, p, lag, said),
           ~ AllSold(us, p), StepOf(p),
           \A f \in DOMAIN es : f[1] = p \/ f \in DOMAIN entries
    PROVE  Sale!Settle(p, LineOf(es, p), HoldersOf(es, p), Cardinality(SoldOf(us, p)))
<1> DEFINE L == LineOf(es, p)
           H == HoldersOf(es, p)
           s == Cardinality(SoldOf(us, p))
           n == Cardinality(Available(us, p))
<1>1. Cardinality(UnitsOf(p)) - Cardinality(H) - s = n
    BY FreeUnits
<1>2. ~ (Cardinality(UnitsOf(p)) > 0 /\ s = Cardinality(UnitsOf(p)))
    BY SoldOutIsAllSold
<1>3. /\ LineOf(entries', p) = L \ Front(L, n)
      /\ HoldersOf(entries', p) = H \cup Front(L, n)
      /\ SoldOf(units', p) = SoldOf(us, p)
    BY PromoteServes
<1>4. DOMAIN entries' = DOMAIN es
    BY DEF Promote, PromotedEntries
<1>5. \A q \in Products : q # p =>
          /\ LineOf(entries', q) = LineOf(entries, q)
          /\ HoldersOf(entries', q) = HoldersOf(entries, q)
          /\ SoldOf(units', q) = SoldOf(units, q)
    BY <1>4, OthersStay
<1>6. Cardinality(SoldOf(units', p)) = s
    BY <1>3
<1>7. SaleRows(p, L \ Front(L, n), H \cup Front(L, n), s)
    BY <1>3, <1>5, <1>6 DEF SaleRows
<1> HIDE DEF L, H, s, n
<1>8. Sale!Settle(p, L, H, s)
    BY <1>1, <1>2, <1>7, SaleSettles
<1> QED BY <1>8 DEF L, H, s

(* What the sale calls sold.                                               *)
SoldCount == [p \in Products |-> Cardinality({u \in UnitsOf(p) : units[u].status = "SOLD"})]

(* It is counted over the units that are SOLD.                             *)
LEMMA SoldMapped == \A p \in Products : SoldCount[p] = Cardinality(SoldOf(units, p))
BY DEF SoldCount, SoldOf, WithUnitStatus

-----------------------------------------------------------------------------
(* JoinQueue is an arrival.                                                *)
LEMMA SaleArrives ==
    ASSUME IInv, NEW u \in Users, NEW p \in Products, JoinQueue(u, p)
    PROVE  Sale!Arrive(p)
<1> DEFINE t == nextTicket[p]
           e == <<p, t>>
           es == Joined(u, p)
<1>1. PICK lag \in Lags : Promote(es, grants, units, p, lag, {})
    BY DEF JoinQueue, Joined
<1>2. /\ t <= MaxTicket /\ ~ AllSold(units, p) /\ e \notin DOMAIN entries
      /\ nextTicket' = [nextTicket EXCEPT ![p] = @ + 1]
    BY DEF JoinQueue
<1>3. /\ DOMAIN es = DOMAIN entries \cup {e}
      /\ es[e] = [user |-> u, status |-> "WAITING"]
      /\ \A f \in DOMAIN entries : es[f] = entries[f]
    BY <1>2 DEF Joined
<1>4. Consistent(es, grants, units)
    BY JoinedConsistent
<1>5. StepOf(p)
    BY JoinStep
<1> HIDE DEF es
<1>6. /\ LineOf(es, p) = LineOf(entries, p) \cup {t}
      /\ HoldersOf(es, p) = HoldersOf(entries, p)
    <2>1. es[e].status = "WAITING" /\ es[e].status \notin HoldingEntry
        BY <1>3 DEF HoldingEntry
    <2>2. Waiting(es, p) = Waiting(entries, p) \cup {e}
        BY <1>2, <1>3, <2>1 DEF Waiting
    <2>3. Holding(es, p) = Holding(entries, p)
        BY <1>2, <1>3, <2>1 DEF Holding
    <2>4. e[2] = t
        OBVIOUS
    <2> HIDE DEF e
    <2>5. LineOf(es, p) = LineOf(entries, p) \cup {t}
        BY <2>2, <2>4 DEF LineOf
    <2> QED BY <2>3, <2>5 DEF HoldersOf
<1>7. Sale!Settle(p, LineOf(es, p), HoldersOf(es, p), Cardinality(SoldOf(units, p)))
    BY <1>1, <1>2, <1>3, <1>4, <1>5, PromoteSettles
<1>8. ~ (Cardinality(UnitsOf(p)) > 0 /\ Cardinality(SoldOf(units, p)) = Cardinality(UnitsOf(p)))
    BY <1>2, SoldOutIsAllSold
<1>9. ~ Sale!SoldOut(p, SoldCount[p])
    BY <1>8, SoldMapped DEF Sale!SoldOut
<1>10. Sale!Settle(p, Tickets({"WAITING"})[p] \cup {t}, Tickets(HoldingEntry)[p], SoldCount[p])
    BY <1>6, <1>7, Mapped, SoldMapped
<1> QED BY <1>2, <1>9, <1>10 DEF Sale!Arrive, SoldCount

(* Leaving the line is what it is in the sale.                             *)
LEMMA SaleGivesUp ==
    ASSUME IInv, NEW e \in DOMAIN entries, LeaveWaiting(e)
    PROVE  Sale!GiveUp(e[1], e[2])
<1> DEFINE p == e[1]
           t == e[2]
<1>1. /\ entries[e].status = "WAITING" /\ units' = units /\ nextTicket' = nextTicket
    BY DEF LeaveWaiting
<1>2. EntriesOK(entries) /\ p \in Products /\ e = <<p, t>>
    BY DEF IInv, TypeOK, EntriesOK, EntryIds
<1>3. EntryMoved(entries, e, "CANCELLED", entries')
    BY <1>2, MarkEntryMoves DEF LeaveWaiting
<1>4. \A f \in DOMAIN entries : f = <<f[1], f[2]>>
    BY <1>2 DEF EntriesOK, EntryIds
<1>5. \A q \in Products : /\ Waiting(entries', q) = Waiting(entries, q) \ {e}
                          /\ Holding(entries', q) = Holding(entries, q)
    BY <1>1, <1>3 DEF EntryMoved, Waiting, Holding, HoldingEntry
<1>6. e \in Waiting(entries, p)
    BY <1>1 DEF Waiting
<1>7. \A f \in Waiting(entries, p) : f # e => f[2] # t
    BY <1>2, <1>4 DEF Waiting
<1>8. LineOf(entries', p) = LineOf(entries, p) \ {t}
    BY <1>2, <1>5, <1>6, <1>7 DEF LineOf
<1>9. \A q \in Products : /\ q # p => LineOf(entries', q) = LineOf(entries, q)
                          /\ HoldersOf(entries', q) = HoldersOf(entries, q)
    BY <1>5 DEF LineOf, HoldersOf, Waiting
<1>10. Tickets({"WAITING"})' = [Tickets({"WAITING"}) EXCEPT ![p] = @ \ {t}]
    <2> HIDE DEF p, t
    <2>1. \A q \in Products : LineOf(entries', q) = IF q = p THEN LineOf(entries, p) \ {t}
                                                  ELSE LineOf(entries, q)
        BY <1>8, <1>9
    <2>2. Tickets({"WAITING"})[p] = LineOf(entries, p)
        BY <1>2, Mapped
    <2> QED BY <2>1, <2>2, Mapped
<1>11. Tickets(HoldingEntry)' = Tickets(HoldingEntry)
    BY <1>9, Mapped
<1>12. t \in Tickets({"WAITING"})[p]
    BY <1>2, <1>6, Mapped DEF LineOf
<1> QED BY <1>1, <1>10, <1>11, <1>12 DEF Sale!GiveUp

(* The three ways a right ends without a sale return the piece.            *)
LEMMA SaleReturns ==
    ASSUME IInv, NEW e \in DOMAIN grants, NEW lag \in Lags,
           NEW from, NEW to \in EntryStatus, NEW gfrom \in LiveGrant,
           NEW gto \in {"EXPIRED", "FAILED", "CANCELLED"},
           entries[e].status = from, grants[e].status = gfrom, <<to, gto>> \in StatusPairs,
           Promote(MarkEntryStatus(entries, e, from, to),
                   UpdateGrantStatus(grants, e, gfrom, gto),
                   MarkUnitAvailable(units, grants[e].unit), e[1], lag, {e}),
           StepOf(e[1]), nextTicket' = nextTicket
    PROVE  Sale!Return(e[1], e[2])
<1> DEFINE p == e[1]
           t == e[2]
           es == MarkEntryStatus(entries, e, from, to)
           gs == UpdateGrantStatus(grants, e, gfrom, gto)
           us == MarkUnitAvailable(units, grants[e].unit)
<1>1. Promote(es, gs, us, p, lag, {e}) /\ StepOf(p)
    OBVIOUS
<1>2. /\ Consistent(es, gs, us)
      /\ EntryMoved(entries, e, to, es)
      /\ UnitMoved(units, grants[e].unit, "AVAILABLE", None, us)
    BY ReleasedConsistent
<1> HIDE DEF es, gs, us
<1>3. /\ e \in DOMAIN entries /\ p \in Products /\ e = <<p, t>>
      /\ entries[e].status \in HoldingEntry
      /\ grants[e].unit \in Units /\ ProductOf[grants[e].unit] = p
      /\ units[grants[e].unit].status = "RESERVED"
    BY IInvConsistent, HeldRight DEF HoldingEntry, EntryIds
<1>4. \A f \in DOMAIN entries : f = <<f[1], f[2]>>
    BY DEF IInv, TypeOK, EntriesOK, EntryIds
<1>5. to \notin HoldingEntry /\ to # "WAITING" /\ entries[e].status # "WAITING"
    BY <1>3 DEF StatusPairs, HoldingEntry
<1>6. Waiting(es, p) = Waiting(entries, p) /\ Holding(es, p) = Holding(entries, p) \ {e}
    BY <1>2, <1>5 DEF EntryMoved, Waiting, Holding
<1>7. e \in Holding(entries, p) /\ \A f \in Holding(entries, p) : f # e => f[2] # t
    BY <1>3, <1>4 DEF Holding
<1>8. LineOf(es, p) = LineOf(entries, p) /\ HoldersOf(es, p) = HoldersOf(entries, p) \ {t}
    BY <1>6, <1>7 DEF LineOf, HoldersOf
<1>9. SoldOf(us, p) = SoldOf(units, p) /\ ~ AllSold(us, p)
    BY <1>2, <1>3 DEF UnitMoved, SoldOf, WithUnitStatus, AllSold, UnitsOf
<1>10. Sale!Settle(p, LineOf(es, p), HoldersOf(es, p), Cardinality(SoldOf(us, p)))
    BY <1>1, <1>2, <1>3, <1>9, PromoteSettles DEF EntryMoved
<1>11. Sale!Settle(p, Tickets({"WAITING"})[p], Tickets(HoldingEntry)[p] \ {t}, SoldCount[p])
    BY <1>3, <1>8, <1>9, <1>10, Mapped, SoldMapped
<1>12. t \in Tickets(HoldingEntry)[p]
    BY <1>3, <1>7, Mapped DEF HoldersOf
<1> QED BY <1>11, <1>12 DEF Sale!Return, SoldCount

(* The sale, which closes the line when it is the last.                    *)
LEMMA SaleBuys ==
    ASSUME IInv, NEW e \in DOMAIN grants, NEW k \in Keys, PaymentSucceeds(e, k)
    PROVE  Sale!Buy(e[1], e[2])
<1> DEFINE p == e[1]
           t == e[2]
           u == grants[e].unit
           es == MarkEntryStatus(entries, e, "CHECKOUT_PENDING", "PURCHASED")
           Closed == IF AllSold(units', p) THEN Waiting(es, p) ELSE {}
           L == LineOf(entries, p)
           H == HoldersOf(entries, p) \ {t}
           s == Cardinality(SoldOf(units, p)) + 1
           free == Cardinality(UnitsOf(p)) - Cardinality(H) - s
<1>1. Consistent(entries, grants, units) /\ NoIdle(entries, units) /\ TypeOK
    BY IInvConsistent
<1>2. grants[e].status = "CHECKOUT_PENDING" /\ nextTicket' = nextTicket
    BY DEF PaymentSucceeds, RecordAttempt
<1>3. /\ e \in DOMAIN entries /\ p \in Products /\ e = <<p, t>>
      /\ entries[e].status = "CHECKOUT_PENDING"
      /\ u \in Units /\ ProductOf[u] = p /\ units[u].status = "RESERVED"
    BY <1>1, <1>2, HeldRight DEF LiveGrant, EntryIds
<1>4. EntryMoved(entries, e, "PURCHASED", es) /\ EntriesOK(es)
    BY <1>1, <1>3, Statuses, MarkEntryMoves, MarkEntryTypes DEF TypeOK
<1>5. UnitMoved(units, u, "SOLD", units[u].grant, units')
    BY <1>1, <1>3, MarkUnitMoves DEF PaymentSucceeds, TypeOK
<1>6. entries' = [f \in DOMAIN es |->
                    IF f \in Closed THEN [es[f] EXCEPT !.status = "SOLD_OUT"] ELSE es[f]]
    BY DEF PaymentSucceeds, CloseQueueIfSoldOut
<1>7. StepOf(p)
    BY PayStep
<1> HIDE DEF es
<1>8. Waiting(es, p) = Waiting(entries, p) /\ Holding(es, p) = Holding(entries, p) \ {e}
    BY <1>3, <1>4 DEF EntryMoved, Waiting, Holding, HoldingEntry
<1>9. \A f \in DOMAIN entries : f = <<f[1], f[2]>>
    BY <1>1 DEF TypeOK, EntriesOK, EntryIds
<1>10. e \in Holding(entries, p) /\ \A f \in Holding(entries, p) : f # e => f[2] # t
    BY <1>3, <1>9 DEF Holding, HoldingEntry
<1>11. \A f \in Closed : f \in DOMAIN es /\ es[f].status = "WAITING"
    BY DEF Waiting
<1>12. Closed = IF AllSold(units', p) THEN Waiting(es, p) ELSE {}
    OBVIOUS
<1> HIDE DEF Closed
<1>13. ASSUME NEW f \in DOMAIN es
       PROVE  \/ f \notin Closed /\ entries'[f] = es[f]
              \/ f \in Closed /\ entries'[f].status = "SOLD_OUT"
    <2>1. es[f] \in [user : Users, status : EntryStatus]
        BY <1>4 DEF EntriesOK
    <2> QED BY <1>6, <2>1
<1>14. DOMAIN entries' = DOMAIN es
    BY <1>6
<1>15. Waiting(entries', p) = IF AllSold(units', p) THEN {} ELSE Waiting(es, p)
    BY <1>12, <1>13, <1>14 DEF Waiting
<1>16. Holding(entries', p) = Holding(es, p)
    BY <1>11, <1>13, <1>14 DEF Holding, HoldingEntry
<1>17. LineOf(entries', p) = IF AllSold(units', p) THEN {} ELSE L
    BY <1>8, <1>15 DEF LineOf
<1>18. HoldersOf(entries', p) = H /\ t \in HoldersOf(entries, p)
    BY <1>8, <1>10, <1>16 DEF HoldersOf
<1>19. Cardinality(SoldOf(units', p)) = s
    <2>1. SoldOf(units', p) = SoldOf(units, p) \cup {u} /\ u \notin SoldOf(units, p)
        BY <1>3, <1>5 DEF UnitMoved, SoldOf, WithUnitStatus, UnitsOf
    <2> QED BY <1>1, <1>3, <2>1, FreeUnits, FS_AddElement
<1>20. /\ free = Cardinality(Available(units, p))
       /\ free \in Nat /\ (free = 0 <=> Available(units, p) = {})
    <2>1. /\ Cardinality(UnitsOf(p)) - Cardinality(HoldersOf(entries, p))
                - Cardinality(SoldOf(units, p)) = Cardinality(Available(units, p))
          /\ Cardinality(UnitsOf(p)) \in Nat /\ Cardinality(SoldOf(units, p)) \in Nat
          /\ IsFiniteSet(Available(units, p)) /\ Cardinality(Available(units, p)) \in Nat
        BY <1>1, <1>3, FreeUnits
    <2>2. IsFiniteSet(HoldersOf(entries, p))
        BY <1>1, <1>3, ReservedAreHeld
    <2>3. Cardinality(H) = Cardinality(HoldersOf(entries, p)) - 1
        BY <1>18, <2>2, FS_RemoveElement
    <2>4. Cardinality(HoldersOf(entries, p)) \in Nat
        BY <2>2, FS_CardinalityType
    <2>5. free = Cardinality(Available(units, p))
        BY <2>1, <2>3, <2>4
    <2> QED BY <2>1, <2>5, FS_EmptySet
<1>21. Front(L, free) = {}
    <2>1. CASE Waiting(entries, p) = {}
        BY <2>1 DEF Front, LineOf
    <2>2. CASE Available(units, p) = {}
        <3>1. ASSUME NEW v \in L PROVE Cardinality({w \in L : w < v}) \in Nat
            <4>1. IsFiniteSet(L)
                BY <1>1, <1>3, TicketSets, TicketsCount DEF TypeOK, LineOf
            <4>2. {w \in L : w < v} \in SUBSET L
                OBVIOUS
            <4> QED BY <4>1, <4>2, FS_Subset, FS_CardinalityType
        <3> HIDE DEF L
        <3> QED BY <1>20, <2>2, <3>1 DEF Front
    <2> QED BY <1>1, <1>3, <2>1, <2>2 DEF NoIdle
<1>22. AllSold(units', p) <=> Cardinality(UnitsOf(p)) > 0 /\ s = Cardinality(UnitsOf(p))
    BY <1>3, <1>19, SoldOutIsAllSold
<1>23. \A q \in Products : q # p =>
          /\ LineOf(entries', q) = LineOf(entries, q)
          /\ HoldersOf(entries', q) = HoldersOf(entries, q)
          /\ SoldOf(units', q) = SoldOf(units, q)
    BY <1>4, <1>7, <1>14, OthersStay DEF EntryMoved
<1> HIDE DEF L, H, s
<1>24. SaleRows(p, IF AllSold(units', p) THEN {} ELSE L \ Front(L, free),
                H \cup Front(L, free), s)
    BY <1>17, <1>18, <1>19, <1>21, <1>23 DEF SaleRows
<1>25. Sale!Settle(p, L, H, s)
    BY <1>3, <1>22, <1>24, SaleSettles
<1>26. Sale!Settle(p, Tickets({"WAITING"})[p], Tickets(HoldingEntry)[p] \ {t}, SoldCount[p] + 1)
    BY <1>3, <1>25, Mapped, SoldMapped DEF L, H, s
<1> QED BY <1>2, <1>3, <1>18, <1>26, Mapped DEF Sale!Buy, SoldCount

(* What the sale does not see: a checkout that starts, and time.           *)
LEMMA SaleStays ==
    ASSUME IInv, \/ \E e \in DOMAIN grants : StartCheckout(e)
                 \/ Tick
                 \/ UNCHANGED vars
    PROVE  UNCHANGED Sale!vars
<1>1. nextTicket' = nextTicket /\ units' = units
    BY DEF StartCheckout, Tick, vars
<1>2. \A q \in Products : /\ Waiting(entries', q) = Waiting(entries, q)
                          /\ Holding(entries', q) = Holding(entries, q)
    <2>1. CASE \E e \in DOMAIN grants : StartCheckout(e)
        <3>1. PICK e \in DOMAIN grants : StartCheckout(e)
            BY <2>1
        <3>2. e \in DOMAIN entries /\ entries[e].status = "GRANTED"
            BY <3>1 DEF IInv, TypeOK, GrantsOK, StartCheckout
        <3>3. EntryMoved(entries, e, "CHECKOUT_PENDING", entries')
            BY <3>1, <3>2, MarkEntryMoves DEF StartCheckout, IInv, TypeOK
        <3> QED BY <3>2, <3>3 DEF EntryMoved, Waiting, Holding, HoldingEntry
    <2>2. CASE Tick \/ UNCHANGED vars
        BY <2>2 DEF Tick, vars
    <2> QED BY <2>1, <2>2
<1>3. /\ Tickets({"WAITING"})' = Tickets({"WAITING"})
      /\ Tickets(HoldingEntry)' = Tickets(HoldingEntry)
    BY <1>2, Mapped DEF LineOf, HoldersOf
<1> QED BY <1>1, <1>3 DEF Sale!vars

(* Before anything happened nothing is sold and nobody is there.           *)
LEMMA SaleInit == Init => Sale!Init
<1> SUFFICES ASSUME Init PROVE Sale!Init
    OBVIOUS
<1>1. \A q : Waiting(entries, q) = {} /\ Holding(entries, q) = {}
    BY DEF Init, Waiting, Holding
<1>2. /\ Tickets({"WAITING"}) = [q \in Products |-> {}]
      /\ Tickets(HoldingEntry) = [q \in Products |-> {}]
    <2>1. \A q : LineOf(entries, q) = {} /\ HoldersOf(entries, q) = {}
        BY <1>1 DEF LineOf, HoldersOf
    <2> QED BY <2>1, Mapped
<1>3. \A q \in Products : {u \in UnitsOf(q) : units[u].status = "SOLD"} = {}
    BY DEF Init, UnitsOf
<1>4. SoldCount = [q \in Products |-> 0]
    BY <1>3, FS_EmptySet DEF SoldCount
<1> QED BY <1>2, <1>4 DEF Init, Sale!Init, SoldCount

(* Every transaction is a step of the sale, or invisible to it.            *)
LEMMA SaleNext == IInv /\ [Next]_vars => [Sale!Next]_Sale!vars
<1> SUFFICES ASSUME IInv, [Next]_vars PROVE [Sale!Next]_Sale!vars
    OBVIOUS
<1>1. TypeOK /\ \A e \in DOMAIN grants : e \in DOMAIN entries
    BY DEF IInv, TypeOK, GrantsOK
<1>2. \A e \in DOMAIN entries : e[1] \in Products
    BY <1>1 DEF TypeOK, EntriesOK, EntryIds
<1>3. ASSUME NEW u \in Users, NEW p \in Products, JoinQueue(u, p)
      PROVE  Sale!Next
    BY <1>3, SaleArrives DEF Sale!Next
<1>4. ASSUME NEW e \in DOMAIN entries, LeaveWaiting(e)
      PROVE  Sale!Next
    <2>1. Sale!GiveUp(e[1], e[2])
        BY <1>4, SaleGivesUp
    <2> QED BY <1>2, <2>1 DEF Sale!Next, Sale!GiveUp
<1>5. ASSUME NEW e \in DOMAIN grants, Sale!Return(e[1], e[2]) \/ Sale!Buy(e[1], e[2])
      PROVE  Sale!Next
    BY <1>1, <1>2, <1>5 DEF Sale!Next, Sale!Return, Sale!Buy
<1>6. ASSUME NEW e \in DOMAIN entries, LeaveGranted(e)
      PROVE  Sale!Next
    <2>1. /\ e \in DOMAIN grants /\ grants[e].status = "ACTIVE" /\ entries[e].status = "GRANTED"
          /\ nextTicket' = nextTicket
        BY <1>6 DEF LeaveGranted
    <2>2. PICK lag \in Lags :
             Promote(MarkEntryStatus(entries, e, "GRANTED", "CANCELLED"),
                     UpdateGrantStatus(grants, e, "ACTIVE", "CANCELLED"),
                     MarkUnitAvailable(units, grants[e].unit), e[1], lag, {e})
        BY <1>6 DEF LeaveGranted
    <2>3. StepOf(e[1])
        BY <1>6, LeaveGrantedStep
    <2>4. /\ "CANCELLED" \in EntryStatus /\ "ACTIVE" \in LiveGrant
          /\ <<"CANCELLED", "CANCELLED">> \in StatusPairs
        BY DEF EntryStatus, LiveGrant, StatusPairs
    <2>5. Sale!Return(e[1], e[2])
        BY <2>1, <2>2, <2>3, <2>4, SaleReturns
    <2> QED BY <1>5, <2>1, <2>5
<1>7. ASSUME NEW e \in DOMAIN grants, NEW k \in Keys, PaymentSucceeds(e, k)
      PROVE  Sale!Next
    BY <1>5, <1>7, SaleBuys
<1>8. ASSUME NEW e \in DOMAIN grants, NEW k \in Keys, NEW r \in {"failure", "timeout"},
             PaymentFails(e, k, r)
      PROVE  Sale!Next
    <2>1. grants[e].status = "CHECKOUT_PENDING" /\ nextTicket' = nextTicket
        BY <1>8 DEF PaymentFails, RecordAttempt
    <2>2. PICK lag \in Lags :
             Promote(MarkEntryStatus(entries, e, "CHECKOUT_PENDING", "PAYMENT_FAILED"),
                     UpdateGrantStatus(grants, e, "CHECKOUT_PENDING", "FAILED"),
                     MarkUnitAvailable(units, grants[e].unit), e[1], lag, {e})
        BY <1>8 DEF PaymentFails
    <2>3. StepOf(e[1])
        BY <1>8, FailStep
    <2>4. /\ "PAYMENT_FAILED" \in EntryStatus /\ "CHECKOUT_PENDING" \in LiveGrant
          /\ <<"PAYMENT_FAILED", "FAILED">> \in StatusPairs
        BY DEF EntryStatus, LiveGrant, StatusPairs
    <2>5. entries[e].status = "CHECKOUT_PENDING"
        BY <2>1, <2>4, IInvConsistent, HeldRight
    <2>6. Sale!Return(e[1], e[2])
        BY <2>1, <2>2, <2>3, <2>4, <2>5, SaleReturns
    <2> QED BY <1>5, <2>6
<1>9. ASSUME NEW e \in DOMAIN grants, Expire(e)
      PROVE  Sale!Next
    <2>1. grants[e].status = "ACTIVE" /\ nextTicket' = nextTicket
        BY <1>9 DEF Expire
    <2>2. grants[e].age \in Lags
        BY <1>1 DEF TypeOK, GrantsOK
    <2>3. PICK lag \in Lags :
             Promote(MarkEntryStatus(entries, e, "GRANTED", "EXPIRED"),
                     UpdateGrantStatus(grants, e, "ACTIVE", "EXPIRED"),
                     MarkUnitAvailable(units, grants[e].unit), e[1], lag, {e})
        BY <1>9, <2>2, ConstantsAssumption DEF Expire, Lags
    <2>4. StepOf(e[1])
        BY <1>9, ExpireStep
    <2>5. /\ "EXPIRED" \in EntryStatus /\ "ACTIVE" \in LiveGrant
          /\ <<"EXPIRED", "EXPIRED">> \in StatusPairs
        BY DEF EntryStatus, LiveGrant, StatusPairs
    <2>6. entries[e].status = "GRANTED"
        BY <2>1, <2>5, IInvConsistent, HeldRight
    <2>7. Sale!Return(e[1], e[2])
        BY <2>1, <2>3, <2>4, <2>5, <2>6, SaleReturns
    <2> QED BY <1>5, <2>7
<1>10. CASE \/ \E e \in DOMAIN grants : StartCheckout(e)
            \/ Tick
            \/ UNCHANGED vars
    BY <1>10, SaleStays
<1> QED BY <1>3, <1>4, <1>6, <1>7, <1>8, <1>9, <1>10 DEF Next

(* FairQueue implements FifoSale: whatever the units, the rights, the      *)
(* clock and the payments do, and however many of each there are, buyers   *)
(* see a sale in the order of their tickets.                               *)
THEOREM QueueIsFifoSale == Spec => ImplementsSale
<1>1. Init => Sale!Init
    BY SaleInit
<1>2. IInv /\ [Next]_vars => [Sale!Next]_Sale!vars
    BY SaleNext
<1> QED BY <1>1, <1>2, Inductive, PTL DEF Spec, ImplementsSale, Sale!Spec
=============================================================================
