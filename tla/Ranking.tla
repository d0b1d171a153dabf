------------------------------ MODULE Ranking ------------------------------
(***************************************************************************)
(* The position of an element in a finite set whose elements carry         *)
(* distinct numbers: ORDER BY, as promotion uses it on both of its sides,  *)
(* the waiting entries by ticket and the available units by id.            *)
(***************************************************************************)
EXTENDS Integers, FiniteSets, Functions, FiniteSetTheorems, TLAPS

Behind(key, S, x) == {y \in S : key[y] < key[x]}
Rank(key, S, x) == Cardinality(Behind(key, S, x))

(* What the lemmas assume of a set and its numbering. *)
Numbered(key, S) ==
    /\ IsFiniteSet(S)
    /\ \A x \in S : key[x] \in Nat
    /\ \A x, y \in S : key[x] = key[y] => x = y

(* A rank is a number below the size of the set. *)
LEMMA RankBound ==
    ASSUME NEW key, NEW S, Numbered(key, S), NEW x \in S
    PROVE  Rank(key, S, x) \in 0 .. Cardinality(S) - 1
<1> DEFINE B == Behind(key, S, x)
<1>1. /\ B \in SUBSET S /\ x \notin B /\ IsFiniteSet(S)
    BY DEF Behind, Numbered
<1>2. IsFiniteSet(B) /\ Cardinality(B) <= Cardinality(S) /\ B # S
    /\ (Cardinality(S) = Cardinality(B) => S = B)
    BY <1>1, FS_Subset
<1>3. Cardinality(B) \in Nat /\ Cardinality(S) \in Nat
    BY <1>1, <1>2, FS_CardinalityType
<1> QED BY <1>2, <1>3 DEF Rank

(* Ranks are ordered as the numbers are. *)
LEMMA RankMonotone ==
    ASSUME NEW key, NEW S, Numbered(key, S), NEW x \in S, NEW y \in S, key[x] < key[y]
    PROVE  Rank(key, S, x) < Rank(key, S, y)
<1> DEFINE B == Behind(key, S, x)
           C == Behind(key, S, y)
<1>1. /\ C \in SUBSET S /\ IsFiniteSet(S)
    BY DEF Behind, Numbered
<1>2. IsFiniteSet(C)
    BY <1>1, FS_Subset
<1>3. B \in SUBSET C /\ x \in C /\ x \notin B
    BY DEF Behind, Numbered
<1>4. IsFiniteSet(B) /\ Cardinality(B) <= Cardinality(C)
    /\ (Cardinality(C) = Cardinality(B) => C = B)
    BY <1>2, <1>3, FS_Subset
<1>5. Cardinality(B) \in Nat /\ Cardinality(C) \in Nat
    BY <1>2, <1>4, FS_CardinalityType
<1> QED BY <1>3, <1>4, <1>5 DEF Rank

(* No two elements have the same rank. *)
LEMMA RankInjective ==
    ASSUME NEW key, NEW S, Numbered(key, S), NEW x \in S, NEW y \in S,
           Rank(key, S, x) = Rank(key, S, y)
    PROVE  x = y
<1>1. Rank(key, S, x) \in Nat /\ Rank(key, S, y) \in Nat
    BY RankBound, FS_CardinalityType DEF Numbered
<1>2. ~(key[x] < key[y]) /\ ~(key[y] < key[x])
    BY <1>1, RankMonotone
<1> QED BY <1>2 DEF Numbered

(* Every number below the size of the set is somebody's rank. *)
LEMMA RankOnto ==
    ASSUME NEW key, NEW S, Numbered(key, S), NEW n \in 0 .. Cardinality(S) - 1
    PROVE  \E x \in S : Rank(key, S, x) = n
<1> DEFINE T == 0 .. Cardinality(S) - 1
           r == [x \in S |-> Rank(key, S, x)]
<1>1. IsFiniteSet(S) /\ Cardinality(S) \in Nat
    BY FS_CardinalityType DEF Numbered
<1>2. IsFiniteSet(T) /\ Cardinality(T) = Cardinality(S)
    BY <1>1, FS_Interval
<1>3. r \in Injection(S, T)
    <2>1. r \in [S -> T]
        BY RankBound
    <2>2. \A x, y \in S : r[x] = r[y] => x = y
        BY RankInjective
    <2> QED BY <2>1, <2>2 DEF Injection, IsInjective
<1>4. r \in Surjection(S, T)
    BY <1>1, <1>2, <1>3, FS_Injection
<1>5. \E x \in S : r[x] = n
    BY <1>4 DEF Surjection
<1> QED BY <1>5
=============================================================================
