---------------------------- MODULE SharedFacts -----------------------------
(***************************************************************************)
(* What the proofs of several components rest on: least and greatest       *)
(* elements of sets of naturals, wherever the code takes a minimum, a      *)
(* maximum, a first or a last one; the places that the elements of a       *)
(* finite set have in a total order, wherever it sorts; and what           *)
(* build_public_snapshot makes of the rows of an offline file or of the    *)
(* store, for any number of rows and revisions.                            *)
(***************************************************************************)
EXTENDS CanonicalSnapshot, Integers, FiniteSetTheorems, WellFoundedInduction, TLAPS

(* A non-empty set of naturals has a least element. *)
LEMMA LeastNatural ==
  ASSUME NEW T \in SUBSET Nat, T # {}
  PROVE  \E x \in T : \A y \in T : x <= y
<1>1. IsWellFoundedOn(OpToRel(<, Nat), Nat)
  BY NatLessThanWellFounded
<1>2. PICK x \in T : \A y \in T : ~(<<y, x>> \in OpToRel(<, Nat))
  BY <1>1, WFMin
<1>3. \A y \in T : ~(y < x)
  BY <1>2 DEF OpToRel
<1> QED BY <1>3

(* One that is bounded has a greatest element: its least upper bound. *)
LEMMA GreatestNatural ==
  ASSUME NEW T \in SUBSET Nat, T # {}, NEW u \in Nat, \A y \in T : y <= u
  PROVE  \E x \in T : \A y \in T : y <= x
<1> DEFINE Bounds == {v \in Nat : \A y \in T : y <= v}
<1>1. Bounds \in SUBSET Nat /\ Bounds # {}
  OBVIOUS
<1>2. PICK x \in Bounds : \A v \in Bounds : x <= v
  BY <1>1, LeastNatural
<1>3. x \in T
  <2> SUFFICES ASSUME x \notin T PROVE FALSE OBVIOUS
  <2>1. \A y \in T : y \in Nat /\ y <= x /\ y # x
    BY <1>2
  <2>2. x \in Nat /\ x # 0
    <3>1. PICK y : y \in T
      OBVIOUS
    <3> QED BY <1>2, <2>1, <3>1
  <2>3. \A y \in T : y <= x - 1
    BY <2>1, <2>2
  <2>4. x - 1 \in Bounds
    BY <2>2, <2>3
  <2> QED BY <1>2, <2>2, <2>4
<1> QED BY <1>2, <1>3

(* What Max gives on a bounded set. *)
LEMMA MaxFacts ==
  ASSUME NEW S \in SUBSET Nat, S # {}, NEW u \in Nat, \A x \in S : x <= u
  PROVE  Max(S) \in S /\ \A y \in S : y <= Max(S)
<1>1. PICK x \in S : \A y \in S : y <= x
  BY GreatestNatural
<1>2. \E z \in S : \A y \in S : z >= y
  BY <1>1
<1>3. Max(S) \in S /\ \A y \in S : Max(S) >= y
  BY <1>2 DEF Max
<1>4. Max(S) \in Nat /\ \A y \in S : y \in Nat
  BY <1>3
<1> QED BY <1>3, <1>4

(* What Min gives. *)
LEMMA MinFacts ==
  ASSUME NEW S \in SUBSET Nat, S # {}
  PROVE  Min(S) \in S /\ \A y \in S : Min(S) <= y
<1>1. \E x \in S : \A y \in S : x <= y
  BY LeastNatural
<1> QED BY <1>1 DEF Min

(* The numbers up to n. *)
LEMMA UpToFacts == \A n \in Nat : IsFiniteSet(1..n) /\ Cardinality(1..n) = n
BY FS_Interval

(* U[i] is the set of those that come no later than i in a total order of  *)
(* S.  Counting it numbers the elements of S from 1 on, one by one.        *)
LEMMA Ranks ==
  ASSUME NEW S, IsFiniteSet(S), NEW U \in [S -> SUBSET S],
         \A i \in S : i \in U[i],
         \A i, j \in S : i # j => (i \in U[j] <=> j \notin U[i]),
         \A i, j \in S : i \in U[j] => U[i] \subseteq U[j]
  PROVE  /\ Cardinality(S) \in Nat
         /\ \E e \in [1..Cardinality(S) -> S] :
              /\ \A i \in S : \E k \in 1..Cardinality(S) : e[k] = i
              /\ \A k \in 1..Cardinality(S) :
                   (CHOOSE i \in S : Cardinality(U[i]) = k) = e[k]
              /\ \A j, k \in 1..Cardinality(S) :
                   j < k => e[j] # e[k] /\ e[j] \in U[e[k]]
<1>0. PICK n : n = Cardinality(S)
  OBVIOUS
<1>1. n \in Nat /\ IsFiniteSet(1..n) /\ Cardinality(1..n) = n
  BY <1>0, FS_CardinalityType, UpToFacts
<1>2. ASSUME NEW i \in S
      PROVE  IsFiniteSet(U[i]) /\ Cardinality(U[i]) \in 1..n
  <2>1. U[i] \in SUBSET S /\ U[i] # {}
    OBVIOUS
  <2>2. IsFiniteSet(U[i]) /\ Cardinality(U[i]) <= n
    BY <1>0, <2>1, FS_Subset
  <2>3. Cardinality(U[i]) \in Nat /\ Cardinality(U[i]) # 0
    BY <2>1, <2>2, FS_CardinalityType, FS_EmptySet
  <2> QED BY <1>1, <2>2, <2>3
<1>3. ASSUME NEW i \in S, NEW j \in S, i \in U[j], i # j
      PROVE  Cardinality(U[i]) < Cardinality(U[j])
  <2>1. U[i] \in SUBSET U[j] /\ IsFiniteSet(U[j]) /\ U[i] # U[j]
    BY <1>2, <1>3
  <2>2. Cardinality(U[i]) <= Cardinality(U[j]) /\ Cardinality(U[i]) # Cardinality(U[j])
    BY <2>1, FS_Subset
  <2>3. Cardinality(U[i]) \in Nat /\ Cardinality(U[j]) \in Nat
    BY <1>1, <1>2
  <2> QED BY <2>2, <2>3
<1> DEFINE place == [i \in S |-> Cardinality(U[i])]
<1>4. place \in [S -> 1..n]
  BY <1>2
<1>5. \A i, j \in S : place[i] = place[j] => i = j
  <2> SUFFICES ASSUME NEW i \in S, NEW j \in S, i # j PROVE place[i] # place[j]
    OBVIOUS
  <2>1. i \in U[j] \/ j \in U[i]
    OBVIOUS
  <2>2. Cardinality(U[i]) \in Nat /\ Cardinality(U[j]) \in Nat
    BY <1>1, <1>2
  <2>3. Cardinality(U[i]) # Cardinality(U[j])
    BY <1>3, <2>1, <2>2
  <2> QED BY <2>3
<1> HIDE DEF place
<1>6. place \in Injection(S, 1..n)
  BY <1>4, <1>5 DEF Injection, IsInjective
<1>7. place \in Surjection(S, 1..n)
  BY <1>0, <1>1, <1>6, FS_Injection
<1>8. \A k \in 1..n : \E i \in S : place[i] = k
  BY <1>7 DEF Surjection
<1> DEFINE e == [k \in 1..n |-> CHOOSE i \in S : Cardinality(U[i]) = k]
<1>9. ASSUME NEW k \in 1..n PROVE e[k] \in S /\ Cardinality(U[e[k]]) = k
  <2>1. \E i \in S : Cardinality(U[i]) = k
    BY <1>8 DEF place
  <2> QED BY <2>1
<1>10. ASSUME NEW i \in S PROVE \E k \in 1..n : e[k] = i
  <2>1. PICK k : k = Cardinality(U[i]) /\ k \in 1..n
    BY <1>2
  <2>2. place[e[k]] = place[i] /\ e[k] \in S
    BY <1>9, <2>1 DEF place
  <2>3. e[k] = i
    BY <1>5, <2>2
  <2> QED BY <2>1, <2>3
<1>11. ASSUME NEW j \in 1..n, NEW k \in 1..n, j < k
       PROVE  e[j] # e[k] /\ e[j] \in U[e[k]]
  <2>1. e[j] \in S /\ e[k] \in S /\ Cardinality(U[e[j]]) = j /\ Cardinality(U[e[k]]) = k
    BY <1>9
  <2>2. e[j] # e[k] /\ ~(Cardinality(U[e[k]]) < Cardinality(U[e[j]]))
    BY <1>1, <1>11, <2>1
  <2>3. e[k] \notin U[e[j]]
    BY <1>3, <2>1, <2>2
  <2> QED BY <2>1, <2>2, <2>3
<1>12. e \in [1..n -> S] /\ \A k \in 1..n : (CHOOSE i \in S : Cardinality(U[i]) = k) = e[k]
  BY <1>9
<1> HIDE DEF e
<1> QED BY <1>0, <1>1, <1>10, <1>11, <1>12

(* i comes before j when its first key is smaller, or its second key where *)
(* the first ones are equal.                                               *)
Precedes(T, R, i, j) == T[i] < T[j] \/ (T[i] = T[j] /\ R[i] < R[j])

(* Those that a stable sort by both keys puts no later than i.             *)
SortedUpTo(S, T, R, i) ==
  {j \in S : Precedes(T, R, j, i) \/ (~Precedes(T, R, i, j) /\ j <= i)}

(* A stable sort by two keys puts every position in one place, and the     *)
(* places are in the order of the keys.                                    *)
LEMMA StableSort ==
  ASSUME NEW S \in SUBSET Nat, IsFiniteSet(S), NEW T \in [S -> Nat], NEW R \in [S -> Nat]
  PROVE  /\ Cardinality(S) \in Nat
         /\ \E e \in [1..Cardinality(S) -> S] :
              /\ \A i \in S : \E k \in 1..Cardinality(S) : e[k] = i
              /\ \A k \in 1..Cardinality(S) :
                   (CHOOSE i \in S : Cardinality(SortedUpTo(S, T, R, i)) = k) = e[k]
              /\ \A j, k \in 1..Cardinality(S) :
                   j < k => e[j] # e[k] /\ ~Precedes(T, R, e[k], e[j])
<1> DEFINE U == [i \in S |-> SortedUpTo(S, T, R, i)]
<1>1. ASSUME NEW i \in S, NEW j \in S, NEW k \in S
      PROVE  /\ ~Precedes(T, R, i, i)
             /\ Precedes(T, R, i, j) => ~Precedes(T, R, j, i)
             /\ Precedes(T, R, i, j) /\ ~Precedes(T, R, k, j) => Precedes(T, R, i, k)
             /\ ~Precedes(T, R, j, i) /\ Precedes(T, R, j, k) => Precedes(T, R, i, k)
             /\ ~Precedes(T, R, j, i) /\ ~Precedes(T, R, k, j) => ~Precedes(T, R, k, i)
  <2>1. /\ T[i] \in Nat /\ T[j] \in Nat /\ T[k] \in Nat
        /\ R[i] \in Nat /\ R[j] \in Nat /\ R[k] \in Nat
    OBVIOUS
  <2>2. ~Precedes(T, R, i, i) /\ (Precedes(T, R, i, j) => ~Precedes(T, R, j, i))
    BY <2>1 DEF Precedes
  <2>3. Precedes(T, R, i, j) /\ ~Precedes(T, R, k, j) => Precedes(T, R, i, k)
    BY <2>1 DEF Precedes
  <2>4. ~Precedes(T, R, j, i) /\ Precedes(T, R, j, k) => Precedes(T, R, i, k)
    BY <2>1 DEF Precedes
  <2>5. ~Precedes(T, R, j, i) /\ ~Precedes(T, R, k, j) => ~Precedes(T, R, k, i)
    BY <2>1 DEF Precedes
  <2> QED BY <2>2, <2>3, <2>4, <2>5
<1>2. ASSUME NEW i \in S, NEW j \in S
      PROVE  i \in U[j] <=> (Precedes(T, R, i, j) \/ (~Precedes(T, R, j, i) /\ i <= j))
  BY DEF SortedUpTo
<1>3. U \in [S -> SUBSET S]
  BY DEF SortedUpTo
<1>4. \A i \in S : U[i] = SortedUpTo(S, T, R, i)
  OBVIOUS
<1> HIDE DEF U
<1>5. \A i \in S : i \in U[i]
  BY <1>1, <1>2
<1>6. \A i, j \in S : i # j => (i \in U[j] <=> j \notin U[i])
  BY <1>1, <1>2
<1>7. ASSUME NEW i \in S, NEW j \in S, i \in U[j] PROVE U[i] \subseteq U[j]
  <2> SUFFICES ASSUME NEW k \in U[i] PROVE k \in U[j]
    OBVIOUS
  <2>1. k \in S
    BY <1>3
  <2>2. Precedes(T, R, i, j) \/ (~Precedes(T, R, j, i) /\ i <= j)
    BY <1>2, <1>7
  <2>3. Precedes(T, R, k, i) \/ (~Precedes(T, R, i, k) /\ k <= i)
    BY <1>2, <2>1
  <2>4. CASE Precedes(T, R, i, j)
    BY <1>1, <1>2, <2>1, <2>3, <2>4
  <2>5. CASE ~Precedes(T, R, j, i) /\ i <= j /\ Precedes(T, R, k, i)
    BY <1>1, <1>2, <2>1, <2>5
  <2>6. CASE ~Precedes(T, R, j, i) /\ i <= j /\ ~Precedes(T, R, i, k) /\ k <= i
    <3>1. ~Precedes(T, R, j, k) /\ k <= j
      BY <1>1, <2>1, <2>6
    <3> QED BY <1>2, <2>1, <3>1
  <2> QED BY <2>2, <2>3, <2>4, <2>5, <2>6
<1>8. Cardinality(S) \in Nat /\ \E e \in [1..Cardinality(S) -> S] :
        /\ \A i \in S : \E k \in 1..Cardinality(S) : e[k] = i
        /\ \A k \in 1..Cardinality(S) : (CHOOSE i \in S : Cardinality(U[i]) = k) = e[k]
        /\ \A j, k \in 1..Cardinality(S) : j < k => e[j] # e[k] /\ e[j] \in U[e[k]]
  BY <1>3, <1>5, <1>6, <1>7, Ranks
<1>9. PICK e \in [1..Cardinality(S) -> S] :
        /\ \A i \in S : \E k \in 1..Cardinality(S) : e[k] = i
        /\ \A k \in 1..Cardinality(S) : (CHOOSE i \in S : Cardinality(U[i]) = k) = e[k]
        /\ \A j, k \in 1..Cardinality(S) : j < k => e[j] # e[k] /\ e[j] \in U[e[k]]
  BY <1>8
<1>10. \A k : (CHOOSE i \in S : Cardinality(U[i]) = k)
                = (CHOOSE i \in S : Cardinality(SortedUpTo(S, T, R, i)) = k)
  BY <1>4
<1>11. ASSUME NEW j \in 1..Cardinality(S), NEW k \in 1..Cardinality(S), j < k
       PROVE  e[j] # e[k] /\ ~Precedes(T, R, e[k], e[j])
  <2>1. e[j] \in S /\ e[k] \in S /\ e[j] # e[k] /\ e[j] \in U[e[k]]
    BY <1>9, <1>11
  <2>2. PICK a \in S, b \in S : a = e[j] /\ b = e[k]
    BY <2>1
  <2>3. ~Precedes(T, R, b, a)
    BY <1>1, <1>2, <2>1, <2>2
  <2> QED BY <2>1, <2>2, <2>3
<1>12. \A k \in 1..Cardinality(S) :
         (CHOOSE i \in S : Cardinality(SortedUpTo(S, T, R, i)) = k) = e[k]
  <2> SUFFICES ASSUME NEW k \in 1..Cardinality(S)
               PROVE  (CHOOSE i \in S : Cardinality(SortedUpTo(S, T, R, i)) = k) = e[k]
    OBVIOUS
  <2>1. (CHOOSE i \in S : Cardinality(U[i]) = k) = e[k]
    BY <1>9
  <2> QED BY <1>10, <2>1
<1>13. \A i \in S : \E k \in 1..Cardinality(S) : e[k] = i
  BY <1>9
<1> QED BY <1>8, <1>9, <1>11, <1>12, <1>13

----------------------------------------------------------------------------
(* The rows of a snapshot. *)

(* sorted() puts every row in one place, in the order of the keys. *)
LEMMA OrderedFacts ==
  ASSUME NEW rows, NEW P \in SUBSET Nat, IsFiniteSet(P),
         \A i \in P : rows[i].t \in Nat /\ rows[i].rev \in Nat
  PROVE  /\ Cardinality(P) \in Nat
         /\ \E e \in [1..Cardinality(P) -> P] :
              /\ Ordered(rows, P) = [k \in 1..Cardinality(P) |-> rows[e[k]]]
              /\ \A i \in P : \E k \in 1..Cardinality(P) : e[k] = i
              /\ \A j, k \in 1..Cardinality(P) :
                   j < k => e[j] # e[k] /\ ~Before(rows[e[k]], rows[e[j]])
<1> DEFINE T == [i \in P |-> rows[i].t]
           R == [i \in P |-> rows[i].rev]
           UpTo(i) == {j \in P : \/ Before(rows[j], rows[i])
                                 \/ ~Before(rows[i], rows[j]) /\ j <= i}
<1>1. T \in [P -> Nat] /\ R \in [P -> Nat]
  OBVIOUS
<1>2. \A i, j \in P : Precedes(T, R, i, j) <=> Before(rows[i], rows[j])
  BY DEF Precedes, Before
<1> HIDE DEF T, R
<1>3. \A i \in P : SortedUpTo(P, T, R, i) = UpTo(i)
  BY <1>2 DEF SortedUpTo
<1>4. Cardinality(P) \in Nat
  BY FS_CardinalityType
<1>5. PICK e \in [1..Cardinality(P) -> P] :
        /\ \A i \in P : \E k \in 1..Cardinality(P) : e[k] = i
        /\ \A k \in 1..Cardinality(P) :
             (CHOOSE i \in P : Cardinality(SortedUpTo(P, T, R, i)) = k) = e[k]
        /\ \A j, k \in 1..Cardinality(P) :
             j < k => e[j] # e[k] /\ ~Precedes(T, R, e[k], e[j])
  BY <1>1, StableSort
<1>6. Ordered(rows, P) =
        [k \in 1..Cardinality(P) |-> rows[CHOOSE i \in P : Cardinality(UpTo(i)) = k]]
  BY DEF Ordered
<1>7. ASSUME NEW k \in 1..Cardinality(P)
      PROVE  (CHOOSE i \in P : Cardinality(UpTo(i)) = k) = e[k]
  <2>1. (CHOOSE i \in P : Cardinality(SortedUpTo(P, T, R, i)) = k)
          = (CHOOSE i \in P : Cardinality(UpTo(i)) = k)
    BY <1>3
  <2> QED BY <1>5, <2>1
<1> HIDE DEF UpTo
<1>8. Ordered(rows, P) = [k \in 1..Cardinality(P) |-> rows[e[k]]]
  BY <1>6, <1>7
<1>9. \A j, k \in 1..Cardinality(P) :
        j < k => e[j] # e[k] /\ ~Before(rows[e[k]], rows[e[j]])
  BY <1>2, <1>5
<1> QED BY <1>4, <1>5, <1>8, <1>9

----------------------------------------------------------------------------
(* The rows of one candle.  g is the rows as sorted() leaves them.         *)

SortedRows(g) ==
  /\ \A k \in 1..Len(g) : g[k].rev \in Nat
  /\ \A j, k \in 1..Len(g) : j < k => g[j].rev <= g[k].rev

(* The originals are the first m rows. *)
OriginalsUpTo(g, m) == \A k \in 1..Len(g) : g[k].state = "ORIGINAL" <=> k <= m

LEMMA OriginalsFirst ==
  ASSUME NEW R, NEW g \in Seq(R), g # <<>>, SortedRows(g), HasLineage(g)
  PROVE  \E m \in 1..Len(g) : OriginalsUpTo(g, m)
<1>0. PICK n \in Nat : n = Len(g) /\ n >= 1 /\ DOMAIN g = 1..n
  OBVIOUS
<1> DEFINE T == {k \in 1..n : g[k].rev = 0}
<1>1. \A k \in 1..n : g[k].rev = 0 <=> g[k].state = "ORIGINAL"
  BY <1>0 DEF HasLineage
<1>2. 1 \in T /\ T \in SUBSET Nat /\ \A k \in T : k <= n
  BY <1>0, <1>1 DEF HasLineage
<1>3. PICK m \in T : \A k \in T : k <= m
  BY <1>0, <1>2, GreatestNatural
<1>4. ASSUME NEW k \in 1..n, k <= m PROVE g[k].rev = 0
  BY <1>0, <1>3, <1>4 DEF SortedRows
<1>5. ASSUME NEW k \in 1..n, g[k].rev = 0 PROVE k <= m
  BY <1>3, <1>5
<1> QED BY <1>0, <1>1, <1>3, <1>4, <1>5 DEF OriginalsUpTo

(* The hash of an original is that row, the hash of a correction all rows  *)
(* from the last original on.                                              *)
LEMMA Hashes ==
  ASSUME NEW R, NEW g \in Seq(R), NEW m \in 1..Len(g), OriginalsUpTo(g, m)
  PROVE  /\ \A k \in 1..m : BarHash(g, k) = <<g[k]>>
         /\ \A k \in (m + 1)..Len(g) : Len(BarHash(g, k)) = k - m + 1
<1>0. PICK n \in Nat : n = Len(g) /\ m \in 1..n /\ DOMAIN g = 1..n
  OBVIOUS
<1> DEFINE T(k) == {j \in 1..k : g[j].state = "ORIGINAL"}
<1>1. ASSUME NEW k \in 1..n
      PROVE  Max(T(k)) = IF k <= m THEN k ELSE m
  <2>1. PICK u \in 1..k : u = (IF k <= m THEN k ELSE m)
    BY <1>0
  <2>2. \A j \in 1..k : g[j].state = "ORIGINAL" <=> j <= m
    BY <1>0 DEF OriginalsUpTo
  <2>3. u \in T(k) /\ \A j \in T(k) : j <= u
    BY <1>0, <2>1, <2>2
  <2>4. T(k) \in SUBSET Nat /\ u \in Nat
    BY <1>0
  <2> HIDE DEF T
  <2>5. Max(T(k)) \in T(k) /\ \A j \in T(k) : j <= Max(T(k))
    BY <2>3, <2>4, MaxFacts
  <2>6. Max(T(k)) = u
    BY <2>3, <2>4, <2>5
  <2> QED BY <2>1, <2>6
<1>2. \A k : BarHash(g, k) = SubSeq(g, Max(T(k)), k)
  BY DEF BarHash
<1> HIDE DEF T
<1>3. ASSUME NEW k \in 1..m PROVE BarHash(g, k) = <<g[k]>>
  <2>1. k \in 1..n /\ k <= m /\ k \in Nat
    BY <1>0
  <2>2. Max(T(k)) = k
    BY <1>1, <2>1
  <2>3. BarHash(g, k) = SubSeq(g, k, k)
    BY <1>2, <2>2
  <2>4. g[k] \in R
    BY <1>0, <2>1
  <2>5. SubSeq(g, k, k) \in Seq(R) /\ Len(SubSeq(g, k, k)) = 1
    BY <1>0, <2>1
  <2>6. SubSeq(g, k, k)[1] = g[k]
    BY <1>0, <2>1
  <2> HIDE DEF T
  <2>7. SubSeq(g, k, k) = <<g[k]>>
    <3>1. PICK q \in Seq(R) : q = SubSeq(g, k, k)
      BY <2>5
    <3>2. Len(q) = 1 /\ q[1] = g[k]
      BY <2>5, <2>6, <3>1
    <3>3. q = <<g[k]>>
      BY <2>4, <3>2
    <3> QED BY <3>1, <3>3
  <2> QED BY <2>3, <2>7
<1>4. ASSUME NEW k \in (m + 1)..n PROVE Len(BarHash(g, k)) = k - m + 1
  <2>1. k \in 1..n /\ ~(k <= m) /\ k \in Nat /\ m \in 1..n
    BY <1>0
  <2>2. Max(T(k)) = m
    BY <1>1, <2>1
  <2>3. BarHash(g, k) = SubSeq(g, m, k)
    BY <1>2, <2>2
  <2>4. Len(SubSeq(g, m, k)) = k - m + 1
    BY <1>0, <2>1
  <2> QED BY <2>3, <2>4
<1> QED BY <1>0, <1>3, <1>4

(* What chain c of bars knows of rows g, of which the first m are          *)
(* originals.                                                              *)
ChainOf(c, g, n, m) ==
  /\ DOMAIN c = 1..n
  /\ \A k \in 1..n : c[k].row = g[k]
  /\ \A k \in 1..m : c[k].hash = <<g[k]>>
  /\ \A k \in (m + 1)..n : c[k].superseded = c[k - 1].hash
  /\ \A k \in (m + 1)..n : \A j \in 1..(k - 1) : c[j].hash # c[k].hash

LEMMA ChainFacts ==
  ASSUME NEW R, NEW g \in Seq(R), NEW m \in 1..Len(g), OriginalsUpTo(g, m)
  PROVE  ChainOf(canonicalize(g), g, Len(g), m)
<1>0. PICK n \in Nat : n = Len(g) /\ m \in 1..n /\ DOMAIN g = 1..n
  OBVIOUS
<1>1. PICK c : c = canonicalize(g)
  OBVIOUS
<1>2. DOMAIN c = 1..n /\ \A k \in 1..n :
        /\ c[k].row = g[k] /\ c[k].hash = BarHash(g, k)
        /\ g[k].state # "ORIGINAL" => c[k].superseded = BarHash(g, k - 1)
  BY <1>0, <1>1 DEF canonicalize
<1>3. /\ \A k \in 1..m : BarHash(g, k) = <<g[k]>>
      /\ \A k \in (m + 1)..n : Len(BarHash(g, k)) = k - m + 1
  BY <1>0, Hashes
<1>4. \A k \in 1..m : c[k].hash = <<g[k]>>
  BY <1>0, <1>2, <1>3
<1>5. ASSUME NEW k \in (m + 1)..n PROVE c[k].superseded = c[k - 1].hash
  <2>1. k \in 1..n /\ k - 1 \in 1..n /\ g[k].state # "ORIGINAL"
    BY <1>0 DEF OriginalsUpTo
  <2> QED BY <1>2, <2>1
<1>6. ASSUME NEW k \in (m + 1)..n, NEW j \in 1..(k - 1) PROVE c[j].hash # c[k].hash
  <2>0. k \in 1..n /\ j \in 1..n /\ j < k /\ m < k /\ m \in Nat
    BY <1>0
  <2>1. k \in 1..n /\ j \in 1..n /\ Len(c[k].hash) = k - m + 1
    <3>1. c[k].hash = BarHash(g, k)
      BY <1>2, <2>0
    <3>2. Len(BarHash(g, k)) = k - m + 1
      BY <1>3
    <3> QED BY <2>0, <3>1, <3>2
  <2>2. CASE j <= m
    <3>1. c[j].hash = <<g[j]>>
      BY <1>4, <2>1, <2>2
    <3>2. Len(c[j].hash) = 1
      BY <3>1
    <3>3. 1 # k - m + 1
      BY <2>0
    <3> QED BY <2>1, <3>2, <3>3
  <2>3. CASE ~(j <= m)
    <3>1. j \in (m + 1)..n
      BY <1>0, <2>1, <2>3
    <3>2. c[j].hash = BarHash(g, j) /\ Len(BarHash(g, j)) = j - m + 1
      BY <1>2, <1>3, <2>1, <3>1
    <3>3. j - m + 1 # k - m + 1
      BY <2>0
    <3> QED BY <2>1, <3>2, <3>3
  <2> QED BY <2>2, <2>3
<1>7. \A k \in 1..n : c[k].row = g[k]
  BY <1>2
<1> QED BY <1>0, <1>1, <1>2, <1>4, <1>5, <1>6, <1>7 DEF ChainOf

(* Corrections count once each, originals that are repeated do not. *)
LEMMA UniqueFacts ==
  ASSUME NEW c, NEW g, NEW n \in Nat, NEW m \in 1..n, ChainOf(c, g, n, m)
  PROVE  /\ Unique(c) \in SUBSET (1..n)
         /\ 1 \in Unique(c)
         /\ (m + 1)..n \subseteq Unique(c)
         /\ \A k \in 1..m : k \in Unique(c) <=> \A j \in 1..(k - 1) : g[j] # g[k]
<1>1. DOMAIN c = 1..n
  BY DEF ChainOf
<1>2. Unique(c) = {k \in 1..n : \A j \in 1..(k - 1) : c[j].hash # c[k].hash}
  BY <1>1 DEF Unique
<1>3. 1 \in Unique(c)
  BY <1>2
<1>4. ASSUME NEW k \in (m + 1)..n PROVE k \in Unique(c)
  BY <1>2 DEF ChainOf
<1>5. ASSUME NEW k \in 1..m PROVE k \in Unique(c) <=> \A j \in 1..(k - 1) : g[j] # g[k]
  <2>1. k \in 1..n /\ \A j \in 1..(k - 1) : j \in 1..m
    OBVIOUS
  <2>2. c[k].hash = <<g[k]>> /\ \A j \in 1..(k - 1) : c[j].hash = <<g[j]>>
    BY <2>1 DEF ChainOf
  <2>3. \A a, b : <<a>> = <<b>> <=> a = b
    OBVIOUS
  <2>4. \A j \in 1..(k - 1) : c[j].hash # c[k].hash <=> g[j] # g[k]
    BY <2>2, <2>3
  <2> QED BY <1>2, <2>1, <2>4
<1> QED BY <1>2, <1>3, <1>4, <1>5

(* The rows of one candle agree, as Consistent has it for a file. *)
Agreed(g) ==
  /\ \A j, k \in 1..Len(g) : g[j].provider = g[k].provider
  /\ \A j, k \in 1..Len(g) : g[j].rev = g[k].rev =>
       IF g[j].rev = 0 THEN g[j] = g[k] ELSE j = k
  /\ \A j, k \in 1..Len(g) : g[j].state = "REVOKED" => g[k].rev <= g[j].rev

(* What BreaksChain compares, for the bars at p and k of chain c. *)
Broken(c, g, p, k) ==
  g[k].rev <= g[p].rev \/ g[p].state = "REVOKED" \/ c[k].superseded # c[p].hash

(* The bar that a bar is compared with. *)
Previous(c, k) == Max({j \in Unique(c) : j < k})

LEMMA ConflictingIff ==
  ASSUME NEW c, NEW g, NEW n \in Nat, NEW m \in 1..n, ChainOf(c, g, n, m),
         g[1].state = "ORIGINAL"
  PROVE  Conflicting(c) <=>
           \/ \E j, k \in Unique(c) : g[j].provider # g[k].provider
           \/ \E k \in Unique(c) \ {1} : Broken(c, g, Previous(c, k), k)
<1>1. Unique(c) \in SUBSET (1..n) /\ 1 \in Unique(c)
  BY UniqueFacts
<1>2. ASSUME NEW k \in Unique(c) \ {1}
      PROVE  Previous(c, k) \in 1..n
  <2> DEFINE T == {j \in Unique(c) : j < k}
  <2>1. T \in SUBSET Nat /\ T # {} /\ \A j \in T : j <= n
    BY <1>1
  <2>2. Max(T) \in T
    BY <2>1, MaxFacts
  <2> QED BY <1>1, <2>2 DEF Previous
<1>3. \A k \in 1..n : c[k].row = g[k]
  BY DEF ChainOf
<1>4. ASSUME NEW k \in Unique(c) \ {1}
      PROVE  BreaksChain(c[Previous(c, k)], c[k]) <=> Broken(c, g, Previous(c, k), k)
  <2>1. k \in 1..n /\ Previous(c, k) \in 1..n
    BY <1>1, <1>2
  <2> QED BY <1>3, <2>1 DEF BreaksChain, Broken
<1>5. c[1].row.state = "ORIGINAL"
  BY <1>3
<1>6. \A j, k \in Unique(c) :
        c[j].row.provider # c[k].row.provider <=> g[j].provider # g[k].provider
  BY <1>1, <1>3
<1> QED BY <1>4, <1>5, <1>6 DEF Conflicting, Previous

(* Where a bar is compared with: a correction with the row before it, the  *)
(* first one with the original, if that is only repeated.                  *)
LEMMA PreviousFacts ==
  ASSUME NEW c, NEW g, NEW n \in Nat, NEW m \in 1..n, ChainOf(c, g, n, m)
  PROVE  /\ \A k \in Unique(c) \ {1} :
              Previous(c, k) \in 1..n /\ Previous(c, k) < k
         /\ \A k \in (m + 2)..n : Previous(c, k) = k - 1
         /\ (\A k \in 1..m : g[k] = g[1]) /\ m < n => Previous(c, m + 1) = 1
<1>1. /\ Unique(c) \in SUBSET (1..n) /\ 1 \in Unique(c)
      /\ (m + 1)..n \subseteq Unique(c)
      /\ \A k \in 1..m : k \in Unique(c) <=> \A j \in 1..(k - 1) : g[j] # g[k]
  BY UniqueFacts
<1>2. ASSUME NEW k \in Nat, k > 1
      PROVE  /\ Previous(c, k) \in Unique(c) /\ Previous(c, k) < k
             /\ \A j \in Unique(c) : j < k => j <= Previous(c, k)
  <2> DEFINE T == {j \in Unique(c) : j < k}
  <2>1. T \in SUBSET Nat /\ T # {} /\ \A j \in T : j <= n
    BY <1>1, <1>2
  <2>2. Max(T) \in T /\ \A j \in T : j <= Max(T)
    BY <2>1, MaxFacts
  <2> QED BY <2>2 DEF Previous
<1>3. \A k \in Unique(c) \ {1} : Previous(c, k) \in 1..n /\ Previous(c, k) < k
  BY <1>1, <1>2
<1>4. ASSUME NEW k \in (m + 2)..n PROVE Previous(c, k) = k - 1
  <2>1. k - 1 \in (m + 1)..n /\ k \in Nat /\ k > 1
    OBVIOUS
  <2>2. k - 1 \in Unique(c) /\ k - 1 < k
    BY <1>1, <2>1
  <2>3. k - 1 <= Previous(c, k) /\ Previous(c, k) < k /\ Previous(c, k) \in 1..n
    BY <1>1, <1>2, <2>1, <2>2
  <2> QED BY <2>1, <2>3
<1>5. ASSUME \A k \in 1..m : g[k] = g[1], m < n PROVE Previous(c, m + 1) = 1
  <2>1. /\ Previous(c, m + 1) \in Unique(c) /\ Previous(c, m + 1) < m + 1
        /\ Previous(c, m + 1) \in 1..n
    BY <1>1, <1>2
  <2>2. PICK q \in 1..m : q = Previous(c, m + 1)
    BY <2>1
  <2>3. \A j \in 1..(q - 1) : g[j] # g[q]
    BY <1>1, <2>1, <2>2
  <2>4. q = 1
    <3> SUFFICES ASSUME q # 1 PROVE FALSE
      OBVIOUS
    <3>1. 1 \in 1..(q - 1) /\ g[q] = g[1]
      BY <1>5
    <3> QED BY <2>3, <3>1
  <2> QED BY <2>2, <2>4
<1> QED BY <1>3, <1>4, <1>5

(* Repeated originals are the same row unless the chain conflicts. *)
LEMMA OneOriginal ==
  ASSUME NEW c, NEW g, NEW n \in Nat, NEW m \in 1..n, ChainOf(c, g, n, m),
         \A k \in 1..m : g[k].rev = 0,
         \A k \in Unique(c) \ {1} : ~Broken(c, g, Previous(c, k), k)
  PROVE  \A k \in 1..m : g[k] = g[1]
<1> SUFFICES ASSUME NEW l \in 1..m, g[l] # g[1] PROVE FALSE
  OBVIOUS
<1> DEFINE T == {k \in 1..m : g[k] # g[1]}
<1>1. T \in SUBSET Nat /\ T # {}
  OBVIOUS
<1>2. PICK k \in T : \A j \in T : k <= j
  BY <1>1, LeastNatural
<1>3. k \in 1..m /\ k # 1 /\ \A j \in 1..(k - 1) : g[j] # g[k]
  <2>1. k \in 1..m /\ k # 1 /\ g[k] # g[1]
    BY <1>2
  <2>2. ASSUME NEW j \in 1..(k - 1) PROVE g[j] = g[1]
    <3>1. j \in 1..m /\ ~(k <= j)
      BY <2>1
    <3> QED BY <1>2, <3>1
  <2> QED BY <2>1, <2>2
<1>4. k \in Unique(c) \ {1}
  BY <1>3, UniqueFacts
<1>5. Previous(c, k) \in 1..n /\ Previous(c, k) < k
  BY <1>4, PreviousFacts
<1>6. Previous(c, k) \in 1..m
  BY <1>3, <1>5
<1>7. g[k].rev = 0 /\ g[Previous(c, k)].rev = 0
  BY <1>3, <1>6
<1>8. Broken(c, g, Previous(c, k), k)
  BY <1>7 DEF Broken
<1> QED BY <1>4, <1>8

(* What is known of the rows of a candle that have a lineage: m originals  *)
(* before the corrections.                                                 *)
Lineage(g, n, m) ==
  /\ \A k \in 1..n : g[k].rev \in Nat
  /\ \A j, k \in 1..n : j < k => g[j].rev <= g[k].rev
  /\ \A k \in 1..n : (g[k].rev = 0 <=> k <= m) /\ (g[k].state = "ORIGINAL" <=> k <= m)

(* A chain in which nothing breaks belongs to rows that agree. *)
LEMMA WholeChainAgrees ==
  ASSUME NEW c, NEW g, NEW m \in 1..Len(g), Len(g) \in Nat,
         ChainOf(c, g, Len(g), m), Lineage(g, Len(g), m), ~Conflicting(c)
  PROVE  Agreed(g)
<1>0. PICK n \in Nat : n = Len(g) /\ m \in 1..n
  OBVIOUS
<1>1. ChainOf(c, g, n, m) /\ Lineage(g, n, m) /\ g[1].state = "ORIGINAL"
  BY <1>0 DEF Lineage
<1>2. /\ \A j, k \in Unique(c) : g[j].provider = g[k].provider
      /\ \A k \in Unique(c) \ {1} : ~Broken(c, g, Previous(c, k), k)
  BY <1>0, <1>1, ConflictingIff
<1>3. \A k \in 1..m : g[k] = g[1]
  <2>1. \A k \in 1..m : g[k].rev = 0
    BY <1>0, <1>1 DEF Lineage
  <2> QED BY <1>0, <1>1, <1>2, <2>1, OneOriginal
<1>4. 1 \in Unique(c) /\ (m + 1)..n \subseteq Unique(c)
  BY <1>0, <1>1, UniqueFacts
<1>5. \A k \in (m + 2)..n : Previous(c, k) = k - 1
  BY <1>0, <1>1, PreviousFacts
<1>6. ASSUME NEW k \in 1..n PROVE g[k].provider = g[1].provider
  <2>1. CASE k <= m
    BY <1>3, <2>1
  <2>2. CASE ~(k <= m)
    <3>1. k \in (m + 1)..n
      BY <1>0, <2>2
    <3> QED BY <1>2, <1>4, <3>1
  <2> QED BY <2>1, <2>2
(* Each correction has a revision above the one before it. *)
<1>7. ASSUME NEW k \in (m + 2)..n
      PROVE  g[k - 1].rev < g[k].rev /\ g[k - 1].state # "REVOKED"
  <2>1. k \in Unique(c) \ {1} /\ k \in 1..n /\ k - 1 \in 1..n
    BY <1>0, <1>4
  <2>2. ~Broken(c, g, k - 1, k)
    BY <1>2, <1>5, <2>1
  <2>3. g[k].rev \in Nat /\ g[k - 1].rev \in Nat
    BY <1>1, <2>1 DEF Lineage
  <2> QED BY <2>2, <2>3 DEF Broken
<1>8. ASSUME NEW j \in 1..n, NEW k \in 1..n, j < k, g[j].rev = g[k].rev
      PROVE  g[j].rev = 0 /\ g[j] = g[k]
  <2>1. CASE k <= m
    BY <1>1, <1>3, <1>8, <2>1 DEF Lineage
  <2>2. CASE ~(k <= m) /\ j <= m
    BY <1>1, <1>8, <2>2 DEF Lineage
  <2>3. CASE ~(j <= m)
    <3>1. k \in (m + 2)..n /\ k - 1 \in 1..n /\ (j = k - 1 \/ j < k - 1)
      BY <1>0, <1>8, <2>3
    <3>2. g[j].rev \in Nat /\ g[k].rev \in Nat /\ g[k - 1].rev \in Nat
      BY <1>1, <3>1 DEF Lineage
    <3>3. g[j].rev <= g[k - 1].rev
      <4>1. PICK l \in 1..n : l = k - 1
        BY <3>1
      <4>2. CASE j = l
        BY <3>2, <4>1, <4>2
      <4>3. CASE j < l
        BY <1>1, <4>1, <4>3 DEF Lineage
      <4> QED BY <3>1, <4>1, <4>2, <4>3
    <3>4. g[k - 1].rev < g[k].rev
      BY <1>7, <3>1
    <3> QED BY <1>8, <3>2, <3>3, <3>4
  <2> QED BY <2>1, <2>2, <2>3
<1>9. ASSUME NEW j \in 1..n, NEW k \in 1..n, g[j].state = "REVOKED"
      PROVE  g[k].rev <= g[j].rev
  <2>1. ~(j <= m)
    BY <1>1, <1>9 DEF Lineage
  <2>2. j = n
    <3> SUFFICES ASSUME j # n PROVE FALSE
      OBVIOUS
    <3>1. j + 1 \in (m + 2)..n /\ (j + 1) - 1 = j
      BY <1>0, <2>1
    <3>2. g[j].state # "REVOKED"
      BY <1>7, <3>1
    <3> QED BY <1>9, <3>2
  <2>3. k = n \/ k < n
    BY <1>0
  <2> QED BY <1>1, <2>2, <2>3 DEF Lineage
<1>10. \A j, k \in 1..n : g[j].provider = g[k].provider
  BY <1>6
<1>11. ASSUME NEW j \in 1..n, NEW k \in 1..n, g[j].rev = g[k].rev
       PROVE  IF g[j].rev = 0 THEN g[j] = g[k] ELSE j = k
  <2>1. j = k \/ j < k \/ k < j
    BY <1>0
  <2> QED BY <1>8, <1>11, <2>1
<1> QED BY <1>0, <1>9, <1>10, <1>11 DEF Agreed

(* Rows that agree make a chain in which nothing breaks, and whose last    *)
(* bar is that of the last row.                                            *)
LEMMA AgreedChainIsWhole ==
  ASSUME NEW c, NEW g, NEW m \in 1..Len(g), Len(g) \in Nat,
         ChainOf(c, g, Len(g), m), Lineage(g, Len(g), m), Agreed(g)
  PROVE  ~Conflicting(c) /\ Unique(c) # {} /\ c[Max(Unique(c))].row = g[Len(g)]
<1>0. PICK n \in Nat : n = Len(g) /\ m \in 1..n
  OBVIOUS
<1>1. ChainOf(c, g, n, m) /\ Lineage(g, n, m) /\ g[1].state = "ORIGINAL"
  BY <1>0 DEF Lineage
<1>2. /\ \A j, k \in 1..n : g[j].provider = g[k].provider
      /\ \A j, k \in 1..n : g[j].rev = g[k].rev =>
           IF g[j].rev = 0 THEN g[j] = g[k] ELSE j = k
      /\ \A j, k \in 1..n : g[j].state = "REVOKED" => g[k].rev <= g[j].rev
  BY <1>0 DEF Agreed
<1>3. \A k \in 1..m : g[k] = g[1]
  <2> SUFFICES ASSUME NEW k \in 1..m PROVE g[k] = g[1]
    OBVIOUS
  <2>1. k \in 1..n /\ 1 \in 1..n /\ k <= m /\ 1 <= m
    BY <1>0
  <2>2. g[k].rev = 0 /\ g[1].rev = 0
    BY <1>1, <2>1 DEF Lineage
  <2> QED BY <1>2, <2>1, <2>2
<1>4. /\ Unique(c) \in SUBSET (1..n) /\ 1 \in Unique(c)
      /\ (m + 1)..n \subseteq Unique(c)
      /\ \A k \in 1..m : k \in Unique(c) <=> \A j \in 1..(k - 1) : g[j] # g[k]
  BY <1>0, <1>1, UniqueFacts
<1>5. \A k \in (m + 2)..n : Previous(c, k) = k - 1
  BY <1>0, <1>1, PreviousFacts
<1>6. m < n => Previous(c, m + 1) = 1
  BY <1>0, <1>1, <1>3, PreviousFacts
<1>7. \A k \in (m + 1)..n : c[k].superseded = c[k - 1].hash
  BY <1>1 DEF ChainOf
<1>8. c[m].hash = c[1].hash
  <2>1. m \in 1..m /\ 1 \in 1..m /\ g[m] = g[1]
    BY <1>0, <1>3
  <2>2. \A k \in 1..m : c[k].hash = <<g[k]>>
    BY <1>1 DEF ChainOf
  <2>3. c[m].hash = <<g[m]>> /\ c[1].hash = <<g[1]>>
    BY <2>1, <2>2
  <2> QED BY <2>1, <2>3
<1>9. ASSUME NEW k \in Unique(c) \ {1} PROVE k \in (m + 1)..n
  <2>1. k \in 1..n /\ k # 1
    BY <1>4
  <2>2. ~(k <= m)
    <3> SUFFICES ASSUME k <= m PROVE FALSE
      OBVIOUS
    <3>1. k \in 1..m /\ 1 \in 1..(k - 1)
      BY <2>1
    <3> QED BY <1>3, <1>4, <3>1
  <2> QED BY <1>0, <2>1, <2>2
<1>10. ASSUME NEW p \in 1..n, NEW k \in 1..n, p < k, m < k,
              c[k].superseded = c[p].hash
       PROVE  ~Broken(c, g, p, k)
  <2>1. g[p].rev \in Nat /\ g[k].rev \in Nat /\ g[p].rev <= g[k].rev /\ g[k].rev # 0
    BY <1>0, <1>1, <1>10 DEF Lineage
  <2>2. g[p].rev # g[k].rev
    BY <1>2, <1>10, <2>1
  <2>3. ~(g[k].rev <= g[p].rev)
    BY <2>1, <2>2
  <2>4. g[p].state # "REVOKED"
    BY <1>2, <2>3
  <2> QED BY <1>10, <2>3, <2>4 DEF Broken
<1>11. ASSUME NEW k \in Unique(c) \ {1} PROVE ~Broken(c, g, Previous(c, k), k)
  <2>1. k \in (m + 1)..n /\ k \in 1..n /\ m < k
    BY <1>0, <1>9
  <2>2. CASE k = m + 1
    <3>1. Previous(c, k) = 1 /\ k - 1 = m
      BY <1>0, <1>6, <2>1, <2>2
    <3>2. c[k].superseded = c[1].hash /\ 1 \in 1..n /\ 1 < k
      BY <1>0, <1>7, <1>8, <2>1, <2>2, <3>1
    <3> QED BY <1>10, <2>1, <3>1, <3>2
  <2>3. CASE k # m + 1
    <3>1. k \in (m + 2)..n /\ k - 1 \in 1..n /\ k - 1 < k
      BY <1>0, <2>1, <2>3
    <3>2. Previous(c, k) = k - 1 /\ c[k].superseded = c[k - 1].hash
      BY <1>5, <1>7, <2>1, <3>1
    <3> QED BY <1>10, <2>1, <3>1, <3>2
  <2> QED BY <2>2, <2>3
<1>12. ~Conflicting(c)
  <2>1. \A j, k \in Unique(c) : g[j].provider = g[k].provider
    BY <1>2, <1>4
  <2> QED BY <1>0, <1>1, <1>11, <2>1, ConflictingIff
<1>13. PICK u : u = Max(Unique(c))
  OBVIOUS
<1>14. u \in Unique(c) /\ u \in 1..n /\ \A j \in Unique(c) : j <= u
  <2>1. Unique(c) \in SUBSET Nat /\ Unique(c) # {} /\ \A j \in Unique(c) : j <= n
    BY <1>4
  <2> QED BY <1>4, <1>13, <2>1, MaxFacts
<1>15. g[u] = g[n]
  <2>1. CASE m = n
    BY <1>0, <1>3, <1>14, <2>1
  <2>2. CASE m # n
    <3>1. n \in Unique(c)
      BY <1>0, <1>4, <2>2
    <3>2. u = n
      BY <1>0, <1>14, <3>1
    <3> QED BY <3>2
  <2> QED BY <2>1, <2>2
<1>16. c[u].row = g[u]
  BY <1>1, <1>14 DEF ChainOf
<1> QED BY <1>0, <1>4, <1>12, <1>13, <1>15, <1>16

(* The positions and the rows of the newest revision. *)
NewestPlaces(rows, P) == {i \in P : \A j \in P : rows[j].rev <= rows[i].rev}
NewestRow(rows, P, r) == {rows[i] : i \in NewestPlaces(rows, P)} = {r}

(* The rows at the positions of P, of one candle, as sorted() leaves them: *)
(* e says where each was.                                                  *)
Arranged(rows, P, g, n, e) ==
  /\ n = Len(g)
  /\ DOMAIN g = 1..n
  /\ \A k \in 1..n : g[k] = rows[e[k]]
  /\ \A k \in 1..n : e[k] \in P
  /\ \A i \in P : \E k \in 1..n : e[k] = i
  /\ \A j, k \in 1..n : j < k => e[j] # e[k]
  /\ \A j, k \in 1..n : j < k => rows[e[j]].rev <= rows[e[k]].rev

LEMMA GroupFacts ==
  ASSUME NEW R, NEW rows, NEW P \in SUBSET Nat, IsFiniteSet(P), P # {}, NEW t \in Nat,
         \A i \in P : rows[i] \in R,
         \A i \in P : rows[i].t = t,
         \A i \in P : rows[i].rev \in Nat
  PROVE  /\ Ordered(rows, P) \in Seq(R)
         /\ \E n \in Nat \ {0} : \E e : Arranged(rows, P, Ordered(rows, P), n, e)
<1>1. \A i \in P : rows[i].t \in Nat /\ rows[i].rev \in Nat
  OBVIOUS
<1>2. /\ Cardinality(P) \in Nat
      /\ \E e \in [1..Cardinality(P) -> P] :
              /\ Ordered(rows, P) = [k \in 1..Cardinality(P) |-> rows[e[k]]]
              /\ \A i \in P : \E k \in 1..Cardinality(P) : e[k] = i
              /\ \A j, k \in 1..Cardinality(P) :
                   j < k => e[j] # e[k] /\ ~Before(rows[e[k]], rows[e[j]])
  BY <1>1, OrderedFacts
<1>3. PICK n \in Nat : n = Cardinality(P)
  BY <1>2
<1>4. PICK e \in [1..n -> P] :
        /\ Ordered(rows, P) = [k \in 1..n |-> rows[e[k]]]
        /\ \A i \in P : \E k \in 1..n : e[k] = i
        /\ \A j, k \in 1..n : j < k => e[j] # e[k] /\ ~Before(rows[e[k]], rows[e[j]])
  BY <1>2, <1>3
<1>5. n # 0
  <2>1. PICK i \in P : TRUE
    OBVIOUS
  <2>2. PICK k \in 1..n : e[k] = i
    BY <1>4
  <2> QED BY <2>2
<1>6. PICK g : g = Ordered(rows, P)
  OBVIOUS
<1>7. \A k \in 1..n : e[k] \in P
  OBVIOUS
<1>8. g = [k \in 1..n |-> rows[e[k]]]
  BY <1>4, <1>6
<1>9. g \in [1..n -> R]
  BY <1>7, <1>8
<1>10. g \in Seq(R) /\ Len(g) = n /\ DOMAIN g = 1..n
  BY <1>9
<1>11. \A k \in 1..n : g[k] = rows[e[k]]
  BY <1>8
<1>12. ASSUME NEW j \in 1..n, NEW k \in 1..n, j < k
       PROVE  e[j] # e[k] /\ rows[e[j]].rev <= rows[e[k]].rev
  <2>1. e[j] # e[k] /\ ~Before(rows[e[k]], rows[e[j]])
    BY <1>4, <1>12
  <2>2. PICK a, b : a = rows[e[j]] /\ b = rows[e[k]]
    OBVIOUS
  <2>3. a.t = t /\ b.t = t /\ a.rev \in Nat /\ b.rev \in Nat
    BY <2>2
  <2>4. a.rev <= b.rev
    BY <2>1, <2>2, <2>3 DEF Before
  <2> QED BY <2>1, <2>2, <2>4
<1>13. Arranged(rows, P, g, n, e)
  <2>1. \A j, k \in 1..n : j < k => e[j] # e[k]
    BY <1>12
  <2>2. \A j, k \in 1..n : j < k => rows[e[j]].rev <= rows[e[k]].rev
    BY <1>12
  <2>3. \A i \in P : \E k \in 1..n : e[k] = i
    BY <1>4
  <2> QED BY <1>7, <1>10, <1>11, <2>1, <2>2, <2>3 DEF Arranged
<1> QED BY <1>5, <1>6, <1>10, <1>13

(* Rows agree in the file exactly when they do as sorted() leaves them. *)
LEMMA AgreedIffConsistent ==
  ASSUME NEW rows, NEW P, NEW g, NEW n \in Nat \ {0}, NEW e,
         Arranged(rows, P, g, n, e),
         \A i \in P : rows[i].rev \in Nat
  PROVE  Consistent(rows, P) <=> HasLineage(g) /\ Agreed(g)
<1>1. /\ n = Len(g) /\ DOMAIN g = 1..n
      /\ \A k \in 1..n : g[k] = rows[e[k]]
      /\ \A k \in 1..n : e[k] \in P
      /\ \A i \in P : \E k \in 1..n : e[k] = i
      /\ \A j, k \in 1..n : j < k => e[j] # e[k]
      /\ \A j, k \in 1..n : j < k => rows[e[j]].rev <= rows[e[k]].rev
  BY DEF Arranged
<1>2. \A k \in 1..n : g[k].rev \in Nat
  BY <1>1
<1>3. \A j, k \in 1..n : e[j] = e[k] => j = k
  BY <1>1
<1>4. \A k \in 1..n : g[1].rev <= g[k].rev
  <2> SUFFICES ASSUME NEW k \in 1..n PROVE g[1].rev <= g[k].rev
    OBVIOUS
  <2>1. CASE k = 1
    BY <1>2, <2>1
  <2>2. CASE k # 1
    <3>1. 1 \in 1..n /\ 1 < k
      BY <2>2
    <3> QED BY <1>1, <3>1
  <2> QED BY <2>1, <2>2
<1>5. 1 \in 1..n
  OBVIOUS
<1>6. ASSUME Consistent(rows, P) PROVE HasLineage(g) /\ Agreed(g)
  <2>1. \A k \in 1..n : (g[k].state = "ORIGINAL") <=> (g[k].rev = 0)
    BY <1>1, <1>6 DEF Consistent
  <2>2. \E k \in 1..n : g[k].rev = 0
    <3>1. PICK i \in P : rows[i].rev = 0
      BY <1>6 DEF Consistent
    <3>2. PICK k \in 1..n : e[k] = i
      BY <1>1
    <3> QED BY <1>1, <3>1, <3>2
  <2>3. g[1].rev = 0
    BY <1>2, <1>4, <1>5, <2>2
  <2>4. HasLineage(g)
    BY <1>1, <1>5, <2>1, <2>3 DEF HasLineage
  <2>5. \A j, k \in 1..n : g[j].provider = g[k].provider
    BY <1>1, <1>6 DEF Consistent
  <2>6. ASSUME NEW j \in 1..n, NEW k \in 1..n, g[j].rev = g[k].rev
        PROVE  IF g[j].rev = 0 THEN g[j] = g[k] ELSE j = k
    <3>1. g[j] = rows[e[j]] /\ g[k] = rows[e[k]] /\ e[j] \in P /\ e[k] \in P
      BY <1>1
    <3>2. IF rows[e[j]].rev = 0 THEN rows[e[j]] = rows[e[k]] ELSE e[j] = e[k]
      BY <1>6, <2>6, <3>1 DEF Consistent
    <3> QED BY <1>3, <3>1, <3>2
  <2>7. \A j, k \in 1..n : g[j].state = "REVOKED" => g[k].rev <= g[j].rev
    BY <1>1, <1>6 DEF Consistent
  <2> QED BY <1>1, <2>4, <2>5, <2>6, <2>7 DEF Agreed
<1>7. ASSUME HasLineage(g), Agreed(g) PROVE Consistent(rows, P)
  <2>0. /\ \A j, k \in 1..n : g[j].provider = g[k].provider
        /\ \A j, k \in 1..n : g[j].rev = g[k].rev =>
             IF g[j].rev = 0 THEN g[j] = g[k] ELSE j = k
        /\ \A j, k \in 1..n : g[j].state = "REVOKED" => g[k].rev <= g[j].rev
    BY <1>1, <1>7 DEF Agreed
  <2>1. g[1].state = "ORIGINAL" /\ \A k \in 1..n : (g[k].rev = 0) <=> (g[k].state = "ORIGINAL")
    BY <1>1, <1>7 DEF HasLineage
  <2>2. \A i \in P : (rows[i].state = "ORIGINAL") <=> (rows[i].rev = 0)
    BY <1>1, <2>1
  <2>3. \E i \in P : rows[i].rev = 0
    BY <1>1, <1>5, <2>1
  <2>4. ASSUME NEW i1 \in P, NEW i2 \in P
        PROVE  /\ rows[i1].provider = rows[i2].provider
               /\ rows[i1].rev = rows[i2].rev =>
                    IF rows[i1].rev = 0 THEN rows[i1] = rows[i2] ELSE i1 = i2
               /\ rows[i1].state = "REVOKED" => rows[i2].rev <= rows[i1].rev
    <3>1. PICK j \in 1..n : e[j] = i1
      BY <1>1
    <3>2. PICK k \in 1..n : e[k] = i2
      BY <1>1
    <3>3. g[j] = rows[i1] /\ g[k] = rows[i2]
      BY <1>1, <3>1, <3>2
    <3>4. /\ g[j].provider = g[k].provider
          /\ g[j].rev = g[k].rev => IF g[j].rev = 0 THEN g[j] = g[k] ELSE j = k
          /\ g[j].state = "REVOKED" => g[k].rev <= g[j].rev
      BY <2>0
    <3>5. j = k => i1 = i2
      BY <3>1, <3>2
    <3> QED BY <3>3, <3>4, <3>5
  <2> QED BY <2>2, <2>3, <2>4 DEF Consistent
<1> QED BY <1>6, <1>7

(* The newest row, as sorted() leaves them, is the last one. *)
LEMMA NewestIsLast ==
  ASSUME NEW rows, NEW P, NEW g, NEW n \in Nat \ {0}, NEW e,
         Arranged(rows, P, g, n, e), Consistent(rows, P),
         \A i \in P : rows[i].rev \in Nat
  PROVE  NewestRow(rows, P, g[n])
<1>1. /\ \A k \in 1..n : g[k] = rows[e[k]]
      /\ \A k \in 1..n : e[k] \in P
      /\ \A i \in P : \E k \in 1..n : e[k] = i
      /\ \A j, k \in 1..n : j < k => rows[e[j]].rev <= rows[e[k]].rev
  BY DEF Arranged
<1>2. n \in 1..n
  OBVIOUS
<1>3. \A k \in 1..n : rows[e[k]].rev <= rows[e[n]].rev
  <2> SUFFICES ASSUME NEW k \in 1..n PROVE rows[e[k]].rev <= rows[e[n]].rev
    OBVIOUS
  <2>1. CASE k = n
    BY <1>1, <1>2, <2>1
  <2>2. CASE k # n
    BY <1>1, <1>2, <2>2
  <2> QED BY <2>1, <2>2
<1>4. e[n] \in P /\ \A i \in P : rows[i].rev <= rows[e[n]].rev
  <2>1. ASSUME NEW i \in P PROVE rows[i].rev <= rows[e[n]].rev
    <3>1. PICK k \in 1..n : e[k] = i
      BY <1>1
    <3> QED BY <1>3, <3>1
  <2> QED BY <1>1, <1>2, <2>1
<1>5. e[n] \in NewestPlaces(rows, P)
  BY <1>4 DEF NewestPlaces
<1>6. ASSUME NEW i \in NewestPlaces(rows, P) PROVE rows[i] = rows[e[n]]
  <2>1. i \in P /\ rows[e[n]].rev <= rows[i].rev /\ rows[i].rev <= rows[e[n]].rev
    BY <1>4 DEF NewestPlaces
  <2>2. rows[i].rev = rows[e[n]].rev
    BY <1>4, <2>1
  <2>3. IF rows[i].rev = 0 THEN rows[i] = rows[e[n]] ELSE i = e[n]
    BY <1>4, <2>1, <2>2 DEF Consistent
  <2> QED BY <2>3
<1>7. g[n] = rows[e[n]]
  BY <1>1, <1>2
<1> QED BY <1>5, <1>6, <1>7 DEF NewestRow

(* What build_public_snapshot makes of the rows of one candle. *)
LEMMA GroupVerdict ==
  ASSUME NEW R, NEW rows, NEW P \in SUBSET Nat, IsFiniteSet(P), P # {}, NEW t \in Nat,
         \A i \in P : rows[i] \in R,
         \A i \in P : rows[i].t = t,
         \A i \in P : rows[i].rev \in Nat,
         NEW g, g = Ordered(rows, P), NEW c, c = canonicalize(g)
  PROVE  /\ Consistent(rows, P) <=> HasLineage(g) /\ ~Conflicting(c)
         /\ Consistent(rows, P) => NewestRow(rows, P, c[Max(Unique(c))].row)
<1>1. g \in Seq(R)
  BY GroupFacts
<1>2. PICK n \in Nat \ {0} : \E e : Arranged(rows, P, g, n, e)
  BY GroupFacts
<1>3. PICK e : Arranged(rows, P, g, n, e)
  BY <1>2
<1>4. /\ n = Len(g) /\ DOMAIN g = 1..n
      /\ \A k \in 1..n : g[k] = rows[e[k]]
      /\ \A k \in 1..n : e[k] \in P
      /\ \A j, k \in 1..n : j < k => rows[e[j]].rev <= rows[e[k]].rev
  BY <1>3 DEF Arranged
<1>5. /\ \A k \in 1..n : g[k].rev \in Nat
      /\ \A j, k \in 1..n : j < k => g[j].rev <= g[k].rev
  <2>1. ASSUME NEW k \in 1..n PROVE g[k].rev \in Nat
    <3>1. g[k] = rows[e[k]] /\ e[k] \in P
      BY <1>4
    <3> QED BY <3>1
  <2>2. ASSUME NEW j \in 1..n, NEW k \in 1..n, j < k PROVE g[j].rev <= g[k].rev
    <3>1. g[j] = rows[e[j]] /\ g[k] = rows[e[k]] /\ rows[e[j]].rev <= rows[e[k]].rev
      BY <1>4, <2>2
    <3> QED BY <3>1
  <2> QED BY <2>1, <2>2
<1>6. g # <<>> /\ SortedRows(g)
  BY <1>1, <1>4, <1>5 DEF SortedRows
<1>7. Consistent(rows, P) <=> HasLineage(g) /\ Agreed(g)
  BY <1>3, AgreedIffConsistent
<1>8. ASSUME HasLineage(g) PROVE \E m \in 1..Len(g) : ChainOf(c, g, Len(g), m) /\ Lineage(g, Len(g), m)
  <2>1. PICK m \in 1..Len(g) : OriginalsUpTo(g, m)
    BY <1>1, <1>6, <1>8, OriginalsFirst
  <2>2. ChainOf(c, g, Len(g), m)
    BY <1>1, <1>8, <2>1, ChainFacts
  <2>3. \A k \in 1..n : (g[k].state = "ORIGINAL" <=> k <= m) /\ (g[k].rev = 0 <=> g[k].state = "ORIGINAL")
    BY <1>4, <1>8, <2>1 DEF OriginalsUpTo, HasLineage
  <2>4. Lineage(g, Len(g), m)
    BY <1>4, <1>5, <2>3 DEF Lineage
  <2> QED BY <2>1, <2>2, <2>4
<1>9. ASSUME HasLineage(g), ~Conflicting(c) PROVE Agreed(g)
  BY <1>4, <1>8, <1>9, WholeChainAgrees
<1>10. ASSUME HasLineage(g), Agreed(g)
       PROVE  ~Conflicting(c) /\ c[Max(Unique(c))].row = g[n]
  BY <1>4, <1>8, <1>10, AgreedChainIsWhole
<1>11. ASSUME Consistent(rows, P) PROVE NewestRow(rows, P, g[n])
  BY <1>3, <1>11, NewestIsLast
<1> QED BY <1>7, <1>9, <1>10, <1>11

(* The bars of a candle, and the one that stands for it. *)
ChainAt(rows, P, t) == canonicalize(Ordered(rows, Group(rows, P, t)))
SelectedAt(rows, P, t) == ChainAt(rows, P, t)[Max(Unique(ChainAt(rows, P, t)))]
TimesOf(rows, P) == {rows[i].t : i \in P}
SelectedBars(rows, P, policy) ==
  {bar \in {SelectedAt(rows, P, t) : t \in TimesOf(rows, P)} : Included(bar, policy)}

(* Its rows have a lineage and their chain is whole. *)
WholeAt(rows, P, t) ==
  HasLineage(Ordered(rows, Group(rows, P, t))) /\ ~Conflicting(ChainAt(rows, P, t))

(* Two candles overlap and neither is revoked. *)
OverlapAt(rows, P, t, u) ==
  /\ SelectedAt(rows, P, t).row.state # "REVOKED"
  /\ SelectedAt(rows, P, u).row.state # "REVOKED"
  /\ Overlap(t, u)

(* build_public_snapshot candle by candle. *)
LEMMA SnapshotByCandle ==
  ASSUME NEW rows, NEW P, NEW pr, NEW q, \A i \in P : rows[i].pr = pr,
         NEW s, s = build_public_snapshot(rows, P, pr, q)
  PROVE  /\ s.status = "ok" <=>
              /\ \A t \in TimesOf(rows, P) : Inside(t, q) /\ WholeAt(rows, P, t)
              /\ \A t, u \in TimesOf(rows, P) : ~OverlapAt(rows, P, t, u)
         /\ s.status = "ok" => s.bars = SelectedBars(rows, P, q.policy)
<1> DEFINE D == TimesOf(rows, P)
           G == [t \in D |-> Ordered(rows, Group(rows, P, t))]
           C == [t \in D |-> canonicalize(G[t])]
           last == [t \in DOMAIN C |-> C[t][Max(Unique(C[t]))]]
           kept == {t \in DOMAIN C : last[t].row.state # "REVOKED"}
           bad == \E t \in D : ~HasLineage(Ordered(rows, Group(rows, P, t)))
           clash == \E t \in D : ~Inside(t, q) \/ Conflicting(ChainAt(rows, P, t))
           over == \E t, u \in D : OverlapAt(rows, P, t, u)
           sel == {SelectedAt(rows, P, t) : t \in D}
<1>1. s = IF \E t \in DOMAIN G : ~HasLineage(G[t]) THEN Refused
          ELSE build_data_snapshot([t \in DOMAIN G |-> canonicalize(G[t])], q)
  BY DEF build_public_snapshot, TimesOf
<1>2. DOMAIN G = D /\ \A t \in D : G[t] = Ordered(rows, Group(rows, P, t))
  OBVIOUS
<1>3. C = [t \in DOMAIN G |-> canonicalize(G[t])]
  BY <1>2
<1>4. (\E t \in DOMAIN G : ~HasLineage(G[t])) <=> bad
  BY <1>2
<1>5. DOMAIN C = D /\ \A t \in D : C[t] = ChainAt(rows, P, t)
  BY <1>2 DEF ChainAt
<1>6. s = IF bad THEN Refused ELSE build_data_snapshot(C, q)
  BY <1>1, <1>3, <1>4
<1> HIDE DEF G, C, D
<1>7. (\E t \in DOMAIN C : ~Inside(t, q) \/ Conflicting(C[t])) <=> clash
  BY <1>5
<1>8. DOMAIN last = D /\ \A t \in D : last[t] = SelectedAt(rows, P, t)
  BY <1>5 DEF SelectedAt
<1>9. build_data_snapshot(C, q) =
        IF \/ \E t \in DOMAIN C : ~Inside(t, q) \/ Conflicting(C[t])
           \/ \E t, u \in kept : Overlap(t, u)
          THEN Refused
          ELSE [status |-> "ok",
                bars |-> {bar \in {last[t] : t \in DOMAIN C} : Included(bar, q.policy)}]
  BY DEF build_data_snapshot
<1> HIDE DEF last
<1>10. (\E t, u \in kept : Overlap(t, u)) <=> over
  BY <1>5, <1>8 DEF OverlapAt
<1>11. {last[t] : t \in DOMAIN C} = sel
  BY <1>5, <1>8
<1> HIDE DEF kept, bad, clash, over, sel
<1>12. build_data_snapshot(C, q) =
         IF clash \/ over THEN Refused
         ELSE [status |-> "ok", bars |-> {bar \in sel : Included(bar, q.policy)}]
  BY <1>7, <1>9, <1>10, <1>11
<1>13. Refused.status # "ok"
  BY DEF Refused
<1>14. s.status = "ok" <=> ~bad /\ ~clash /\ ~over
  BY <1>6, <1>12, <1>13
<1>15. s.status = "ok" => s.bars = {bar \in sel : Included(bar, q.policy)}
  BY <1>6, <1>12, <1>14
<1> QED BY <1>14, <1>15 DEF D, bad, clash, over, sel, WholeAt, SelectedBars

(* What a row must be to be served. *)
Servable(r, policy) == r.state # "REVOKED" /\ (policy = "ALLOW_OPEN" \/ r.final)

(* The newest revision of every candle. *)
NewestOf(rows, P) ==
  {i \in P : \A j \in P : rows[j].t = rows[i].t => rows[j].rev <= rows[i].rev}

LEMMA NewestByCandle ==
  ASSUME NEW rows, NEW P
  PROVE  /\ \A i \in NewestOf(rows, P) : i \in P /\ rows[i].t \in TimesOf(rows, P)
                                         /\ i \in NewestPlaces(rows, Group(rows, P, rows[i].t))
         /\ \A t \in TimesOf(rows, P) : \A i \in NewestPlaces(rows, Group(rows, P, t)) :
              i \in NewestOf(rows, P)
  BY DEF NewestOf, NewestPlaces, Group, TimesOf

(* The reference: when the rows agree and fit, and which are served. *)
Agreeing(rows, P) == \A i \in P : Consistent(rows, Group(rows, P, rows[i].t))
Fitting(rows, P, q) ==
  /\ \A i \in P : Inside(rows[i].t, q)
  /\ \A i, j \in NewestOf(rows, P) :
       rows[i].state # "REVOKED" /\ rows[j].state # "REVOKED"
         => ~Overlap(rows[i].t, rows[j].t)
ServesNewest(rows, P, policy, s) ==
  {bar.row : bar \in s.bars} =
    {r \in {rows[i] : i \in NewestOf(rows, P)} : Servable(r, policy)}

(* Rows that agree are represented by the newest of each candle. *)
LEMMA NewestRepresents ==
  ASSUME NEW rows, NEW P,
         \A t \in TimesOf(rows, P) : NewestRow(rows, Group(rows, P, t), SelectedAt(rows, P, t).row)
  PROVE  /\ \A t \in TimesOf(rows, P) :
              \E i \in NewestOf(rows, P) : rows[i].t = t /\ rows[i] = SelectedAt(rows, P, t).row
         /\ \A i \in NewestOf(rows, P) :
              rows[i].t \in TimesOf(rows, P) /\ rows[i] = SelectedAt(rows, P, rows[i].t).row
<1>1. ASSUME NEW t \in TimesOf(rows, P)
      PROVE  \E i \in NewestOf(rows, P) : rows[i].t = t /\ rows[i] = SelectedAt(rows, P, t).row
  <2>1. SelectedAt(rows, P, t).row \in {rows[i] : i \in NewestPlaces(rows, Group(rows, P, t))}
    BY DEF NewestRow
  <2>2. PICK i \in NewestPlaces(rows, Group(rows, P, t)) : SelectedAt(rows, P, t).row = rows[i]
    BY <2>1
  <2>3. i \in NewestOf(rows, P) /\ rows[i].t = t
    BY <2>2, NewestByCandle DEF NewestPlaces, Group
  <2> QED BY <2>2, <2>3
<1>2. ASSUME NEW i \in NewestOf(rows, P)
      PROVE  rows[i].t \in TimesOf(rows, P) /\ rows[i] = SelectedAt(rows, P, rows[i].t).row
  <2>1. /\ rows[i].t \in TimesOf(rows, P)
        /\ i \in NewestPlaces(rows, Group(rows, P, rows[i].t))
    BY NewestByCandle
  <2>2. rows[i] \in {rows[j] : j \in NewestPlaces(rows, Group(rows, P, rows[i].t))}
    BY <2>1
  <2> QED BY <2>1, <2>2 DEF NewestRow
<1> QED BY <1>1, <1>2

(* build_public_snapshot against the reference. *)
LEMMA SnapshotVerdict ==
  ASSUME NEW rows, NEW P \in SUBSET Nat, IsFiniteSet(P), NEW pr, NEW q,
         \A i \in P : rows[i].t \in Nat,
         \A i \in P : rows[i].rev \in Nat,
         \A i \in P : rows[i].pr = pr,
         NEW s, s = build_public_snapshot(rows, P, pr, q)
  PROVE  /\ s.status = "ok" <=> Agreeing(rows, P) /\ Fitting(rows, P, q)
         /\ s.status = "ok" => ServesNewest(rows, P, q.policy, s)
<1> DEFINE D == TimesOf(rows, P)
           G(t) == Ordered(rows, Group(rows, P, t))
           C(t) == ChainAt(rows, P, t)
           S(t) == SelectedAt(rows, P, t)
           Q(t) == Group(rows, P, t)
<1>0. PICK R : \A i \in P : rows[i] \in R
  <2>1. \A i \in P : rows[i] \in {rows[j] : j \in P}
    OBVIOUS
  <2> QED BY <2>1
<1>1. ASSUME NEW t \in D
      PROVE  /\ Consistent(rows, Q(t)) <=> HasLineage(G(t)) /\ ~Conflicting(C(t))
             /\ Consistent(rows, Q(t)) => NewestRow(rows, Q(t), S(t).row)
  <2>1. PICK group : group = Group(rows, P, t)
    OBVIOUS
  <2>2. group \in SUBSET Nat /\ group \in SUBSET P /\ group # {} /\ t \in Nat
    BY <2>1 DEF Group, TimesOf
  <2>3. IsFiniteSet(group)
    BY <2>2, FS_Subset
  <2>4. /\ \A i \in group : rows[i] \in R
        /\ \A i \in group : rows[i].t = t
        /\ \A i \in group : rows[i].rev \in Nat
    BY <1>0, <2>1, <2>2 DEF Group
  <2>5. PICK g : g = Ordered(rows, group)
    OBVIOUS
  <2>6. PICK c : c = canonicalize(g)
    OBVIOUS
  <2>7. /\ Consistent(rows, group) <=> HasLineage(g) /\ ~Conflicting(c)
        /\ Consistent(rows, group) => NewestRow(rows, group, c[Max(Unique(c))].row)
    BY <2>2, <2>3, <2>4, <2>5, <2>6, GroupVerdict
  <2>8. c = ChainAt(rows, P, t) /\ SelectedAt(rows, P, t) = c[Max(Unique(c))]
    BY <2>1, <2>5, <2>6 DEF ChainAt, SelectedAt
  <2> QED BY <2>1, <2>5, <2>7, <2>8
<1>2. /\ s.status = "ok" <=> /\ \A t \in D : Inside(t, q) /\ HasLineage(G(t)) /\ ~Conflicting(C(t))
                             /\ \A t, u \in D : ~OverlapAt(rows, P, t, u)
      /\ s.status = "ok" => s.bars = {bar \in {S(t) : t \in D} : Included(bar, q.policy)}
  <2>1. /\ s.status = "ok" <=>
             /\ \A t \in TimesOf(rows, P) : Inside(t, q) /\ WholeAt(rows, P, t)
             /\ \A t, u \in TimesOf(rows, P) : ~OverlapAt(rows, P, t, u)
        /\ s.status = "ok" => s.bars = SelectedBars(rows, P, q.policy)
    BY SnapshotByCandle
  <2> QED BY <2>1 DEF WholeAt, SelectedBars
<1>3. \A t, u \in D : OverlapAt(rows, P, t, u) <=>
        S(t).row.state # "REVOKED" /\ S(u).row.state # "REVOKED" /\ Overlap(t, u)
  BY DEF OverlapAt
<1> HIDE DEF G, C, S
<1>4. (\A t \in D : Consistent(rows, Q(t))) <=> Agreeing(rows, P)
  BY DEF TimesOf, Agreeing
<1>5. (\A t \in D : Inside(t, q)) <=> \A i \in P : Inside(rows[i].t, q)
  BY DEF TimesOf
<1> HIDE DEF D, Q
<1>6. s.status = "ok" <=> /\ Agreeing(rows, P) /\ \A t \in D : Inside(t, q)
                          /\ \A t, u \in D : ~OverlapAt(rows, P, t, u)
  BY <1>1, <1>2, <1>4
<1>7. ASSUME Agreeing(rows, P)
      PROVE  /\ \A t \in D : \E i \in NewestOf(rows, P) : rows[i].t = t /\ rows[i] = S(t).row
             /\ \A i \in NewestOf(rows, P) : rows[i].t \in D /\ rows[i] = S(rows[i].t).row
  <2>1. \A t \in TimesOf(rows, P) :
          NewestRow(rows, Group(rows, P, t), SelectedAt(rows, P, t).row)
    BY <1>1, <1>4, <1>7 DEF D, Q, S
  <2> QED BY <2>1, NewestRepresents DEF D, S
<1>8. ASSUME Agreeing(rows, P)
      PROVE  (\A t, u \in D : ~OverlapAt(rows, P, t, u)) <=>
               \A i, j \in NewestOf(rows, P) :
                 rows[i].state # "REVOKED" /\ rows[j].state # "REVOKED"
                   => ~Overlap(rows[i].t, rows[j].t)
  <2>1. ASSUME NEW t \in D, NEW u \in D, OverlapAt(rows, P, t, u)
        PROVE  \E i, j \in NewestOf(rows, P) :
                 rows[i].state # "REVOKED" /\ rows[j].state # "REVOKED"
                   /\ Overlap(rows[i].t, rows[j].t)
    <3>1. PICK i \in NewestOf(rows, P) : rows[i].t = t /\ rows[i] = S(t).row
      BY <1>7, <1>8
    <3>2. PICK j \in NewestOf(rows, P) : rows[j].t = u /\ rows[j] = S(u).row
      BY <1>7, <1>8
    <3> QED BY <1>3, <2>1, <3>1, <3>2
  <2>2. ASSUME NEW i \in NewestOf(rows, P), NEW j \in NewestOf(rows, P),
               rows[i].state # "REVOKED", rows[j].state # "REVOKED",
               Overlap(rows[i].t, rows[j].t)
        PROVE  \E t, u \in D : OverlapAt(rows, P, t, u)
    <3>1. /\ rows[i].t \in D /\ rows[i] = S(rows[i].t).row
          /\ rows[j].t \in D /\ rows[j] = S(rows[j].t).row
      BY <1>7, <1>8
    <3>2. /\ S(rows[i].t).row.state # "REVOKED"
          /\ S(rows[j].t).row.state # "REVOKED"
      BY <2>2, <3>1
    <3>3. OverlapAt(rows, P, rows[i].t, rows[j].t)
      BY <1>3, <2>2, <3>1, <3>2
    <3> QED BY <3>1, <3>3
  <2> QED BY <2>1, <2>2
<1>9. s.status = "ok" <=> Agreeing(rows, P) /\ Fitting(rows, P, q)
  BY <1>5, <1>6, <1>8 DEF Fitting
<1>10. ASSUME s.status = "ok" PROVE ServesNewest(rows, P, q.policy, s)
  <2>1. s.bars = {bar \in {S(t) : t \in D} : Included(bar, q.policy)}
    BY <1>2, <1>10
  <2>2. \A t \in D : Included(S(t), q.policy) <=> Servable(S(t).row, q.policy)
    BY DEF Included, Servable
  <2>3. /\ \A t \in D : \E i \in NewestOf(rows, P) : rows[i].t = t /\ rows[i] = S(t).row
        /\ \A i \in NewestOf(rows, P) : rows[i].t \in D /\ rows[i] = S(rows[i].t).row
    BY <1>7, <1>9, <1>10
  <2>4. PICK B : B = s.bars
    OBVIOUS
  <2>5. PICK W : W = {r \in {rows[i] : i \in NewestOf(rows, P)} : Servable(r, q.policy)}
    OBVIOUS
  <2>6. \A bar \in B : bar.row \in W
    <3> SUFFICES ASSUME NEW bar \in B PROVE bar.row \in W
      OBVIOUS
    <3>1. PICK t \in D : bar = S(t)
      BY <2>1, <2>4
    <3>2. Servable(bar.row, q.policy)
      BY <2>1, <2>2, <2>4, <3>1
    <3>3. PICK i \in NewestOf(rows, P) : rows[i] = S(t).row
      BY <2>3
    <3> QED BY <2>5, <3>1, <3>2, <3>3
  <2>7. \A r \in W : r \in {bar.row : bar \in B}
    <3> SUFFICES ASSUME NEW r \in W PROVE r \in {bar.row : bar \in B}
      OBVIOUS
    <3>1. PICK i \in NewestOf(rows, P) : r = rows[i]
      BY <2>5
    <3>2. PICK t \in D : r = S(t).row
      BY <2>3, <3>1
    <3>3. Servable(r, q.policy)
      BY <2>5
    <3>4. S(t) \in B
      BY <2>1, <2>2, <2>4, <3>2, <3>3
    <3> QED BY <3>2, <3>4
  <2>8. {bar.row : bar \in B} = W
    BY <2>6, <2>7
  <2> QED BY <2>4, <2>5, <2>8 DEF ServesNewest
<1> QED BY <1>9, <1>10

=============================================================================
