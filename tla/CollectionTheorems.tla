-------------------------- MODULE CollectionTheorems --------------------------
(***************************************************************************)
(* Facts about the data structures the models are built from, for the      *)
(* proofs of more than one of them: what Keep returns of a sequence, and   *)
(* that a choice of the best of finitely many elements exists.             *)
(***************************************************************************)
EXTENDS Filtering, Functions, SequencesExt, FiniteSetTheorems,
        WellFoundedInduction, TLAPS

-----------------------------------------------------------------------------
(* Keep. *)

\* The places of a sequence are finitely many.
LEMMA PlacesFinite ==
    ASSUME NEW T, NEW s \in Seq(T), NEW S
    PROVE  /\ Places(s, S) \subseteq 1 .. Len(s)
           /\ IsFiniteSet(Places(s, S)) /\ Cardinality(Places(s, S)) \in Nat
<1>1. Places(s, S) \subseteq 1 .. Len(s) /\ Len(s) \in Int
  BY DEF Places
<1>2. IsFiniteSet(1 .. Len(s))
  BY <1>1, FS_Interval
<1>3. IsFiniteSet(Places(s, S))
  BY <1>1, <1>2, FS_Subset
<1>4. QED
  BY <1>1, <1>3, FS_CardinalityType

\* The numbers from 1 to n are n.
LEMMA FromOneTo ==
    ASSUME NEW n \in Nat
    PROVE  /\ IsFiniteSet(1 .. n) /\ Cardinality(1 .. n) = n
           /\ n = 0 <=> 1 .. n = {}
<1>1. 1 \in Int /\ n \in Int
  OBVIOUS
<1>2. IsFiniteSet(1 .. n) /\ Cardinality(1 .. n) = IF 1 > n THEN 0 ELSE n - 1 + 1
  BY <1>1, FS_Interval
<1>3. n = 0 <=> 1 .. n = {}
  <2>1. n # 0 => 1 \in 1 .. n
    OBVIOUS
  <2>2. QED
    BY <2>1
<1>4. QED
  BY <1>2, <1>3

\* The rank numbers the places of the kept elements from 1 to how many they
\* are, each number once.
LEMMA RankIsBijection ==
    ASSUME NEW T, NEW s \in Seq(T), NEW S
    PROVE  LET at == Places(s, S)
           IN  /\ \A i \in at : Rank(s, S, i) \in 1 .. Cardinality(at)
               /\ \A i, j \in at : Rank(s, S, i) = Rank(s, S, j) => i = j
               /\ \A k \in 1 .. Cardinality(at) : \E i \in at : Rank(s, S, i) = k
<1> DEFINE at == Places(s, S)
           upto(i) == {j \in at : j <= i}
           rank == [i \in at |-> Rank(s, S, i)]
<1>1. at \subseteq 1 .. Len(s) /\ IsFiniteSet(at) /\ Cardinality(at) \in Nat
  BY PlacesFinite
<1>2. at \subseteq Int
  BY <1>1
<1>3. ASSUME NEW i \in at
      PROVE  /\ IsFiniteSet(upto(i)) /\ i \in upto(i)
             /\ Rank(s, S, i) = Cardinality(upto(i))
             /\ Rank(s, S, i) \in 1 .. Cardinality(at)
  <2>1. upto(i) \in SUBSET at /\ i \in upto(i)
    BY <1>2
  <2>2. /\ IsFiniteSet(upto(i)) /\ Cardinality(upto(i)) \in Nat
        /\ Cardinality(upto(i)) <= Cardinality(at)
    BY <1>1, <2>1, FS_Subset, FS_CardinalityType
  <2>3. Cardinality(upto(i)) # 0
    BY <2>1, <2>2, FS_EmptySet
  <2>4. Rank(s, S, i) = Cardinality(upto(i))
    BY DEF Rank
  <2>5. QED
    BY <1>1, <2>1, <2>2, <2>3, <2>4
<1>4. ASSUME NEW i \in at, NEW j \in at, i < j
      PROVE  Rank(s, S, i) # Rank(s, S, j)
  <2>1. upto(i) \in SUBSET upto(j) /\ j \notin upto(i)
    BY <1>2, <1>4
  <2>2. j \in upto(j) /\ IsFiniteSet(upto(j))
    BY <1>3
  <2>3. upto(i) # upto(j)
    BY <2>1, <2>2
  <2>4. Cardinality(upto(i)) # Cardinality(upto(j))
    BY <2>1, <2>2, <2>3, FS_Subset
  <2>5. QED
    BY <1>3, <2>4
<1>5. \A i, j \in at : Rank(s, S, i) = Rank(s, S, j) => i = j
  BY <1>2, <1>4
<1>6. rank \in Injection(at, 1 .. Cardinality(at))
  BY <1>3, <1>5 DEF Injection, IsInjective
<1>7. /\ IsFiniteSet(1 .. Cardinality(at))
      /\ Cardinality(1 .. Cardinality(at)) = Cardinality(at)
  BY <1>1, FromOneTo
<1>8. rank \in Surjection(at, 1 .. Cardinality(at))
  BY <1>6, <1>7, FS_Injection
<1>9. \A k \in 1 .. Cardinality(at) : \E i \in at : Rank(s, S, i) = k
  BY <1>8 DEF Surjection
<1>10. QED
  BY <1>3, <1>5, <1>9

\* The place of the k-th element that is kept.
LEMMA KeepIsOfAPlace ==
    ASSUME NEW T, NEW s \in Seq(T), NEW S, NEW k \in 1 .. Cardinality(Places(s, S))
    PROVE  \E i \in Places(s, S) : Rank(s, S, i) = k /\ Keep(s, S)[k] = s[i]
<1> DEFINE i == CHOOSE x \in Places(s, S) : Rank(s, S, x) = k
<1>1. \E x \in Places(s, S) : Rank(s, S, x) = k
  BY RankIsBijection
<1>2. i \in Places(s, S) /\ Rank(s, S, i) = k
  BY <1>1
<1>3. Keep(s, S)[k] = s[i]
  BY DEF Keep
<1>4. QED
  BY <1>2, <1>3

\* What is kept is a sequence of elements of the original.
LEMMA KeepType ==
    ASSUME NEW T, NEW s \in Seq(T), NEW S
    PROVE  /\ Keep(s, S) \in Seq(T)
           /\ Len(Keep(s, S)) = Cardinality(Places(s, S))
           /\ DOMAIN Keep(s, S) = 1 .. Cardinality(Places(s, S))
<1> DEFINE n == Cardinality(Places(s, S))
<1>1. n \in Nat
  BY PlacesFinite
<1>2. \A k \in 1 .. n : Keep(s, S)[k] \in T
  <2> SUFFICES ASSUME NEW k \in 1 .. n PROVE Keep(s, S)[k] \in T
    OBVIOUS
  <2>1. PICK i \in Places(s, S) : Keep(s, S)[k] = s[i]
    BY KeepIsOfAPlace
  <2>2. i \in 1 .. Len(s)
    BY PlacesFinite
  <2>3. QED
    BY <2>1, <2>2
<1>3. DOMAIN Keep(s, S) = 1 .. n
  BY DEF Keep
<1>4. Keep(s, S) = [k \in 1 .. n |-> Keep(s, S)[k]]
  BY DEF Keep
<1>5. Keep(s, S) \in Seq(T)
  BY <1>1, <1>2, <1>4
<1>6. Len(Keep(s, S)) = n
  BY <1>1, <1>3, <1>5
<1>7. QED
  BY <1>3, <1>5, <1>6

\* What is kept is exactly what is to be kept.
LEMMA KeepElements ==
    ASSUME NEW T, NEW s \in Seq(T), NEW S
    PROVE  ToSet(Keep(s, S)) = ToSet(s) \cap S
<1> DEFINE n == Cardinality(Places(s, S))
<1>1. DOMAIN Keep(s, S) = 1 .. n
  BY KeepType
<1>2. ASSUME NEW k \in 1 .. n
      PROVE  Keep(s, S)[k] \in ToSet(s) \cap S
  <2>1. PICK i \in Places(s, S) : Keep(s, S)[k] = s[i]
    BY KeepIsOfAPlace
  <2>2. QED
    BY <2>1 DEF Places, ToSet
<1>3. ASSUME NEW x \in ToSet(s) \cap S
      PROVE  \E k \in 1 .. n : Keep(s, S)[k] = x
  <2>1. PICK i \in Places(s, S) : s[i] = x
    BY DEF Places, ToSet
  <2>2. Rank(s, S, i) \in 1 .. n
    BY RankIsBijection
  <2>3. PICK j \in Places(s, S) :
            Rank(s, S, j) = Rank(s, S, i) /\ Keep(s, S)[Rank(s, S, i)] = s[j]
    BY <2>2, KeepIsOfAPlace
  <2>4. i = j
    BY <2>3, RankIsBijection
  <2>5. QED
    BY <2>1, <2>2, <2>3, <2>4
<1>4. QED
  BY <1>1, <1>2, <1>3 DEF ToSet

\* A sequence without repetition stays one.
LEMMA KeepInjective ==
    ASSUME NEW T, NEW s \in Seq(T), NEW S, IsInjective(s)
    PROVE  IsInjective(Keep(s, S))
<1> DEFINE n == Cardinality(Places(s, S))
<1> SUFFICES ASSUME NEW k \in 1 .. n, NEW l \in 1 .. n, Keep(s, S)[k] = Keep(s, S)[l]
             PROVE  k = l
  BY KeepType DEF IsInjective
<1>1. PICK i \in Places(s, S) : Rank(s, S, i) = k /\ Keep(s, S)[k] = s[i]
  BY KeepIsOfAPlace
<1>2. PICK j \in Places(s, S) : Rank(s, S, j) = l /\ Keep(s, S)[l] = s[j]
  BY KeepIsOfAPlace
<1>3. i = j
  BY <1>1, <1>2 DEF IsInjective, Places
<1>4. QED
  BY <1>1, <1>2, <1>3

\* A sequence is empty when it has no element, and has finitely many.
LEMMA SequenceElements ==
    ASSUME NEW T, NEW s \in Seq(T)
    PROVE  /\ s = << >> <=> ToSet(s) = {}
           /\ ToSet(s) \subseteq T
           /\ IsFiniteSet(ToSet(s))
<1>1. DOMAIN s = 1 .. Len(s) /\ \A i \in 1 .. Len(s) : s[i] \in T
  OBVIOUS
<1>2. Len(s) \in Nat
  OBVIOUS
<1>3. s = << >> <=> ToSet(s) = {}
  <2>1. s = << >> <=> Len(s) = 0
    OBVIOUS
  <2>2. Len(s) = 0 <=> 1 .. Len(s) = {}
    BY <1>2, FromOneTo
  <2>3. QED
    BY <1>1, <2>1, <2>2 DEF ToSet
<1>4. ToSet(s) \subseteq T
  BY <1>1 DEF ToSet
<1>5. s \in Surjection(1 .. Len(s), ToSet(s))
  <2>1. s \in [1 .. Len(s) -> ToSet(s)]
    BY <1>1 DEF ToSet
  <2>2. QED
    BY <1>1, <2>1 DEF ToSet, Surjection
<1>6. IsFiniteSet(1 .. Len(s))
  BY <1>2, FromOneTo
<1>7. IsFiniteSet(ToSet(s))
  BY <1>5, <1>6, FS_Surjection
<1>8. QED
  BY <1>3, <1>4, <1>7

\* Appending adds the one element, and no repetition if it is new.
LEMMA AppendElements ==
    ASSUME NEW T, NEW s \in Seq(T), NEW x \in T
    PROVE  /\ Append(s, x) \in Seq(T) /\ Append(s, x) # << >>
           /\ ToSet(Append(s, x)) = ToSet(s) \cup {x}
           /\ IsInjective(s) /\ x \notin ToSet(s) => IsInjective(Append(s, x))
<1> DEFINE t == Append(s, x)
           n == Len(s)
<1>1. n \in Nat /\ DOMAIN s = 1 .. n
  OBVIOUS
<1>2. /\ t \in Seq(T) /\ t # << >> /\ DOMAIN t = 1 .. n + 1
      /\ \A i \in 1 .. n : t[i] = s[i]
      /\ t[n + 1] = x
  OBVIOUS
<1>3. 1 .. n + 1 = 1 .. n \cup {n + 1} /\ n + 1 \notin 1 .. n
  BY <1>1
<1>4. ToSet(t) = ToSet(s) \cup {x}
  <2> HIDE DEF t, n
  <2>1. QED
    BY <1>1, <1>2, <1>3 DEF ToSet
<1>5. IsInjective(s) /\ x \notin ToSet(s) => IsInjective(t)
  <2> HIDE DEF t, n
  <2>1. QED
    BY <1>1, <1>2, <1>3 DEF ToSet, IsInjective
<1>6. QED
  BY <1>2, <1>4, <1>5

-----------------------------------------------------------------------------
(* The best of finitely many. *)

\* A relation that is total and transitive on a finite set has a least
\* element there: among the sets of what is below an element, one has none
\* strictly inside of it.
LEMMA FiniteHasLeast ==
    ASSUME NEW S, IsFiniteSet(S), S # {}, NEW R,
           \A x, y \in S : <<x, y>> \in R \/ <<y, x>> \in R,
           \A x, y, z \in S : <<x, y>> \in R /\ <<y, z>> \in R => <<x, z>> \in R
    PROVE  \E x \in S : \A y \in S : <<x, y>> \in R
<1> DEFINE below(x) == {y \in S : <<y, x>> \in R}
           belows == {below(x) : x \in S}
<1>1. belows \subseteq FiniteSubsetsOf(S) /\ belows # {}
  <2>1. \A x \in S : below(x) \in SUBSET S
    OBVIOUS
  <2>2. FiniteSubsetsOf(S) = SUBSET S
    BY FS_FiniteSubsetsOfFinite
  <2>3. \A x \in S : below(x) \in FiniteSubsetsOf(S)
    BY <2>1, <2>2
  <2>4. belows \subseteq FiniteSubsetsOf(S)
    <3> HIDE DEF below
    <3> QED BY <2>3
  <2>5. belows # {}
    <3> HIDE DEF below
    <3>1. PICK x \in S : TRUE
      OBVIOUS
    <3>2. below(x) \in belows
      OBVIOUS
    <3> QED BY <3>2
  <2>6. QED
    BY <2>4, <2>5
<1>2. PICK least \in belows : \A other \in belows : <<other, least>> \notin StrictSubsetOrdering(S)
  BY <1>1, FS_StrictSubsetOrderingWellFounded, WFMin
<1>3. PICK x \in S : least = below(x)
  BY <1>2
<1>4. ASSUME NEW y \in S, <<x, y>> \notin R
      PROVE  FALSE
  <2>1. <<y, x>> \in R /\ <<x, x>> \in R
    BY <1>4
  <2>2. below(y) \subseteq below(x) /\ x \in below(x) /\ x \notin below(y)
    BY <1>4, <2>1
  <2>3. <<below(y), below(x)>> \in StrictSubsetOrdering(S)
    BY <2>2 DEF StrictSubsetOrdering
  <2>4. QED
    BY <1>2, <1>3, <2>3
<1>5. QED
  BY <1>4
=============================================================================
