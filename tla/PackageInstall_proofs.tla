------------------------- MODULE PackageInstall_proofs -------------------------
(***************************************************************************)
(* PackageInstall for any numbers of tasks, applications and operations:   *)
(* an installation is accepted once, its package is held while it runs,    *)
(* and nothing is left in a state that only somebody who is gone could     *)
(* end, through failing saves and crashes.                                 *)
(***************************************************************************)
EXTENDS PackageInstall, SequenceTheorems, CollectionTheorems

-----------------------------------------------------------------------------
(* The registry of operations. *)

Jobs == [id : Ids, app : Apps, up : Uploads \cup {None}]
WorkerPlaces == {"idle", "taken", "call", "install", "mark", "clean", "finish"}

WorkerShape ==
    /\ worker \in [job : Jobs \cup {NoJob}, at : WorkerPlaces, ok : BOOLEAN]
    /\ worker.at = "idle" <=> worker.job = NoJob
    /\ worker.at \in {"install", "mark", "clean"} => worker.job.up # None

(* A list of records never holds two of one operation, of one package, or  *)
(* two that are under way for one application.                             *)
Sound(s) ==
    /\ s \in Seq(OperationRecord) /\ Len(s) <= MaxHistory
    /\ \A i, j \in 1 .. Len(s) : i # j =>
          /\ s[i].id # s[j].id
          /\ s[i].up # None => s[i].up # s[j].up
          /\ s[i].st \in Active /\ s[j].st \in Active => s[i].app # s[j].app

(* The operations that have been accepted and have not ended.              *)
Under(j) == \/ \E i \in 1 .. Len(pending) : j = pending[i]
            \/ worker.at # "idle" /\ j = worker.job

(* They differ, and what the registry says of one is true.                 *)
LiveJobs ==
    /\ \A i, k \in 1 .. Len(pending) : i # k => pending[i].id # pending[k].id
    /\ worker.at # "idle" => \A i \in 1 .. Len(pending) : pending[i].id # worker.job.id
    /\ \A j \in Jobs : Under(j) =>
          \A i \in 1 .. Len(records) : records[i].id = j.id =>
              records[i].st \in Active /\ records[i].app = j.app /\ records[i].up = j.up

Registry ==
    /\ Sound(records) /\ Sound(journal)
    /\ pending \in Seq(Jobs) /\ Len(pending) <= MaxPending
    /\ WorkerShape /\ refusing \in BOOLEAN
    /\ LiveJobs

(* A list is the end of another one, but for its last record.              *)
EndOf(l, s) == \E d \in Nat : /\ Len(l) + d = Len(s)
                              /\ \A i \in 1 .. Len(l) : l[i] = s[i + d]
Extends(l, s) == \E d \in Nat : /\ Len(l) + d = Len(s) + 1
                                /\ \A i \in 1 .. Len(l) : i # Len(l) =>
                                      i + d \in 1 .. Len(s) /\ l[i] = s[i + d]

\* What the history keeps of a list is its end.
LEMMA LatestIsEnd ==
    ASSUME NEW S, NEW s \in Seq(S)
    PROVE  /\ Latest(s) \in Seq(S) /\ Len(Latest(s)) <= MaxHistory
           /\ Len(s) > 0 => Len(Latest(s)) > 0
           /\ EndOf(Latest(s), s)
<1>1. Len(s) \in Nat /\ MaxHistory \in Nat /\ MaxHistory > 0
  BY HistoryHoldsQueue, LenProperties
<1>2. CASE Len(s) <= MaxHistory
  <2>1. Latest(s) = s
    BY <1>1, <1>2 DEF Latest
  <2>2. \A i \in 1 .. Len(s) : s[i] = s[i + 0]
    BY <1>1
  <2>3. QED
    BY <1>1, <1>2, <2>1, <2>2 DEF EndOf
<1>3. CASE Len(s) > MaxHistory
  <2> DEFINE d == Len(s) - MaxHistory
  <2>1. Latest(s) = SubSeq(s, d + 1, Len(s)) /\ d \in Nat /\ d + 1 \in Int
    BY <1>1, <1>3 DEF Latest
  <2>2. \A i \in d + 1 .. Len(s) : s[i] \in S
    BY <1>1, <1>3, ElementOfSeq
  <2>3. /\ Latest(s) \in Seq(S) /\ Len(Latest(s)) = Len(s) - (d + 1) + 1
        /\ \A i \in 1 .. Len(s) - (d + 1) + 1 : Latest(s)[i] = s[d + 1 + i - 1]
    BY <1>1, <1>3, <2>1, <2>2, SubSeqProperties
  <2>4. Len(Latest(s)) = MaxHistory /\ Len(Latest(s)) + d = Len(s)
    BY <1>1, <2>3
  <2>5. \A i \in 1 .. Len(Latest(s)) : Latest(s)[i] = s[i + d]
    BY <1>1, <2>1, <2>3, <2>4
  <2> HIDE DEF d
  <2>6. EndOf(Latest(s), s)
    BY <2>1, <2>4, <2>5 DEF EndOf
  <2>7. QED
    BY <1>1, <2>3, <2>4, <2>6
<1>4. QED
  BY <1>1, <1>2, <1>3

\* A record that is added comes last, and before it is the end of what was.
LEMMA AddedLast ==
    ASSUME NEW S, NEW s \in Seq(S), NEW r \in S, NEW l, l = Latest(Append(s, r))
    PROVE  /\ l \in Seq(S) /\ Len(l) <= MaxHistory /\ Len(l) \in Nat \ {0}
           /\ l[Len(l)] = r
           /\ Extends(l, s)
<1> DEFINE a == Append(s, r)
<1>1. /\ a \in Seq(S) /\ Len(a) = Len(s) + 1 /\ Len(s) \in Nat
      /\ \A i \in 1 .. Len(s) : a[i] = s[i]
      /\ a[Len(s) + 1] = r
  BY AppendProperties, LenProperties
<1>0. l = Latest(a)
  BY DEF a
<1> HIDE DEF a
<1>2. /\ l \in Seq(S) /\ Len(l) <= MaxHistory /\ Len(l) > 0 /\ Len(l) \in Nat /\ EndOf(l, a)
  <2>1. /\ l \in Seq(S) /\ Len(l) <= MaxHistory /\ (Len(a) > 0 => Len(l) > 0)
        /\ EndOf(l, a)
    BY <1>0, <1>1, LatestIsEnd
  <2>2. QED
    BY <1>1, <2>1, LenProperties
<1>3. PICK d \in Nat : Len(l) + d = Len(a) /\ \A i \in 1 .. Len(l) : l[i] = a[i + d]
  BY <1>2 DEF EndOf
<1>4. l[Len(l)] = r
  BY <1>1, <1>2, <1>3
<1>5. ASSUME NEW i \in 1 .. Len(l), i # Len(l)
      PROVE  i + d \in 1 .. Len(s) /\ l[i] = s[i + d]
  BY <1>1, <1>2, <1>3, <1>5
<1>6. QED
  BY <1>1, <1>2, <1>3, <1>4, <1>5 DEF Extends

\* What is in the list then was added or was there.
LEMMA AddedElements ==
    ASSUME NEW S, NEW s \in Seq(S), NEW r \in S, NEW k \in 1 .. Len(Latest(Append(s, r)))
    PROVE  \/ Latest(Append(s, r))[k] = r
           \/ \E n \in 1 .. Len(s) : Latest(Append(s, r))[k] = s[n]
<1> DEFINE l == Latest(Append(s, r))
<1>1. /\ l \in Seq(S) /\ Len(l) <= MaxHistory /\ Len(l) \in Nat \ {0}
      /\ l[Len(l)] = r
      /\ Extends(l, s)
  BY AddedLast
<1> HIDE DEF l
<1>2. k # Len(l) => \E n \in 1 .. Len(s) : l[k] = s[n]
  BY <1>1 DEF Extends, l
<1>3. QED
  BY <1>1, <1>2 DEF l

\* A new record of its own identity and package, and of an application that
\* has nothing under way, keeps the list sound.
LEMMA AddedSound ==
    ASSUME NEW s, Sound(s), NEW r \in OperationRecord,
           \A i \in 1 .. Len(s) : /\ s[i].id # r.id
                                  /\ r.up # None => s[i].up # r.up
                                  /\ r.st \in Active /\ s[i].st \in Active => s[i].app # r.app
    PROVE  Sound(Latest(Append(s, r)))
<1> DEFINE l == Latest(Append(s, r))
<1>1. s \in Seq(OperationRecord) /\ Len(s) \in Nat
  BY LenProperties DEF Sound
<1>2. /\ l \in Seq(OperationRecord) /\ Len(l) <= MaxHistory /\ Len(l) \in Nat \ {0}
      /\ l[Len(l)] = r /\ Extends(l, s)
  BY <1>1, AddedLast
<1> HIDE DEF l
<1>3. PICK d \in Nat : /\ Len(l) + d = Len(s) + 1
                       /\ \A i \in 1 .. Len(l) : i # Len(l) =>
                              i + d \in 1 .. Len(s) /\ l[i] = s[i + d]
  BY <1>2 DEF Extends
<1>4. ASSUME NEW i \in 1 .. Len(l), NEW j \in 1 .. Len(l), i # j
      PROVE  /\ l[i].id # l[j].id
             /\ l[i].up # None => l[i].up # l[j].up
             /\ l[i].st \in Active /\ l[j].st \in Active => l[i].app # l[j].app
  <2>1. CASE i # Len(l) /\ j # Len(l)
    <3>1. i + d \in 1 .. Len(s) /\ j + d \in 1 .. Len(s) /\ i + d # j + d
      BY <1>3, <1>4, <2>1
    <3>2. l[i] = s[i + d] /\ l[j] = s[j + d]
      BY <1>3, <2>1
    <3>3. QED
      BY <3>1, <3>2 DEF Sound
  <2>2. CASE i = Len(l)
    <3>1. l[i] = r /\ j + d \in 1 .. Len(s) /\ l[j] = s[j + d]
      BY <1>2, <1>3, <1>4, <2>2
    <3>2. QED
      BY <3>1
  <2>3. CASE j = Len(l)
    <3>1. l[j] = r /\ i + d \in 1 .. Len(s) /\ l[i] = s[i + d]
      BY <1>2, <1>3, <1>4, <2>3
    <3>2. QED
      BY <3>1
  <2>4. QED
    BY <2>1, <2>2, <2>3
<1>5. QED
  BY <1>2, <1>4 DEF Sound, l

\* The status of a record changes and nothing else: the list stays sound if
\* nothing comes to life.
LEMMA ChangedSound ==
    ASSUME NEW s, Sound(s), NEW t, DOMAIN t = DOMAIN s,
           \A i \in 1 .. Len(s) : \/ t[i] = s[i]
                                  \/ \E st \in Active \cup Ended :
                                        /\ t[i] = [s[i] EXCEPT !.st = st]
                                        /\ st \in Active => s[i].st \in Active,
           \E f : t = [i \in DOMAIN s |-> f[i]]
    PROVE  Sound(t) /\ Len(t) = Len(s)
<1>1. s \in Seq(OperationRecord) /\ Len(s) \in Nat /\ DOMAIN s = 1 .. Len(s)
  BY LenProperties DEF Sound
<1>2. ASSUME NEW i \in 1 .. Len(s)
      PROVE  /\ t[i] \in OperationRecord
             /\ t[i].id = s[i].id /\ t[i].up = s[i].up /\ t[i].app = s[i].app
             /\ t[i].st \in Active => s[i].st \in Active
  <2>1. s[i] \in OperationRecord
    BY <1>1, ElementOfSeq
  <2>2. QED
    BY <2>1 DEF OperationRecord
<1>3. t \in Seq(OperationRecord) /\ Len(t) = Len(s)
  <2>1. t \in [1 .. Len(s) -> OperationRecord]
    BY <1>1, <1>2
  <2>2. QED
    BY <1>1, <2>1
<1>4. ASSUME NEW i \in 1 .. Len(s), NEW j \in 1 .. Len(s), i # j
      PROVE  /\ t[i].id # t[j].id
             /\ t[i].up # None => t[i].up # t[j].up
             /\ t[i].st \in Active /\ t[j].st \in Active => t[i].app # t[j].app
  <2>1. /\ s[i].id # s[j].id
        /\ s[i].up # None => s[i].up # s[j].up
        /\ s[i].st \in Active /\ s[j].st \in Active => s[i].app # s[j].app
    BY <1>4 DEF Sound
  <2>2. QED
    BY <1>2, <2>1
<1>5. QED
  BY <1>3, <1>4 DEF Sound
\* A list names no more operations than it is long.
LEMMA FewIds ==
    ASSUME NEW S, NEW s \in Seq(S)
    PROVE  /\ IsFiniteSet(IdsOf(s)) /\ Cardinality(IdsOf(s)) \in Nat
           /\ Cardinality(IdsOf(s)) <= Len(s)
<1> DEFINE f == [i \in 1 .. Len(s) |-> s[i].id]
<1>1. Len(s) \in Nat /\ DOMAIN s = 1 .. Len(s)
  BY LenProperties
<1>2. f \in Surjection(1 .. Len(s), IdsOf(s))
  BY <1>1 DEF Surjection, IdsOf
<1>3. IsFiniteSet(1 .. Len(s)) /\ Cardinality(1 .. Len(s)) = Len(s)
  BY <1>1, FromOneTo
<1> HIDE DEF f
<1>4. IsFiniteSet(IdsOf(s)) /\ Cardinality(IdsOf(s)) <= Cardinality(1 .. Len(s))
  BY <1>2, <1>3, FS_Surjection
<1>5. QED
  BY <1>3, <1>4, FS_CardinalityType

\* There is always a fresh identity: a record can be in two files, in the
\* queue and in the worker's hands.
LEMMA FreshIdIsFresh ==
    ASSUME Registry
    PROVE  /\ FreshId \in Ids
           /\ FreshId \notin IdsOf(records) \cup IdsOf(journal) \cup IdsOf(pending)
                                \cup {worker.job.id}
<1> DEFINE A == IdsOf(records)
           B == IdsOf(journal)
           C == IdsOf(pending)
           D == {worker.job.id}
           used == A \cup B \cup C \cup D
           free == Ids \ used
           n == 2 * MaxHistory + MaxPending + 2
           R == {p \in free \X free : p[1] <= p[2]}
<1>1. /\ MaxHistory \in Nat /\ MaxPending \in Nat /\ n \in Nat
      /\ records \in Seq(OperationRecord) /\ Len(records) <= MaxHistory
      /\ journal \in Seq(OperationRecord) /\ Len(journal) <= MaxHistory
      /\ pending \in Seq(Jobs) /\ Len(pending) <= MaxPending
  BY HistoryHoldsQueue DEF Registry, Sound
<1>2. Len(records) \in Nat /\ Len(journal) \in Nat /\ Len(pending) \in Nat
  BY <1>1, LenProperties
<1>3. /\ IsFiniteSet(A) /\ Cardinality(A) \in Nat /\ Cardinality(A) <= MaxHistory
      /\ IsFiniteSet(B) /\ Cardinality(B) \in Nat /\ Cardinality(B) <= MaxHistory
      /\ IsFiniteSet(C) /\ Cardinality(C) \in Nat /\ Cardinality(C) <= MaxPending
      /\ IsFiniteSet(D) /\ Cardinality(D) = 1
  <2>1. /\ IsFiniteSet(A) /\ Cardinality(A) \in Nat /\ Cardinality(A) <= Len(records)
    BY <1>1, FewIds
  <2>2. /\ IsFiniteSet(B) /\ Cardinality(B) \in Nat /\ Cardinality(B) <= Len(journal)
    BY <1>1, FewIds
  <2>3. /\ IsFiniteSet(C) /\ Cardinality(C) \in Nat /\ Cardinality(C) <= Len(pending)
    BY <1>1, FewIds
  <2>4. IsFiniteSet(D) /\ Cardinality(D) = 1
    BY FS_Singleton
  <2> HIDE DEF A, B, C, D
  <2>5. QED
    BY <1>1, <1>2, <2>1, <2>2, <2>3, <2>4
<1> HIDE DEF A, B, C, D
<1>4. ASSUME NEW S, NEW T, IsFiniteSet(S), IsFiniteSet(T)
      PROVE  /\ IsFiniteSet(S \cup T) /\ Cardinality(S \cup T) \in Nat
             /\ Cardinality(S \cup T) <= Cardinality(S) + Cardinality(T)
  <2>1. /\ IsFiniteSet(S \cup T)
        /\ Cardinality(S \cup T) = Cardinality(S) + Cardinality(T) - Cardinality(S \cap T)
    BY <1>4, FS_Union
  <2>2. Cardinality(S) \in Nat /\ Cardinality(T) \in Nat /\ Cardinality(S \cap T) \in Nat
    BY <1>4, FS_CardinalityType, FS_Intersection
  <2>3. QED
    BY <2>1, <2>2, FS_CardinalityType
<1>5. IsFiniteSet(used) /\ Cardinality(used) \in Nat /\ Cardinality(used) < n
  <2>1. /\ IsFiniteSet(A \cup B) /\ Cardinality(A \cup B) \in Nat
        /\ Cardinality(A \cup B) <= Cardinality(A) + Cardinality(B)
    BY <1>3, <1>4
  <2>2. /\ IsFiniteSet((A \cup B) \cup C) /\ Cardinality((A \cup B) \cup C) \in Nat
        /\ Cardinality((A \cup B) \cup C) <= Cardinality(A \cup B) + Cardinality(C)
    BY <1>3, <1>4, <2>1
  <2>3. /\ IsFiniteSet(((A \cup B) \cup C) \cup D) /\ Cardinality(((A \cup B) \cup C) \cup D) \in Nat
        /\ Cardinality(((A \cup B) \cup C) \cup D) <= Cardinality((A \cup B) \cup C) + Cardinality(D)
    BY <1>3, <1>4, <2>2
  <2>4. QED
    BY <1>1, <1>3, <2>1, <2>2, <2>3
<1>6. Ids = 1 .. n /\ IsFiniteSet(Ids) /\ Cardinality(Ids) = n
  BY <1>1, FromOneTo DEF Ids
<1> HIDE DEF used, n
<1>7. free # {} /\ IsFiniteSet(free)
  <2>1. ASSUME Ids \subseteq used
        PROVE  FALSE
    <3>1. Cardinality(Ids) <= Cardinality(used)
      BY <1>5, <2>1, FS_Subset
    <3>2. QED
      BY <1>1, <1>5, <1>6, <3>1
  <2>2. QED
    BY <1>6, <2>1, FS_Difference
<1>8. free \subseteq Nat
  BY <1>6
<1>9. \E x \in free : \A y \in free : <<x, y>> \in R
  <2> HIDE DEF free
  <2>1. \A x, y \in free : <<x, y>> \in R <=> x <= y
    OBVIOUS
  <2> HIDE DEF R
  <2>2. \A x, y \in free : <<x, y>> \in R \/ <<y, x>> \in R
    <3>1. \A x, y \in free : x <= y \/ y <= x
      BY <1>8
    <3>2. QED
      BY <2>1, <3>1
  <2>3. \A x, y, z \in free : <<x, y>> \in R /\ <<y, z>> \in R => <<x, z>> \in R
    <3>1. \A x, y, z \in free : x <= y /\ y <= z => x <= z
      BY <1>8
    <3>2. QED
      BY <2>1, <3>1
  <2>4. QED
    BY <1>7, <2>2, <2>3, FiniteHasLeast
<1>10. \E x \in free : \A y \in free : x <= y
  BY <1>9
<1>11. FreshId = CHOOSE x \in Ids \ used : \A y \in Ids \ used : x <= y
  BY DEF FreshId, used, A, B, C, D
<1>12. FreshId \in free
  BY <1>10, <1>11
<1>13. QED
  BY <1>12 DEF used, A, B, C, D

\* A package has an operation if and only if a record names it, and its
\* status is that of a record.
LEMMA BoundIsRecorded ==
    ASSUME NEW s, Sound(s), NEW u \in Uploads
    PROVE  /\ StatusIn(s, u) \in {"none"} \cup Active \cup Ended
           /\ StatusIn(s, u) # "none" <=> \E i \in 1 .. Len(s) : s[i].up = u
           /\ \A i \in 1 .. Len(s) : s[i].up = u => StatusIn(s, u) = s[i].st
<1>1. /\ s \in Seq(OperationRecord) /\ DOMAIN s = 1 .. Len(s) /\ Len(s) \in Nat
      /\ u # None
  BY HistoryHoldsQueue, LenProperties DEF Sound
<1>2. Bindings(s, u) = {i \in 1 .. Len(s) : s[i].up = u}
  BY <1>1 DEF Bindings
<1>3. \A i, j \in Bindings(s, u) : i = j
  BY <1>1, <1>2 DEF Sound
<1>4. ASSUME NEW i \in Bindings(s, u)
      PROVE  StatusIn(s, u) = s[i].st /\ s[i].st \in Active \cup Ended /\ s[i].st # "none"
  <2>1. \A j \in Bindings(s, u) : j <= i
    BY <1>2, <1>3
  <2>2. (CHOOSE k \in Bindings(s, u) : \A j \in Bindings(s, u) : j <= k) = i
    BY <1>3, <2>1
  <2>3. StatusIn(s, u) = s[i].st
    BY <2>2 DEF StatusIn
  <2>4. s[i] \in OperationRecord
    BY <1>1, <1>2, ElementOfSeq
  <2>5. QED
    BY <2>3, <2>4 DEF OperationRecord, Active, Ended
<1>5. CASE Bindings(s, u) = {}
  BY <1>2, <1>5 DEF StatusIn
<1>6. CASE Bindings(s, u) # {}
  BY <1>2, <1>4, <1>6
<1>7. QED
  BY <1>5, <1>6
\* The journal of a restart, with what was under way marked as failed.
LEMMA RecoveredSound ==
    ASSUME Sound(journal)
    PROVE  Sound(Recovered) /\ Len(Recovered) = Len(journal)
<1>1. /\ journal \in Seq(OperationRecord) /\ DOMAIN journal = 1 .. Len(journal)
      /\ DOMAIN Recovered = DOMAIN journal
  BY LenProperties DEF Sound, Recovered
<1>2. ASSUME NEW i \in 1 .. Len(journal)
      PROVE  \/ Recovered[i] = journal[i]
             \/ \E st \in Active \cup Ended :
                   /\ Recovered[i] = [journal[i] EXCEPT !.st = st]
                   /\ st \in Active => journal[i].st \in Active
  BY <1>1 DEF Recovered, Interrupt, Ended
<1>3. \E f : Recovered = [i \in DOMAIN journal |-> f[i]]
  <2> DEFINE f == [i \in DOMAIN journal |-> Interrupt(journal[i])]
  <2>1. Recovered = [i \in DOMAIN journal |-> f[i]]
    BY DEF Recovered
  <2>2. QED
    BY <2>1
<1> HIDE DEF Recovered
<1>4. QED
  BY <1>1, <1>2, <1>3, ChangedSound

\* A status that is updated, in memory and perhaps in the file.
LEMMA UpdateSound ==
    ASSUME Registry, NEW o, NEW st \in Active \cup Ended, Update(o, st),
           st \in Active => \A i \in 1 .. Len(records) :
                               records[i].id = o => records[i].st \in Active
    PROVE  /\ Sound(records') /\ Sound(journal') /\ Len(records') = Len(records)
           /\ \A i \in 1 .. Len(records) :
                 /\ records'[i].id = records[i].id
                 /\ records'[i].app = records[i].app /\ records'[i].up = records[i].up
                 /\ records[i].id # o => records'[i].st = records[i].st
                 /\ records[i].id = o => records'[i].st = st
<1> DEFINE f == [i \in DOMAIN records |->
                    IF records[i].id = o THEN [records[i] EXCEPT !.st = st] ELSE records[i]]
<1>1. records' = f /\ journal' \in {journal, f}
  BY DEF Update, Saved, Raised
<1>2. /\ records \in Seq(OperationRecord) /\ DOMAIN records = 1 .. Len(records)
      /\ Sound(records) /\ Sound(journal)
  BY LenProperties DEF Sound, Registry
<1>3. ASSUME NEW i \in 1 .. Len(records)
      PROVE  /\ \/ f[i] = records[i]
                \/ \E x \in Active \cup Ended :
                      /\ f[i] = [records[i] EXCEPT !.st = x]
                      /\ x \in Active => records[i].st \in Active
             /\ f[i].id = records[i].id
             /\ f[i].app = records[i].app /\ f[i].up = records[i].up
             /\ records[i].id # o => f[i].st = records[i].st
             /\ records[i].id = o => f[i].st = st
  <2>1. records[i] \in OperationRecord
    BY <1>2, ElementOfSeq
  <2>2. f[i] = IF records[i].id = o THEN [records[i] EXCEPT !.st = st] ELSE records[i]
    BY <1>2
  <2> HIDE DEF f
  <2>3. QED
    BY <2>1, <2>2 DEF OperationRecord
<1>4. DOMAIN f = DOMAIN records
  OBVIOUS
<1>5. \E g : f = [i \in DOMAIN records |-> g[i]]
  OBVIOUS
<1> HIDE DEF f
<1>6. Sound(f) /\ Len(f) = Len(records)
  BY <1>2, <1>3, <1>4, <1>5, ChangedSound
<1>7. QED
  BY <1>1, <1>2, <1>3, <1>6

\* An operation is added to the registry, whether its save raises or not.
LEMMA AcceptKeeps ==
    ASSUME Registry, NEW a \in Apps, NEW u \in Uploads \cup {None}, u # None => ~Bound(u),
           Accept(a, u) \/ Uncertain(a, u)
    PROVE  Registry' /\ \A j \in Jobs : Under(j)' => Under(j) \/ j.id \in IdsOf(records')
<1> DEFINE r == [id |-> FreshId, app |-> a, up |-> u, st |-> "queued"]
           e == [r EXCEPT !.st = "failed"]
           s == Latest(Append(records, r))
           f == Latest(Append(records, e))
<1>1. /\ records \in Seq(OperationRecord) /\ DOMAIN records = 1 .. Len(records)
      /\ Len(records) \in Nat /\ Sound(records) /\ Sound(journal)
  BY LenProperties DEF Sound, Registry
<1>2. /\ r \in OperationRecord /\ e \in OperationRecord /\ e = [id |-> FreshId, app |-> a, up |-> u, st |-> "failed"]
      /\ Job(r) \in Jobs /\ Job(r) = [id |-> FreshId, app |-> a, up |-> u]
  BY FreshIdIsFresh DEF OperationRecord, Active, Ended, Job, Jobs
<1>3. ~AppActive(a) /\ Len(pending) < MaxPending
  <2>1. ~Refused(a)
    BY DEF Accept, Uncertain
  <2>2. Len(pending) \in Nat /\ MaxPending \in Nat
    BY HistoryHoldsQueue, LenProperties DEF Registry
  <2>3. QED
    BY <2>1, <2>2 DEF Refused
<1>4. ASSUME NEW i \in 1 .. Len(records)
      PROVE  /\ records[i].id # FreshId
             /\ u # None => records[i].up # u
             /\ records[i].st \in Active => records[i].app # a
  <2>1. records[i].id # FreshId
    BY <1>1, FreshIdIsFresh DEF IdsOf
  <2>2. u # None => records[i].up # u
    BY <1>1, BoundIsRecorded DEF Bound, Status
  <2>3. records[i].st \in Active => records[i].app # a
    BY <1>1, <1>3 DEF AppActive
  <2>4. QED
    BY <2>1, <2>2, <2>3
<1>5. Sound(s) /\ Sound(f)
  <2>1. r.id = FreshId /\ r.up = u /\ r.app = a
    OBVIOUS
  <2>2. e.id = FreshId /\ e.up = u /\ e.app = a
    OBVIOUS
  <2> HIDE DEF r, e
  <2>3. QED
    BY <1>1, <1>2, <1>4, <2>1, <2>2, AddedSound
<1>6. Sound(records') /\ Sound(journal')
  BY <1>1, <1>5 DEF Accept, Uncertain, Saved, Raised
<1>7. UNCHANGED <<worker, refusing>> /\ WorkerShape' /\ refusing' \in BOOLEAN
  BY DEF Accept, Uncertain, Registry, WorkerShape
<1>8. pending \in Seq(Jobs) /\ Len(pending) \in Nat
  BY LenProperties DEF Registry
<1>9. \/ pending' = pending
      \/ pending' = Append(pending, Job(r)) /\ records' = s
  BY DEF Accept, Uncertain
<1>10. pending' \in Seq(Jobs) /\ Len(pending') <= MaxPending
  <2>1. Append(pending, Job(r)) \in Seq(Jobs) /\ Len(Append(pending, Job(r))) = Len(pending) + 1
    BY <1>2, <1>8, AppendProperties
  <2>2. MaxPending \in Nat /\ Len(pending) <= MaxPending
    BY HistoryHoldsQueue DEF Registry
  <2> HIDE DEF r, s
  <2>3. QED
    BY <1>3, <1>8, <1>9, <2>1, <2>2
<1>11. ASSUME NEW j \in 1 .. Len(pending')
       PROVE  \/ j \in 1 .. Len(pending) /\ pending'[j] = pending[j]
              \/ /\ j = Len(pending) + 1 /\ pending' = Append(pending, Job(r)) /\ records' = s
                 /\ pending'[j] = Job(r)
  <2>1. CASE pending' = pending
    BY <2>1
  <2>2. CASE pending' = Append(pending, Job(r)) /\ records' = s
    <3>1. /\ Len(pending') = Len(pending) + 1
          /\ \A i \in 1 .. Len(pending) : pending'[i] = pending[i]
          /\ pending'[Len(pending) + 1] = Job(r)
      BY <1>2, <1>8, <2>2, AppendProperties
    <3> HIDE DEF r, s
    <3>2. QED
      BY <1>8, <2>2, <3>1
  <2>3. QED
    BY <1>9, <2>1, <2>2
<1>12. FreshId # worker.job.id /\ \A i \in 1 .. Len(pending) : pending[i].id # FreshId
  <2>1. DOMAIN pending = 1 .. Len(pending)
    BY <1>8, LenProperties
  <2>2. QED
    BY <2>1, FreshIdIsFresh DEF IdsOf
<1>13. Job(r).id = FreshId /\ Job(r).app = a /\ Job(r).up = u
  BY <1>2
<1>14. ASSUME NEW i \in 1 .. Len(records')
       PROVE  \/ records'[i] = r /\ records' = s
              \/ records'[i] = e /\ pending' = pending
              \/ \E k \in 1 .. Len(records) : records'[i] = records[k]
  <2>1. ASSUME NEW x \in OperationRecord, NEW l, l = Latest(Append(records, x)), NEW k \in 1 .. Len(l)
        PROVE  l[k] = x \/ \E n \in 1 .. Len(records) : l[k] = records[n]
    <3> HIDE DEF r, e, s, f
    <3>1. QED
      BY <1>1, <2>1, AddedElements
  <2>2. records' = s \/ (records' = f /\ pending' = pending)
    BY DEF Accept, Uncertain
  <2>3. CASE records' = s
    BY <1>2, <2>1, <2>3
  <2>4. CASE records' = f /\ pending' = pending
    BY <1>2, <2>1, <2>4
  <2>5. QED
    BY <2>2, <2>3, <2>4
<1>15. ASSUME NEW j \in Jobs, Under(j)'
       PROVE  Under(j) \/ (j = Job(r) /\ records' = s /\ pending' # pending)
  <2>1. CASE worker.at # "idle" /\ j = worker.job
    BY <2>1 DEF Under
  <2>2. CASE \E k \in 1 .. Len(pending') : j = pending'[k]
    <3> HIDE DEF r, s
    <3>1. PICK k \in 1 .. Len(pending') : j = pending'[k]
      BY <2>2
    <3>2. CASE k \in 1 .. Len(pending) /\ pending'[k] = pending[k]
      BY <3>1, <3>2 DEF Under
    <3>3. CASE k = Len(pending) + 1 /\ records' = s /\ pending'[k] = Job(r)
      BY <1>8, <3>1, <3>3
    <3>4. QED
      BY <1>11, <3>2, <3>3
  <2>3. QED
    BY <1>7, <1>15, <2>1, <2>2 DEF Under
<1>16. LiveJobs'
  <2>1. \A i, k \in 1 .. Len(pending') : i # k => pending'[i].id # pending'[k].id
    <3> HIDE DEF r, s
    <3>1. \A i, k \in 1 .. Len(pending) : i # k => pending[i].id # pending[k].id
      BY DEF Registry, LiveJobs
    <3>2. QED
      BY <1>8, <1>11, <1>12, <1>13, <3>1
  <2>2. worker.at # "idle" => \A i \in 1 .. Len(pending') : pending'[i].id # worker.job.id
    <3> HIDE DEF r, s
    <3>1. worker.at # "idle" => \A i \in 1 .. Len(pending) : pending[i].id # worker.job.id
      BY DEF Registry, LiveJobs
    <3>2. QED
      BY <1>11, <1>12, <1>13, <3>1
  <2>3. ASSUME NEW j \in Jobs, Under(j)', NEW i \in 1 .. Len(records'), records'[i].id = j.id
        PROVE  /\ records'[i].st \in Active /\ records'[i].app = j.app /\ records'[i].up = j.up
    <3>1. Under(j) \/ (j = Job(r) /\ records' = s /\ pending' # pending)
      BY <1>15, <2>3
    <3>2. CASE Under(j)
      <4>1. j.id # FreshId
        BY <1>12, <3>2 DEF Under
      <4>2. r.id = FreshId /\ e.id = FreshId
        OBVIOUS
      <4> HIDE DEF r, e, s
      <4>3. PICK k \in 1 .. Len(records) : records'[i] = records[k]
        BY <1>14, <2>3, <4>1, <4>2
      <4>4. QED
        BY <2>3, <3>2, <4>3 DEF Registry, LiveJobs
    <3>3. CASE j = Job(r) /\ records' = s /\ pending' # pending
      <4>1. r.id = FreshId /\ r.app = a /\ r.up = u /\ r.st \in Active
        BY DEF Active
      <4> HIDE DEF r, e, s
      <4>2. records'[i] = r
        BY <1>4, <1>13, <1>14, <2>3, <3>3
      <4>3. QED
        BY <1>13, <3>3, <4>1, <4>2
    <3>4. QED
      BY <3>1, <3>2, <3>3
  <2>4. QED
    BY <1>7, <2>1, <2>2, <2>3 DEF LiveJobs
<1>17. records' = s => FreshId \in IdsOf(records')
  <2>1. s \in Seq(OperationRecord) /\ Len(s) \in Nat \ {0} /\ s[Len(s)] = r
    BY <1>1, <1>2, AddedLast
  <2>2. r.id = FreshId
    OBVIOUS
  <2> HIDE DEF r, s
  <2>3. DOMAIN s = 1 .. Len(s) /\ Len(s) \in 1 .. Len(s)
    BY <2>1, LenProperties
  <2>4. QED
    BY <2>1, <2>2, <2>3 DEF IdsOf
<1>18. \A j \in Jobs : Under(j)' => Under(j) \/ j.id \in IdsOf(records')
  BY <1>13, <1>15, <1>17
<1>19. QED
  BY <1>6, <1>7, <1>10, <1>16, <1>18 DEF Registry
\* The worker takes the oldest operation.
LEMMA TakeKeeps ==
    ASSUME Registry, Take
    PROVE  Registry' /\ \A j \in Jobs : Under(j)' => Under(j)
<1>1. /\ pending \in Seq(Jobs) /\ Len(pending) \in Nat /\ pending # << >>
      /\ Len(pending) <= MaxPending /\ MaxPending \in Nat
  BY HistoryHoldsQueue, LenProperties DEF Registry, Take
<1>2. /\ Head(pending) = pending[1] /\ 1 \in 1 .. Len(pending) /\ pending[1] \in Jobs
      /\ Tail(pending) \in Seq(Jobs) /\ Len(Tail(pending)) = Len(pending) - 1
      /\ \A i \in 1 .. Len(Tail(pending)) : Tail(pending)[i] = pending[i + 1]
  BY <1>1, HeadTailProperties, EmptySeq
<1>3. /\ pending' = Tail(pending) /\ worker' = [job |-> pending[1], at |-> "taken", ok |-> FALSE]
      /\ UNCHANGED <<records, journal, refusing>>
  BY <1>2 DEF Take
<1>4. ASSUME NEW i \in 1 .. Len(pending')
      PROVE  i + 1 \in 1 .. Len(pending) /\ i + 1 # 1 /\ pending'[i] = pending[i + 1]
  BY <1>1, <1>2, <1>3
<1>5. pending' \in Seq(Jobs) /\ Len(pending') <= MaxPending
  BY <1>1, <1>2, <1>3
<1>6. worker'.job = pending[1] /\ worker'.at = "taken" /\ pending[1].id # 0
  <2>1. pending[1].id \in Ids /\ 0 \notin Ids
    BY <1>2 DEF Jobs, Ids
  <2>2. QED
    BY <1>3, <2>1
<1>7. WorkerShape'
  <2>1. worker' \in [job : Jobs \cup {NoJob}, at : WorkerPlaces, ok : BOOLEAN]
    BY <1>2, <1>3 DEF WorkerPlaces
  <2>2. worker'.job # NoJob
    BY <1>6 DEF NoJob
  <2>3. QED
    BY <1>6, <2>1, <2>2 DEF WorkerShape
<1>8. \A j \in Jobs : Under(j)' => Under(j)
  BY <1>2, <1>4, <1>6 DEF Under
<1>9. LiveJobs'
  <2>1. \A i, k \in 1 .. Len(pending) : i # k => pending[i].id # pending[k].id
    BY DEF Registry, LiveJobs
  <2>2. ASSUME NEW i \in 1 .. Len(pending'), NEW k \in 1 .. Len(pending'), i # k
        PROVE  pending'[i].id # pending'[k].id
    <3>1. i + 1 # k + 1
      BY <2>2
    <3>2. QED
      BY <1>4, <2>1, <3>1
  <2>3. \A i \in 1 .. Len(pending') : pending'[i].id # worker'.job.id
    BY <1>2, <1>4, <1>6, <2>1
  <2>4. \A j \in Jobs : Under(j)' =>
          \A i \in 1 .. Len(records) : records[i].id = j.id =>
              records[i].st \in Active /\ records[i].app = j.app /\ records[i].up = j.up
    BY <1>8 DEF Registry, LiveJobs
  <2>5. QED
    BY <1>3, <2>2, <2>3, <2>4 DEF LiveJobs
<1>10. QED
  BY <1>3, <1>5, <1>7, <1>8, <1>9 DEF Registry

\* An operation becomes "running", or ends: its record follows, also if the
\* save raises, and the records of the others stay.
LEMMA UpdateKeeps ==
    ASSUME Registry, StartOperation \/ FinishOperation
    PROVE  Registry' /\ \A j \in Jobs : Under(j)' => Under(j)
<1>1. /\ worker.at # "idle" /\ worker.job \in Jobs /\ Under(worker.job)
  BY DEF StartOperation, FinishOperation, Registry, WorkerShape, Under
<1>2. UNCHANGED <<pending, refusing>>
  BY DEF StartOperation, FinishOperation
<1>3. PICK st \in Active \cup Ended :
        /\ Update(worker.job.id, st)
        /\ st \in Active <=> worker'.at # "idle"
  <2>1. CASE StartOperation
    <3>1. worker'.at = "call"
      BY <2>1 DEF StartOperation, Registry, WorkerShape
    <3>2. Update(worker.job.id, "running") /\ "running" \in Active \cup Ended
      BY <2>1 DEF StartOperation, Active
    <3>3. QED
      BY <3>1, <3>2 DEF Active
  <2>2. CASE FinishOperation
    <3>1. worker'.at = "idle"
      BY <2>2 DEF FinishOperation, Idle
    <3>2. \E st \in Ended : Update(worker.job.id, st)
      BY <2>2 DEF FinishOperation, Ended
    <3>3. Active \cap Ended = {}
      BY DEF Active, Ended
    <3>4. QED
      BY <3>1, <3>2, <3>3
  <2>3. QED
    BY <2>1, <2>2
<1>4. \A i \in 1 .. Len(records) : records[i].id = worker.job.id => records[i].st \in Active
  BY <1>1 DEF Registry, LiveJobs
<1>5. /\ Sound(records') /\ Sound(journal') /\ Len(records') = Len(records)
      /\ \A i \in 1 .. Len(records) :
            /\ records'[i].id = records[i].id
            /\ records'[i].app = records[i].app /\ records'[i].up = records[i].up
            /\ records[i].id # worker.job.id => records'[i].st = records[i].st
            /\ records[i].id = worker.job.id => records'[i].st = st
  BY <1>3, <1>4, UpdateSound
<1>6. /\ worker' = IF worker'.at = "idle" THEN Idle ELSE [worker EXCEPT !.at = "call"]
      /\ worker'.at \in {"idle", "call"}
  BY DEF StartOperation, FinishOperation, Idle, Registry, WorkerShape
<1>7. WorkerShape' /\ (worker'.at # "idle" => worker'.job = worker.job)
  <2>1. CASE worker'.at = "idle"
    <3>1. worker' = Idle
      BY <1>6, <2>1
    <3>2. worker'.job = NoJob /\ worker'.at = "idle"
          /\ worker' \in [job : Jobs \cup {NoJob}, at : WorkerPlaces, ok : BOOLEAN]
      BY <3>1 DEF Idle, WorkerPlaces
    <3>3. QED
      BY <3>2 DEF WorkerShape
  <2>2. CASE worker'.at = "call"
    <3>1. worker' = [worker EXCEPT !.at = "call"] /\ worker.job # NoJob
      BY <1>1, <1>6, <2>2 DEF Registry, WorkerShape
    <3>2. worker \in [job : Jobs \cup {NoJob}, at : WorkerPlaces, ok : BOOLEAN]
      BY DEF Registry, WorkerShape
    <3>3. worker' \in [job : Jobs \cup {NoJob}, at : WorkerPlaces, ok : BOOLEAN]
          /\ worker'.job = worker.job
      BY <3>1, <3>2 DEF WorkerPlaces
    <3>4. QED
      BY <2>2, <3>1, <3>3 DEF WorkerShape
  <2>3. QED
    BY <1>6, <2>1, <2>2
<1>8. \A j \in Jobs : Under(j)' => Under(j)
  BY <1>1, <1>2, <1>7 DEF Under
<1>9. LiveJobs'
  <2>1. \A i, k \in 1 .. Len(pending') : i # k => pending'[i].id # pending'[k].id
    BY <1>2 DEF Registry, LiveJobs
  <2>2. \A i \in 1 .. Len(pending) : pending[i].id # worker.job.id
    BY <1>1 DEF Registry, LiveJobs
  <2>3. ASSUME NEW j \in Jobs, Under(j)', NEW i \in 1 .. Len(records), records[i].id = j.id
        PROVE  records'[i].st \in Active /\ records'[i].app = j.app /\ records'[i].up = j.up
    <3>1. records[i].st \in Active /\ records[i].app = j.app /\ records[i].up = j.up
      BY <1>8, <2>3 DEF Registry, LiveJobs
    <3>2. CASE records[i].id # worker.job.id
      BY <1>5, <3>1, <3>2
    <3>3. CASE records[i].id = worker.job.id
      <4>1. worker'.at # "idle"
        BY <1>2, <2>2, <2>3, <3>3 DEF Under
      <4>2. QED
        BY <1>3, <1>5, <3>1, <3>3, <4>1
    <3>4. QED
      BY <3>2, <3>3
  <2>4. ASSUME NEW j \in Jobs, Under(j)', NEW i \in 1 .. Len(records'), records'[i].id = j.id
        PROVE  records'[i].st \in Active /\ records'[i].app = j.app /\ records'[i].up = j.up
    BY <1>5, <2>3, <2>4
  <2>5. worker'.at # "idle" => \A i \in 1 .. Len(pending') : pending'[i].id # worker'.job.id
    BY <1>2, <1>7, <2>2
  <2>6. QED
    BY <2>1, <2>4, <2>5 DEF LiveJobs
<1>10. QED
  BY <1>2, <1>5, <1>7, <1>8, <1>9 DEF Registry

\* A callback goes on, or the registry is closed: the records stay.
LEMMA CallKeeps ==
    ASSUME Registry, UNCHANGED <<records, journal, pending>>, refusing' \in BOOLEAN,
           \/ worker' = worker
           \/ \E to \in WorkerPlaces \ {"idle"}, ok \in BOOLEAN :
                 /\ worker.at # "idle"
                 /\ worker' = [job |-> worker.job, at |-> to, ok |-> ok]
                 /\ to \in {"install", "mark", "clean"} => worker.job.up # None
    PROVE  Registry' /\ \A j \in Jobs : Under(j)' => Under(j)
<1>1. /\ worker'.job = worker.job /\ (worker'.at = "idle" <=> worker.at = "idle")
      /\ WorkerShape'
  <2>1. CASE worker' = worker
    BY <2>1 DEF Registry, WorkerShape
  <2>2. CASE worker' # worker
    <3>1. PICK to \in WorkerPlaces \ {"idle"}, ok \in BOOLEAN :
             /\ worker.at # "idle"
             /\ worker' = [job |-> worker.job, at |-> to, ok |-> ok]
             /\ to \in {"install", "mark", "clean"} => worker.job.up # None
      BY <2>2
    <3>2. worker'.job = worker.job /\ worker'.at = to /\ worker.job \in Jobs \cup {NoJob}
      BY <3>1 DEF Registry, WorkerShape
    <3>3. worker' \in [job : Jobs \cup {NoJob}, at : WorkerPlaces, ok : BOOLEAN]
      BY <3>1, <3>2
    <3>4. QED
      BY <3>1, <3>2, <3>3 DEF Registry, WorkerShape
  <2>3. QED
    BY <2>1, <2>2
<1>2. \A j \in Jobs : Under(j)' <=> Under(j)
  BY <1>1 DEF Under
<1>3. LiveJobs'
  BY <1>1, <1>2 DEF Registry, LiveJobs
<1>4. QED
  BY <1>1, <1>2, <1>3 DEF Registry

\* A new process starts with an empty queue and an idle worker.
LEMMA RestartKeeps ==
    ASSUME Registry, RestartOperations
    PROVE  Registry' /\ \A j \in Jobs : ~Under(j)'
<1>1. /\ records' = Recovered /\ journal' = Recovered /\ pending' = << >>
      /\ worker' = Idle /\ refusing' = FALSE
  BY DEF RestartOperations
<1>2. Sound(records') /\ Sound(journal')
  BY <1>1, RecoveredSound DEF Registry
<1>3. pending' \in Seq(Jobs) /\ Len(pending') = 0 /\ MaxPending \in Nat
  BY <1>1, HistoryHoldsQueue, EmptySeq
<1>4. WorkerShape' /\ worker'.at = "idle"
  BY <1>1 DEF WorkerShape, Idle, WorkerPlaces
<1>5. \A j \in Jobs : ~Under(j)'
  BY <1>3, <1>4 DEF Under
<1>6. LiveJobs'
  BY <1>3, <1>4, <1>5 DEF LiveJobs
<1>7. QED
  <2>1. Len(pending') <= MaxPending
    BY <1>3
  <2>2. refusing' \in BOOLEAN
    BY <1>1
  <2>3. QED
    BY <1>2, <1>3, <1>4, <1>5, <1>6, <2>1, <2>2, Zenon DEF Registry

\* Nothing has been accepted at first.
LEMMA RegistryInitially ==
    ASSUME InitOperations
    PROVE  Registry
<1>1. << >> \in Seq(OperationRecord) /\ << >> \in Seq(Jobs) /\ Len(<< >>) = 0
  BY EmptySeq
<1>2. MaxHistory \in Nat /\ MaxPending \in Nat
  BY HistoryHoldsQueue
<1>3. Sound(records) /\ Sound(journal) /\ pending \in Seq(Jobs) /\ Len(pending) = 0
  BY <1>1, <1>2 DEF InitOperations, Sound
<1>4. WorkerShape /\ worker.at = "idle" /\ refusing \in BOOLEAN
  BY DEF InitOperations, WorkerShape, Idle, WorkerPlaces
<1>5. LiveJobs
  BY <1>3, <1>4 DEF LiveJobs, Under
<1>6. QED
  BY <1>2, <1>3, <1>4, <1>5 DEF Registry
-----------------------------------------------------------------------------
(* The registry and the request that finalizes a package.                  *)

FlightPlaces == {"idle", "verified", "submit", "accepted", "rollback", "drop"}
FlightShape ==
    /\ flight \in [up : Uploads \cup {None}, store : BOOLEAN, at : FlightPlaces]
    /\ flight.at = "idle" => flight = NoFlight
    /\ flight.at # "idle" => flight.up \in Uploads

(* What has been looked up under the finalize lock is still true.          *)
Unbound == flight.at \in {"verified", "submit"} => ~Bound(flight.up)

RegistryInv == Registry /\ FlightShape /\ Unbound

(* What comes under way is in the registry.                                *)
Joins == \A j \in Jobs : Under(j)' => Under(j) \/ j.id \in IdsOf(records')

\* A package gets its operation only from the request that holds its lock.
LEMMA UnboundStays ==
    ASSUME Sound(records), Sound(records'), NEW u \in Uploads, ~Bound(u), NEW v, v # u,
           \A i \in 1 .. Len(records') :
              \/ records'[i].up = v
              \/ \E k \in 1 .. Len(records) : records'[i].up = records[k].up
    PROVE  ~Bound(u)'
<1>2. \A k \in 1 .. Len(records) : records[k].up # u
  BY BoundIsRecorded DEF Bound, Status
<1>3. \A i \in 1 .. Len(records') : records'[i].up # u
  BY <1>2
<1>4. StatusIn(records', u) = "none"
  BY <1>3, BoundIsRecorded
<1>5. QED
  BY <1>4 DEF Bound, Status

\* A mutation names the package it is submitted with, and no other.
LEMMA AcceptNames ==
    ASSUME Registry, NEW a \in Apps, NEW v \in Uploads \cup {None},
           Accept(a, v) \/ Uncertain(a, v), NEW i \in 1 .. Len(records')
    PROVE  records'[i].up = v \/ \E k \in 1 .. Len(records) : records'[i].up = records[k].up
<1> DEFINE r == [id |-> FreshId, app |-> a, up |-> v, st |-> "queued"]
           e == [r EXCEPT !.st = "failed"]
<1>1. records \in Seq(OperationRecord)
  BY DEF Registry, Sound
<1>2. r \in OperationRecord /\ e \in OperationRecord /\ r.up = v /\ e.up = v
  BY FreshIdIsFresh DEF OperationRecord, Active, Ended
<1>3. records' = Latest(Append(records, r)) \/ records' = Latest(Append(records, e))
  BY DEF Accept, Uncertain
<1> HIDE DEF r, e
<1>4. CASE records' = Latest(Append(records, r))
  <2>1. i \in 1 .. Len(Latest(Append(records, r)))
    BY <1>4
  <2>2. records'[i] = r \/ \E k \in 1 .. Len(records) : records'[i] = records[k]
    BY <1>1, <1>2, <1>4, <2>1, AddedElements
  <2>3. QED
    BY <1>2, <2>2
<1>5. CASE records' = Latest(Append(records, e))
  <2>1. i \in 1 .. Len(Latest(Append(records, e)))
    BY <1>5
  <2>2. records'[i] = e \/ \E k \in 1 .. Len(records) : records'[i] = records[k]
    BY <1>1, <1>2, <1>5, <2>1, AddedElements
  <2>3. QED
    BY <1>2, <2>2
<1>6. QED
  BY <1>3, <1>4, <1>5

\* An update changes no package.
LEMMA UpdatesNameTheSame ==
    ASSUME Registry, StartOperation \/ FinishOperation
    PROVE  Len(records') = Len(records)
           /\ \A i \in 1 .. Len(records) : records'[i].up = records[i].up
<1>1. /\ records \in Seq(OperationRecord) /\ DOMAIN records = 1 .. Len(records)
      /\ Len(records) \in Nat
  BY LenProperties DEF Registry, Sound
<1>2. PICK st : Update(worker.job.id, st)
  BY DEF StartOperation, FinishOperation
<1>3. records' = [i \in 1 .. Len(records) |->
                     IF records[i].id = worker.job.id THEN [records[i] EXCEPT !.st = st]
                     ELSE records[i]]
  BY <1>1, <1>2 DEF Update
<1>4. \A i \in 1 .. Len(records) : records[i] \in OperationRecord
  BY <1>1, ElementOfSeq
<1>5. \A i \in 1 .. Len(records) : records'[i].up = records[i].up
  BY <1>3, <1>4 DEF OperationRecord
<1>6. Len(records') = Len(records)
  BY <1>1, <1>3
<1>7. QED
  BY <1>5, <1>6

\* A request of the store, the loader, or a stutter leaves both alone.
LEMMA ElsewhereKeepsRegistry ==
    ASSUME RegistryInv, UNCHANGED <<opVars, flight>>
    PROVE  RegistryInv' /\ Joins
<1>1. UNCHANGED <<records, journal, pending, worker, refusing, flight>>
  BY DEF opVars
<1>2. Registry'
  BY <1>1, CallKeeps DEF RegistryInv, Registry
<1>3. Joins
  BY <1>1 DEF Joins, Under
<1>4. QED
  BY <1>1, <1>2, <1>3 DEF RegistryInv, FlightShape, Unbound, Bound, Status

\* The steps of do_v1_install, and any other mutation.
LEMMA FlightKeepsRegistry ==
    ASSUME RegistryInv,
           \/ \E u \in Uploads, store \in BOOLEAN : Finalize(u, store)
           \/ FlightStep
           \/ \E a \in Apps : Mutate(a)
    PROVE  RegistryInv' /\ Joins
<1>1. FlightShape /\ Registry /\ NoFlight.at = "idle" /\ NoFlight.up = None
  BY DEF RegistryInv, NoFlight
<1>2. ASSUME UNCHANGED opVars
      PROVE  Registry' /\ Joins /\ \A u : Bound(u)' <=> Bound(u)
  <2>1. UNCHANGED <<records, journal, pending, worker, refusing>>
    BY <1>2 DEF opVars
  <2>2. Registry'
    BY <1>1, <2>1, CallKeeps DEF Registry
  <2>3. QED
    BY <2>1, <2>2 DEF Joins, Under, Bound, Status
<1>3. CASE flight' = NoFlight /\ UNCHANGED opVars
  BY <1>1, <1>2, <1>3 DEF RegistryInv, FlightShape, Unbound, FlightPlaces, NoFlight
<1>4. ASSUME NEW u \in Uploads, NEW store \in BOOLEAN, Finalize(u, store)
      PROVE  RegistryInv' /\ Joins
  <2>1. flight' = [up |-> u, store |-> store, at |-> "verified"] /\ ~Bound(u) /\ UNCHANGED opVars
    BY <1>4 DEF Finalize
  <2>2. flight'.up = u /\ flight'.at = "verified"
        /\ flight' \in [up : Uploads \cup {None}, store : BOOLEAN, at : FlightPlaces]
    BY <2>1 DEF FlightPlaces
  <2>3. ~Bound(u)'
    BY <1>2, <2>1
  <2>4. FlightShape' /\ Unbound'
    BY <2>2, <2>3 DEF FlightShape, Unbound
  <2>5. QED
    BY <1>2, <2>1, <2>4 DEF RegistryInv
<1>5. CASE QueueUpload
  <2>1. UNCHANGED opVars /\ flight.at = "verified"
        /\ (flight' = [flight EXCEPT !.at = "submit"] \/ flight' = NoFlight)
    BY <1>5 DEF QueueUpload
  <2>2. CASE flight' = [flight EXCEPT !.at = "submit"]
    <3>1. flight' \in [up : Uploads \cup {None}, store : BOOLEAN, at : FlightPlaces]
          /\ flight'.up = flight.up /\ flight'.at = "submit" /\ flight.up \in Uploads
      BY <1>1, <2>1, <2>2 DEF FlightShape, FlightPlaces
    <3>2. PICK u \in Uploads : u = flight.up
      BY <3>1
    <3>3. ~Bound(u)'
      BY <1>2, <2>1, <3>2 DEF RegistryInv, Unbound
    <3>4. flight'.up = u
      BY <3>1, <3>2
    <3>5. FlightShape' /\ Unbound'
      BY <3>1, <3>3, <3>4 DEF FlightShape, Unbound
    <3>6. QED
      BY <1>2, <2>1, <3>5 DEF RegistryInv
  <2>3. QED
    BY <1>3, <2>1, <2>2
<1>6. CASE Submit
  <2>1. /\ flight.at = "submit" /\ flight.up \in Uploads /\ AppOf[flight.up] \in Apps
        /\ ~Bound(flight.up)
    BY <1>1, <1>6, TaskNames DEF Submit, FlightShape, RegistryInv, Unbound
  <2>2. \E at \in {"accepted", "drop", "rollback"} : flight' = [flight EXCEPT !.at = at]
    BY <1>6 DEF Submit
  <2>3. FlightShape' /\ Unbound'
    <3>1. PICK at \in {"accepted", "drop", "rollback"} : flight' = [flight EXCEPT !.at = at]
      BY <2>2
    <3>2. flight' \in [up : Uploads \cup {None}, store : BOOLEAN, at : FlightPlaces]
          /\ flight'.up = flight.up /\ flight'.at = at
      BY <1>1, <3>1 DEF FlightShape, FlightPlaces
    <3>3. QED
      BY <2>1, <3>2 DEF FlightShape, Unbound
  <2>4. Registry' /\ Joins
    <3>1. CASE Accept(AppOf[flight.up], flight.up) \/ Uncertain(AppOf[flight.up], flight.up)
      BY <1>1, <2>1, <3>1, AcceptKeeps DEF Joins
    <3>2. CASE UNCHANGED opVars
      BY <1>2, <3>2
    <3>3. QED
      BY <1>6, <3>1, <3>2 DEF Submit
  <2>5. QED
    BY <2>3, <2>4 DEF RegistryInv
<1>7. ASSUME NEW a \in Apps, Mutate(a)
      PROVE  RegistryInv' /\ Joins
  <2>1. (Accept(a, None) \/ Uncertain(a, None)) /\ UNCHANGED flight
    BY <1>7 DEF Mutate
  <2>2. Registry' /\ Joins
    BY <1>1, <2>1, AcceptKeeps DEF Joins
  <2>3. ASSUME NEW u \in Uploads, ~Bound(u)
        PROVE  ~Bound(u)'
    <3>1. Sound(records) /\ Sound(records')
      BY <1>1, <2>2 DEF Registry
    <3>2. \A i \in 1 .. Len(records') :
             \/ records'[i].up = None
             \/ \E k \in 1 .. Len(records) : records'[i].up = records[k].up
      BY <1>1, <2>1, AcceptNames
    <3>3. QED
      BY <2>3, <3>1, <3>2, UnboundStays, HistoryHoldsQueue
  <2>4. FlightShape' /\ Unbound'
    <3>1. FlightShape'
      BY <1>1, <2>1 DEF FlightShape
    <3>2. flight.at \in {"verified", "submit"} => ~Bound(flight.up) /\ flight.up \in Uploads
      BY <1>1 DEF RegistryInv, Unbound, FlightShape
    <3>3. flight.at \in {"verified", "submit"} => ~Bound(flight.up)'
      BY <2>1, <2>3, <3>2 DEF Bound, Status
    <3>4. QED
      BY <2>1, <3>1, <3>3 DEF Unbound, Bound, Status
  <2>5. QED
    BY <2>2, <2>4 DEF RegistryInv
<1>8. CASE Rollback \/ DropUpload \/ Answer
  BY <1>3, <1>8 DEF Rollback, DropUpload, Answer
<1>9. QED
  BY <1>4, <1>5, <1>6, <1>7, <1>8 DEF FlightStep
\* The steps of the worker, and the end of acceptance.
LEMMA WorkerKeepsRegistry ==
    ASSUME RegistryInv, WorkerStep \/ CloseOperations
    PROVE  RegistryInv' /\ Joins
<1>1. Registry /\ FlightShape /\ UNCHANGED flight
  BY DEF RegistryInv, WorkerStep, BeginInstall, EndInstall, MarkUpload, CleanUpload,
         OtherCall, CloseOperations
<1>2. ASSUME Registry', Joins,
             \A u \in Uploads : ~Bound(u) => ~Bound(u)'
      PROVE  RegistryInv' /\ Joins
  <2>1. FlightShape'
    BY <1>1 DEF FlightShape
  <2>2. CASE flight.at \in {"verified", "submit"}
    <3>1. PICK u \in Uploads : u = flight.up
      BY <1>1, <2>2 DEF FlightShape
    <3>2. ~Bound(u)'
      BY <1>2, <2>2, <3>1 DEF RegistryInv, Unbound
    <3>3. flight'.up = u
      BY <1>1, <3>1
    <3>4. Unbound'
      BY <3>2, <3>3 DEF Unbound
    <3>5. QED
      BY <1>2, <2>1, <3>4 DEF RegistryInv
  <2>3. CASE flight.at \notin {"verified", "submit"}
    BY <1>1, <1>2, <2>1, <2>3 DEF RegistryInv, Unbound
  <2>4. QED
    BY <2>2, <2>3
<1>3. CASE Take
  <2>1. UNCHANGED records
    BY <1>3 DEF Take
  <2>2. QED
    BY <1>1, <1>2, <1>3, <2>1, TakeKeeps DEF Joins, Bound, Status
<1>4. CASE StartOperation \/ FinishOperation
  <2>1. Registry' /\ Joins
    BY <1>1, <1>4, UpdateKeeps DEF Joins
  <2>2. ASSUME NEW u \in Uploads, ~Bound(u)
        PROVE  ~Bound(u)'
    <3>1. Sound(records) /\ Sound(records')
      BY <1>1, <2>1 DEF Registry
    <3>2. \A i \in 1 .. Len(records') :
             \/ records'[i].up = None
             \/ \E k \in 1 .. Len(records) : records'[i].up = records[k].up
      BY <1>1, <1>4, UpdatesNameTheSame
    <3>3. QED
      BY <2>2, <3>1, <3>2, UnboundStays, HistoryHoldsQueue
  <2>3. QED
    BY <1>2, <2>1, <2>2
<1>5. ASSUME UNCHANGED <<records, journal, pending>>, refusing' \in BOOLEAN,
             \/ worker' = worker
             \/ \E to \in WorkerPlaces \ {"idle"}, ok \in BOOLEAN :
                   /\ worker.at # "idle"
                   /\ worker' = [job |-> worker.job, at |-> to, ok |-> ok]
                   /\ to \in {"install", "mark", "clean"} => worker.job.up # None
      PROVE  RegistryInv' /\ Joins
  <2>1. Registry' /\ Joins
    BY <1>1, <1>5, CallKeeps DEF Joins
  <2>2. QED
    BY <1>2, <1>5, <2>1 DEF Bound, Status
<1>6. /\ worker = [job |-> worker.job, at |-> worker.at, ok |-> worker.ok]
      /\ worker.ok \in BOOLEAN /\ refusing \in BOOLEAN
      /\ worker.at \in {"install", "mark", "clean"} => worker.job.up # None
  BY <1>1 DEF Registry, WorkerShape
<1>7. CASE BeginInstall
  <2>1. UNCHANGED <<records, journal, pending, refusing>>
        /\ worker.at = "call" /\ worker.job.up # None
    BY <1>7 DEF BeginInstall, CallGoes, CallEnds
  <2>2. PICK to \in {"install", "mark"}, ok \in BOOLEAN :
           worker' = [job |-> worker.job, at |-> to, ok |-> ok]
    BY <1>6, <1>7 DEF BeginInstall, CallGoes, CallEnds
  <2>3. QED
    BY <1>5, <1>6, <2>1, <2>2 DEF WorkerPlaces
<1>8. CASE EndInstall
  <2>1. UNCHANGED <<records, journal, pending, refusing>>
        /\ worker.at = "install"
    BY <1>8 DEF EndInstall, CallEnds
  <2>2. PICK ok \in BOOLEAN : worker' = [job |-> worker.job, at |-> "mark", ok |-> ok]
    BY <1>6, <1>8 DEF EndInstall, CallEnds
  <2>3. QED
    BY <1>5, <1>6, <2>1, <2>2 DEF WorkerPlaces
<1>9. CASE MarkUpload \/ CleanUpload
  <2>1. UNCHANGED <<records, journal, pending, refusing>>
        /\ worker.at \in {"mark", "clean"}
    BY <1>9 DEF MarkUpload, CleanUpload, CallGoes
  <2>2. PICK to \in {"clean", "finish"} : worker' = [job |-> worker.job, at |-> to, ok |-> worker.ok]
    BY <1>6, <1>9 DEF MarkUpload, CleanUpload, CallGoes
  <2>3. QED
    BY <1>5, <1>6, <2>1, <2>2 DEF WorkerPlaces
<1>10. CASE OtherCall
  <2>1. UNCHANGED <<records, journal, pending, refusing>>
        /\ worker.at = "call"
    BY <1>10 DEF OtherCall, CallEnds
  <2>2. PICK ok \in BOOLEAN : worker' = [job |-> worker.job, at |-> "finish", ok |-> ok]
    BY <1>6, <1>10 DEF OtherCall, CallEnds
  <2>3. QED
    BY <1>5, <1>6, <2>1, <2>2 DEF WorkerPlaces
<1>11. CASE CloseOperations
  <2>1. UNCHANGED <<records, journal, pending, worker>>
    BY <1>11 DEF CloseOperations, RefuseNew
  <2>2. refusing' = TRUE
    BY <1>11 DEF CloseOperations, RefuseNew
  <2>3. refusing' \in BOOLEAN
    BY <2>2
  <2>4. QED
    BY <1>5, <2>1, <2>3
<1>12. QED
  BY <1>3, <1>4, <1>7, <1>8, <1>9, <1>10, <1>11 DEF WorkerStep

\* After a restart no operation is under way and no request holds the lock.
LEMMA RestartKeepsRegistry ==
    ASSUME RegistryInv, Restart
    PROVE  RegistryInv' /\ Joins
<1>1. RestartOperations /\ flight' = NoFlight
  BY DEF Restart
<1>2. Registry' /\ \A j \in Jobs : ~Under(j)'
  BY <1>1, RestartKeeps DEF RegistryInv
<1>3. FlightShape' /\ Unbound'
  BY <1>1 DEF FlightShape, Unbound, FlightPlaces, NoFlight
<1>4. QED
  BY <1>2, <1>3 DEF RegistryInv, Joins

\* The actions, sorted by what they do to the registry.
LEMMA RegistryNext ==
    ASSUME RegistryInv, [Next]_vars
    PROVE  RegistryInv' /\ Joins
<1>1. CASE UNCHANGED vars
  BY <1>1, ElsewhereKeepsRegistry DEF vars
<1>2. CASE WorkerStep \/ CloseOperations
  BY <1>2, WorkerKeepsRegistry
<1>3. CASE FlightStep
  BY <1>3, FlightKeepsRegistry
<1>4. CASE Restart
  BY <1>4, RestartKeepsRegistry
<1>5. CASE LoaderStep
  <2>1. UNCHANGED <<opVars, flight>>
    BY <1>5 DEF LoaderStep, TakeTask, BeginLoad, Reserve, Transfer, BeginPreflight,
                Preflight, Validate, LoadFails, LoadDone
  <2>2. QED
    BY <2>1, ElsewhereKeepsRegistry
<1>6. CASE Request
  <2>1. CASE Look \/ CloseStore \/ \E t \in Tasks : Create(t) \/ Cancel(t) \/ TooLate(t) \/ Replay(t)
    <3>1. UNCHANGED <<opVars, flight>>
      BY <2>1 DEF Look, CloseStore, Create, Cancel, TooLate, Replay
    <3>2. QED
      BY <3>1, ElsewhereKeepsRegistry
  <2>2. CASE \E u \in Uploads : DeleteUpload(u) \/ Collect(u)
    <3>1. UNCHANGED <<opVars, flight>>
      BY <2>2 DEF DeleteUpload, Collect
    <3>2. QED
      BY <3>1, ElsewhereKeepsRegistry
  <2>3. CASE (\E u \in Uploads : \E store \in BOOLEAN : Finalize(u, store)) \/ \E a \in Apps : Mutate(a)
    BY <2>3, FlightKeepsRegistry
  <2>4. QED
    BY <1>2, <1>6, <2>1, <2>2, <2>3 DEF Request
<1>7. QED
  BY <1>1, <1>2, <1>3, <1>4, <1>5, <1>6 DEF Next

\* Nothing is bound, queued or under way at first.
LEMMA RegistryFirst ==
    ASSUME Init
    PROVE  RegistryInv
<1>1. Registry
  BY RegistryInitially DEF Init
<1>2. FlightShape /\ Unbound
  BY DEF Init, FlightShape, Unbound, FlightPlaces, NoFlight
<1>3. QED
  BY <1>1, <1>2 DEF RegistryInv
-----------------------------------------------------------------------------
(* The tasks of the store, the loader and the staging area. *)

TaskRecord == [st : Downloading \cup TaskEnded \cup {"free", "awaiting", "installing"},
               up : BOOLEAN]
LoaderPlaces == {"idle", "begin", "resolve", "transfer", "check", "preflight",
                 "validate", "error", "done"}
UploadStates == Staged \cup ActiveUpload \cup {"none", "gone"}

TaskShape ==
    /\ tasks \in [Tasks -> TaskRecord] /\ taskFile \in [Tasks -> TaskRecord]
    /\ downloads \in Seq(Tasks) /\ signalled \subseteq Tasks
    /\ loader \in [task : Tasks \cup {None}, at : LoaderPlaces]
    /\ loader.at = "idle" <=> loader.task = None
    /\ upload \in [Uploads -> UploadStates] /\ orphans \subseteq Uploads

Shape == RegistryInv /\ TaskShape

(* What becomes of a task that nobody loads: it is never forgotten and      *)
(* never goes back to downloading or waiting for confirmation.             *)
Later(r, q) ==
    /\ q.up = r.up
    /\ q.st = "free" => r.st = "free"
    /\ q.st \in Downloading => r.st \in Downloading
    /\ q.st = "awaiting" => r.st = "awaiting"
Follows(f, s) == s \in [Tasks -> TaskRecord] /\ \A t \in Tasks : Later(f[t], s[t])
Followed == Follows(tasks, tasks') /\ (taskFile' = taskFile \/ taskFile' = tasks')

\* A record that is synced is one, and follows what it was.
LEMMA SyncFollows ==
    ASSUME NEW r \in TaskRecord, NEW o \in {"none"} \cup Active \cup Ended, NEW s
    PROVE  /\ SyncedWith(r, o, s) \in TaskRecord
           /\ Later(r, SyncedWith(r, o, s))
           /\ SyncedWith(r, o, s).st = "awaiting" =>
                 ~r.up \/ (o = "none" /\ s = "preflighted")
<1>1. /\ r.st \in Downloading \cup TaskEnded \cup {"free", "awaiting", "installing"}
      /\ r.up \in BOOLEAN /\ r = [st |-> r.st, up |-> r.up]
  BY DEF TaskRecord
<1>2. ASSUME NEW x \in TaskEnded \cup {"installing"}
      PROVE  /\ [r EXCEPT !.st = x] \in TaskRecord
             /\ [r EXCEPT !.st = x].st = x /\ [r EXCEPT !.st = x].up = r.up
  BY <1>1 DEF TaskRecord
<1>3. CASE r.st = "free" \/ ~r.up
  <2>1. SyncedWith(r, o, s) = r
    BY <1>3 DEF SyncedWith
  <2>2. QED
    BY <1>3, <2>1 DEF Later
<1>4. CASE r.st # "free" /\ r.up /\ o # "none"
  <2>1. PICK x \in {"succeeded", "failed", "installing"} : SyncedWith(r, o, s) = [r EXCEPT !.st = x]
    BY <1>4 DEF SyncedWith, Ended
  <2>2. QED
    BY <1>2, <2>1 DEF Later, TaskEnded, Downloading
<1>5. CASE r.st # "free" /\ r.up /\ o = "none"
  <2>1. CASE r.st = "installing" \/ (r.st = "awaiting" /\ s # "preflighted")
    <3>1. SyncedWith(r, o, s) = [r EXCEPT !.st = "failed"]
      BY <1>5, <2>1 DEF SyncedWith
    <3>2. QED
      BY <1>2, <3>1 DEF Later, TaskEnded, Downloading
  <2>2. CASE ~(r.st = "installing" \/ (r.st = "awaiting" /\ s # "preflighted"))
    <3>1. SyncedWith(r, o, s) = r
      BY <1>5, <2>2 DEF SyncedWith
    <3>2. QED
      BY <1>5, <2>2, <3>1 DEF Later
  <2>3. QED
    BY <2>1, <2>2
<1>6. QED
  BY <1>3, <1>4, <1>5

\* The same of the tasks in memory.
LEMMA TasksSync ==
    ASSUME Shape
    PROVE  /\ Follows(tasks, AllSynced)
           /\ \A t \in Tasks : /\ Synced(t) \in TaskRecord /\ Later(tasks[t], Synced(t))
                               /\ Synced(t).st = "awaiting" =>
                                     ~tasks[t].up \/ (~Bound(t) /\ upload[t] = "preflighted")
<1>1. ASSUME NEW t \in Tasks
      PROVE  /\ Synced(t) \in TaskRecord /\ Later(tasks[t], Synced(t))
             /\ Synced(t).st = "awaiting" =>
                   ~tasks[t].up \/ (~Bound(t) /\ upload[t] = "preflighted")
  <2>1. tasks[t] \in TaskRecord
    BY DEF Shape, TaskShape
  <2>2. Status(t) \in {"none"} \cup Active \cup Ended
    BY TaskNames, BoundIsRecorded DEF Shape, RegistryInv, Registry, Status
  <2>3. /\ SyncedWith(tasks[t], Status(t), upload[t]) \in TaskRecord
        /\ Later(tasks[t], SyncedWith(tasks[t], Status(t), upload[t]))
        /\ SyncedWith(tasks[t], Status(t), upload[t]).st = "awaiting" =>
              ~tasks[t].up \/ (Status(t) = "none" /\ upload[t] = "preflighted")
    <3>1. PICK r \in TaskRecord : r = tasks[t]
      BY <2>1
    <3>2. PICK o \in {"none"} \cup Active \cup Ended : o = Status(t)
      BY <2>2
    <3>3. /\ SyncedWith(r, o, upload[t]) \in TaskRecord
          /\ Later(r, SyncedWith(r, o, upload[t]))
          /\ SyncedWith(r, o, upload[t]).st = "awaiting" =>
                ~r.up \/ (o = "none" /\ upload[t] = "preflighted")
      BY SyncFollows
    <3>4. QED
      BY <3>1, <3>2, <3>3
  <2>4. Synced(t) = SyncedWith(tasks[t], Status(t), upload[t]) /\ (Bound(t) <=> Status(t) # "none")
    BY DEF Synced, Bound
  <2>5. QED
    BY <2>3, <2>4
<1>2. QED
  BY <1>1 DEF Follows, AllSynced

\* One record changes.
LEMMA OneFollows ==
    ASSUME TaskShape, NEW t \in Tasks, NEW q \in TaskRecord, Later(tasks[t], q)
    PROVE  Follows(tasks, [tasks EXCEPT ![t] = q])
<1>1. tasks \in [Tasks -> TaskRecord]
  BY DEF TaskShape
<1>2. \A i \in Tasks : [tasks EXCEPT ![t] = q][i] = IF i = t THEN q ELSE tasks[i]
  BY <1>1
<1>3. [tasks EXCEPT ![t] = q] \in [Tasks -> TaskRecord]
  BY <1>1
<1>4. QED
  BY <1>2, <1>3 DEF Follows, Later

\* A request of the store, an answer, or a download that failed, in memory
\* and in the journal.
LEMMA RequestsFollow ==
    ASSUME Shape,
           \/ Look \/ Answer \/ LoadFails
           \/ \E t \in Tasks : Cancel(t) \/ TooLate(t) \/ Replay(t)
    PROVE  Followed
<1>1. TaskShape /\ tasks \in [Tasks -> TaskRecord]
  BY DEF Shape, TaskShape
<1>2. Follows(tasks, tasks)
  BY <1>1 DEF Follows, Later
<1>3. ASSUME NEW s, Follows(tasks, s), Write(s)
      PROVE  Followed
  BY <1>3 DEF Followed, Write
<1>4. CASE Look
  BY <1>3, <1>4, TasksSync DEF Look
<1>5. ASSUME NEW t \in Tasks, Cancel(t)
      PROVE  Followed
  <2> DEFINE q == [Synced(t) EXCEPT !.st = "cancelled"]
  <2>1. Synced(t) \in TaskRecord /\ Later(tasks[t], Synced(t))
    BY TasksSync
  <2>2. q \in TaskRecord /\ q.st = "cancelled" /\ q.up = Synced(t).up
    BY <2>1 DEF TaskRecord, TaskEnded
  <2>3. Later(tasks[t], q)
    BY <2>1, <2>2 DEF Later, Downloading
  <2>4. Follows(tasks, [tasks EXCEPT ![t] = q])
    BY <1>1, <2>2, <2>3, OneFollows
  <2>5. Write([tasks EXCEPT ![t] = q]) \/ UNCHANGED taskVars
    BY <1>5 DEF Cancel
  <2>6. QED
    BY <1>2, <1>3, <2>4, <2>5 DEF Followed, taskVars
<1>6. ASSUME NEW t \in Tasks, TooLate(t)
      PROVE  Followed
  <2>1. Follows(tasks, [tasks EXCEPT ![t] = Synced(t)])
    BY <1>1, TasksSync, OneFollows
  <2>2. QED
    BY <1>6, <2>1 DEF TooLate, Followed
<1>7. ASSUME NEW t \in Tasks, Replay(t)
      PROVE  Followed
  <2>1. Follows(tasks, [tasks EXCEPT ![t] = Synced(t)])
    BY <1>1, TasksSync, OneFollows
  <2>2. QED
    BY <1>3, <1>7, <2>1 DEF Replay
<1>8. CASE Answer
  <2>1. CASE flight.store
    <3>1. flight.at = "accepted" /\ flight.up \in Tasks
      BY <1>8, TaskNames DEF Answer, Shape, RegistryInv, FlightShape
    <3>2. PICK t \in Tasks : t = flight.up
      BY <3>1
    <3> DEFINE r == [tasks[t] EXCEPT !.st = "installing"]
               q == SyncedWith(r, Status(t), upload[t])
    <3>3. tasks[t] \in TaskRecord
      BY <1>1
    <3>4. r \in TaskRecord /\ r.st = "installing" /\ r.up = tasks[t].up
      BY <3>3 DEF TaskRecord
    <3>5. Status(t) \in {"none"} \cup Active \cup Ended
      BY TaskNames, BoundIsRecorded DEF Shape, RegistryInv, Registry, Status
    <3>6. q \in TaskRecord /\ Later(r, q)
      <4> HIDE DEF r
      <4>1. QED
        BY <3>4, <3>5, SyncFollows
    <3>7. Write([tasks EXCEPT ![t] = q])
      <4>1. [tasks EXCEPT ![t] = SyncedWith([@ EXCEPT !.st = "installing"], Status(t), upload[t])]
              = [tasks EXCEPT ![t] = q]
        OBVIOUS
      <4>2. QED
        BY <1>8, <2>1, <3>2, <4>1 DEF Answer
    <3> HIDE DEF q
    <3>8. Later(tasks[t], q)
      BY <3>4, <3>6 DEF Later, Downloading
    <3>9. QED
      BY <1>1, <1>3, <3>6, <3>7, <3>8, OneFollows
  <2>2. CASE ~flight.store
    BY <1>2, <1>8, <2>2 DEF Answer, taskVars, Followed
  <2>3. QED
    BY <2>1, <2>2
<1>9. CASE LoadFails
  <2>1. loader.at = "error" /\ loader.task \in Tasks
    BY <1>1, <1>9 DEF LoadFails, Load, TaskShape
  <2>2. PICK t \in Tasks : t = loader.task
    BY <2>1
  <2>3. PICK x \in {"cancelled", "failed"} : Write([tasks EXCEPT ![t].st = x])
    BY <1>9, <2>2 DEF LoadFails
  <2> DEFINE q == [tasks[t] EXCEPT !.st = x]
  <2>4. tasks[t] \in TaskRecord
    BY <1>1
  <2>5. q \in TaskRecord /\ q.st = x /\ q.up = tasks[t].up
    BY <2>4 DEF TaskRecord, TaskEnded
  <2>6. [tasks EXCEPT ![t].st = x] = [tasks EXCEPT ![t] = q]
    OBVIOUS
  <2> HIDE DEF q
  <2>7. Later(tasks[t], q)
    BY <2>5 DEF Later, Downloading
  <2>8. QED
    BY <1>1, <1>3, <2>3, <2>5, <2>6, <2>7, OneFollows
<1>10. QED
  BY <1>4, <1>5, <1>6, <1>7, <1>8, <1>9
\* A new task: the others follow, and this one is queued, in memory and in
\* the journal, or perhaps in the journal only.
Created(t) ==
    \E s, new \in [Tasks -> TaskRecord] :
        /\ Follows(tasks, s)
        /\ \A i \in Tasks : i # t => new[i] = s[i]
        /\ new[t].st = "queued" /\ new[t].up = s[t].up
        /\ \/ tasks' = new /\ taskFile' = new /\ downloads' = Append(downloads, t)
           \/ tasks' = s /\ taskFile' \in {taskFile, new} /\ UNCHANGED downloads

\* create either queues one new task, or leaves it in the journal only.
LEMMA CreateCreates ==
    ASSUME Shape, NEW t \in Tasks, Create(t)
    PROVE  Created(t)
<1> DEFINE s == AllSynced
           new == [s EXCEPT ![t].st = "queued"]
<1>1. Follows(tasks, s) /\ s \in [Tasks -> TaskRecord]
  BY TasksSync DEF Follows
<1>2. s[t] \in TaskRecord
  BY <1>1
<1>3. \/ tasks' = new /\ taskFile' = new /\ downloads' = Append(downloads, t)
      \/ tasks' = s /\ taskFile' \in {taskFile, new} /\ UNCHANGED downloads
  BY DEF Create
<1> HIDE DEF s
<1>4. [s[t] EXCEPT !.st = "queued"] \in TaskRecord
      /\ [s[t] EXCEPT !.st = "queued"].st = "queued" /\ [s[t] EXCEPT !.st = "queued"].up = s[t].up
  BY <1>2 DEF TaskRecord, Downloading
<1>5. new \in [Tasks -> TaskRecord] /\ new[t] = [s[t] EXCEPT !.st = "queued"]
      /\ \A i \in Tasks : i # t => new[i] = s[i]
  BY <1>1, <1>4
<1> HIDE DEF new
<1>6. QED
  BY <1>1, <1>3, <1>4, <1>5 DEF Created

\* A step of the loader keeps its task.
LEMMA LoaderMoves ==
    ASSUME TaskShape, NEW from \in LoaderPlaces \ {"idle"}, NEW to \in LoaderPlaces \ {"idle"},
           Load(from, to)
    PROVE  /\ loader' \in [task : Tasks \cup {None}, at : LoaderPlaces]
           /\ loader'.at = to /\ loader'.task = loader.task /\ loader.task \in Tasks
           /\ loader.at = from
<1>1. loader \in [task : Tasks \cup {None}, at : LoaderPlaces] /\ loader.at = from
      /\ loader' = [loader EXCEPT !.at = to] /\ loader.task # None
  BY DEF Load, TaskShape
<1>2. QED
  BY <1>1

\* What a report writes.
LEMMA ReportWrites ==
    ASSUME TaskShape, NEW from \in LoaderPlaces \ {"idle"}, NEW to \in LoaderPlaces \ {"idle"},
           NEW r, Report(from, to, r)
    PROVE  /\ tasks' = [tasks EXCEPT ![loader.task] = r]
           /\ taskFile' \in {taskFile, tasks'}
           /\ Load(from, to) \/ ("save" \in Failures /\ Load(from, "error"))
           /\ StoreFree /\ tasks[loader.task].st # "cancelled"
           /\ loader'.at = to => taskFile' = tasks' \/ to = "error"
<1>1. /\ tasks' = [tasks EXCEPT ![loader.task] = r] /\ taskFile' \in {taskFile, tasks'}
      /\ (Load(from, to) /\ taskFile' = tasks') \/ ("save" \in Failures /\ Load(from, "error"))
      /\ StoreFree /\ tasks[loader.task].st # "cancelled"
  BY DEF Report
<1>2. "error" \in LoaderPlaces \ {"idle"}
  BY DEF LoaderPlaces
<1>3. Load(from, "error") => loader'.at = "error"
  BY <1>2, LoaderMoves
<1>4. QED
  BY <1>1, <1>3
(* What the loader does for its task: to the record ...                    *)
Records ==
    \/ UNCHANGED taskVars
    \/ \E r \in TaskRecord :
          /\ tasks' = [tasks EXCEPT ![loader.task] = r] /\ taskFile' \in {taskFile, tasks'}
          /\ r.st = "free" => tasks[loader.task].st = "free"
          /\ r.st = "awaiting" => tasks[loader.task].st = "awaiting" \/ loader.at = "validate"
          /\ tasks[loader.task].up => r.up
          /\ loader.at = "resolve" => r.up

(* ... and to the package.                                                 *)
Stages(old, new) ==
    \/ /\ loader.at = "begin" /\ loader'.at \in {"resolve", "error"} /\ new = old
    \/ /\ loader.at = "resolve"
       /\ \/ loader'.at = "transfer" /\ new = "receiving" /\ tasks'[loader.task].up
          \/ loader'.at = "error" /\ new \in {old, "gone"}
    \/ /\ loader.at = "transfer"
       /\ \/ loader'.at = "check" /\ new = "uploaded"
          \/ loader'.at = "error" /\ new \in {"gone", "uploaded"}
    \/ /\ loader.at = "check" /\ loader'.at \in {"preflight", "error"} /\ new = old
    \/ /\ loader.at = "preflight"
       /\ \/ loader'.at = "validate" /\ old \notin {"none", "gone"} /\ new = "preflighted"
          \/ loader'.at = "error" /\ new = "gone"
          \/ /\ loader'.at = "error" /\ "remove" \in Failures
             /\ new \in {old, "rejected", "preflighted"}
    \/ /\ loader.at = "validate" /\ loader'.at \in {"done", "error"} /\ new = old
       /\ loader'.at = "done" => tasks'[loader.task].st = "awaiting"

Loading ==
    /\ loader.task \in Tasks /\ loader'.task = loader.task
    /\ loader' \in [task : Tasks \cup {None}, at : LoaderPlaces]
    /\ UNCHANGED <<opVars, downloads, signalled, orphans, flight>>
    /\ upload' \in [Uploads -> UploadStates]
    /\ \A u \in Uploads : u # loader.task => upload'[u] = upload[u]
    /\ Records
    /\ Stages(upload[loader.task], upload'[loader.task])

\* Every step of the download worker that touches the disk or a record
\* is one of these (store_tasks.py:232-330).
LEMMA LoadsStepByStep ==
    ASSUME TaskShape,
           BeginLoad \/ Reserve \/ Transfer \/ BeginPreflight \/ Preflight \/ Validate
    PROVE  Loading
<1>1. UNCHANGED <<opVars, downloads, signalled, orphans, flight>>
  BY DEF BeginLoad, Reserve, Transfer, BeginPreflight, Preflight, Validate, staging
<1>2. /\ tasks \in [Tasks -> TaskRecord] /\ upload \in [Uploads -> UploadStates]
      /\ Tasks = Uploads
  BY TaskNames DEF TaskShape
<1> DEFINE P == {"begin", "resolve", "transfer", "check", "preflight", "validate", "error", "done"}
<1>3. ASSUME NEW from \in P, NEW to \in P, Load(from, to)
      PROVE  /\ loader' \in [task : Tasks \cup {None}, at : LoaderPlaces]
             /\ loader'.at = to /\ loader'.task = loader.task /\ loader.task \in Tasks
             /\ loader.at = from
  <2>1. P = LoaderPlaces \ {"idle"}
    BY DEF LoaderPlaces
  <2>2. QED
    BY <1>3, <2>1, LoaderMoves
<1>4. ASSUME NEW from \in P, NEW to \in P, NEW r, Report(from, to, r)
      PROVE  /\ tasks' = [tasks EXCEPT ![loader.task] = r]
             /\ taskFile' \in {taskFile, tasks'}
             /\ Load(from, to) \/ Load(from, "error")
  <2>1. P = LoaderPlaces \ {"idle"}
    BY DEF LoaderPlaces
  <2>2. QED
    BY <1>4, <2>1, ReportWrites
<1>5. ASSUME NEW t \in Tasks, NEW x \in {"downloading", "preflighting", "awaiting"}
      PROVE  /\ [tasks[t] EXCEPT !.st = x] \in TaskRecord
             /\ [tasks[t] EXCEPT !.st = x].st = x /\ [tasks[t] EXCEPT !.st = x].up = tasks[t].up
             /\ [tasks[t] EXCEPT !.up = TRUE] \in TaskRecord
             /\ [tasks[t] EXCEPT !.up = TRUE].st = tasks[t].st /\ [tasks[t] EXCEPT !.up = TRUE].up
  <2>1. tasks[t] \in TaskRecord
    BY <1>2
  <2>2. QED
    BY <2>1 DEF TaskRecord, Downloading
<1>6. CASE BeginLoad
  <2>1. UNCHANGED upload
    BY <1>6 DEF BeginLoad, staging
  <2>2. CASE Report("begin", "resolve", [tasks[loader.task] EXCEPT !.st = "downloading"])
    <3>1. /\ tasks' = [tasks EXCEPT ![loader.task] = [tasks[loader.task] EXCEPT !.st = "downloading"]]
          /\ taskFile' \in {taskFile, tasks'}
          /\ Load("begin", "resolve") \/ Load("begin", "error")
      BY <1>4, <2>2
    <3>2. /\ loader' \in [task : Tasks \cup {None}, at : LoaderPlaces]
          /\ loader'.at \in {"resolve", "error"} /\ loader'.task = loader.task
          /\ loader.task \in Tasks /\ loader.at = "begin"
      BY <1>3, <3>1
    <3>3. Records
      BY <1>5, <3>1, <3>2 DEF Records
    <3>4. QED
      BY <1>1, <1>2, <2>1, <3>2, <3>3 DEF Loading, Stages
  <2>3. CASE Stops("begin")
    <3>1. Load("begin", "error") /\ UNCHANGED taskVars
      BY <2>3 DEF Stops, Errs
    <3>2. QED
      BY <1>1, <1>2, <1>3, <2>1, <3>1 DEF Loading, Stages, Records
  <2>4. QED
    BY <1>6, <2>2, <2>3 DEF BeginLoad
<1>7. CASE Reserve
  <2> DEFINE r == [tasks[loader.task] EXCEPT !.up = TRUE]
  <2>1. CASE Report("resolve", "transfer", r)
             /\ upload' = [upload EXCEPT ![loader.task] = IF loader'.at = "transfer" THEN "receiving" ELSE "gone"]
    <3>1. /\ tasks' = [tasks EXCEPT ![loader.task] = r]
          /\ taskFile' \in {taskFile, tasks'}
          /\ Load("resolve", "transfer") \/ Load("resolve", "error")
      BY <1>4, <2>1
    <3>2. /\ loader' \in [task : Tasks \cup {None}, at : LoaderPlaces]
          /\ loader'.at \in {"transfer", "error"} /\ loader'.task = loader.task
          /\ loader.task \in Tasks /\ loader.at = "resolve"
      BY <1>3, <3>1
    <3>3. r \in TaskRecord /\ r.st = tasks[loader.task].st /\ r.up
      BY <1>5, <3>2
    <3> HIDE DEF r
    <3>4. Records /\ tasks'[loader.task].up
      BY <1>2, <3>1, <3>2, <3>3 DEF Records
    <3>5. upload' \in [Uploads -> UploadStates]
          /\ upload'[loader.task] = (IF loader'.at = "transfer" THEN "receiving" ELSE "gone")
          /\ \A u \in Uploads : u # loader.task => upload'[u] = upload[u]
      BY <1>2, <2>1, <3>2 DEF UploadStates, ActiveUpload
    <3>6. QED
      BY <1>1, <3>2, <3>4, <3>5 DEF Loading, Stages
  <2>2. CASE Errs("resolve") /\ UNCHANGED upload
    <3>1. Load("resolve", "error") /\ UNCHANGED taskVars
      BY <2>2 DEF Errs
    <3>2. QED
      BY <1>1, <1>2, <1>3, <2>2, <3>1 DEF Loading, Stages, Records
  <2>3. QED
    BY <1>7, <2>1, <2>2 DEF Reserve
<1>8. CASE Transfer
  <2>1. UNCHANGED taskVars
    BY <1>8 DEF Transfer
  <2>2. \/ Load("transfer", "check") /\ upload' = [upload EXCEPT ![loader.task] = "uploaded"]
        \/ /\ Load("transfer", "error")
           /\ \E s \in {"gone", "uploaded"} : upload' = [upload EXCEPT ![loader.task] = s]
    BY <1>8 DEF Transfer, Removed
  <2>3. PICK to \in {"check", "error"}, s \in {"gone", "uploaded"} :
           /\ Load("transfer", to) /\ (to = "check" => s = "uploaded")
           /\ upload' = [upload EXCEPT ![loader.task] = s]
    BY <2>2
  <2>4. /\ loader' \in [task : Tasks \cup {None}, at : LoaderPlaces]
        /\ loader'.at = to /\ loader'.task = loader.task
        /\ loader.task \in Tasks /\ loader.at = "transfer"
    BY <1>3, <2>3
  <2>5. upload' \in [Uploads -> UploadStates]
        /\ upload'[loader.task] = s
        /\ \A u \in Uploads : u # loader.task => upload'[u] = upload[u]
    BY <1>2, <2>3, <2>4 DEF UploadStates, Staged
  <2>6. QED
    BY <1>1, <2>1, <2>3, <2>4, <2>5 DEF Loading, Stages, Records
<1>9. CASE BeginPreflight
  <2>1. UNCHANGED upload
    BY <1>9 DEF BeginPreflight, staging
  <2>2. CASE Report("check", "preflight", [tasks[loader.task] EXCEPT !.st = "preflighting"])
    <3>1. /\ tasks' = [tasks EXCEPT ![loader.task] = [tasks[loader.task] EXCEPT !.st = "preflighting"]]
          /\ taskFile' \in {taskFile, tasks'}
          /\ Load("check", "preflight") \/ Load("check", "error")
      BY <1>4, <2>2
    <3>2. /\ loader' \in [task : Tasks \cup {None}, at : LoaderPlaces]
          /\ loader'.at \in {"preflight", "error"} /\ loader'.task = loader.task
          /\ loader.task \in Tasks /\ loader.at = "check"
      BY <1>3, <3>1
    <3>3. Records
      BY <1>5, <3>1, <3>2 DEF Records
    <3>4. QED
      BY <1>1, <1>2, <2>1, <3>2, <3>3 DEF Loading, Stages
  <2>3. CASE Stops("check") \/ Errs("check")
    <3>1. Load("check", "error") /\ UNCHANGED taskVars
      BY <2>3 DEF Stops, Errs
    <3>2. QED
      BY <1>1, <1>2, <1>3, <2>1, <3>1 DEF Loading, Stages, Records
  <2>4. QED
    BY <1>9, <2>2, <2>3 DEF BeginPreflight
<1>10. CASE Preflight
  <2>1. UNCHANGED taskVars
    BY <1>10 DEF Preflight
  <2>2. \/ /\ Load("preflight", "validate") /\ upload[loader.task] \notin {"none", "gone"}
           /\ upload' = [upload EXCEPT ![loader.task] = "preflighted"]
        \/ /\ Load("preflight", "error")
           /\ \/ upload' = [upload EXCEPT ![loader.task] = "gone"]
              \/ "remove" \in Failures /\ \E s \in {upload[loader.task], "rejected", "preflighted"} :
                    upload' = [upload EXCEPT ![loader.task] = s]
    BY <1>10 DEF Preflight, RejectedRemains, UploadSet, Present, Removed
  <2>3. CASE /\ Load("preflight", "validate") /\ upload[loader.task] \notin {"none", "gone"}
             /\ upload' = [upload EXCEPT ![loader.task] = "preflighted"]
    <3>1. /\ loader' \in [task : Tasks \cup {None}, at : LoaderPlaces]
          /\ loader'.at = "validate" /\ loader'.task = loader.task
          /\ loader.task \in Tasks /\ loader.at = "preflight"
      BY <1>3, <2>3
    <3>2. upload' \in [Uploads -> UploadStates]
          /\ upload'[loader.task] = "preflighted"
          /\ \A u \in Uploads : u # loader.task => upload'[u] = upload[u]
      BY <1>2, <2>3, <3>1 DEF UploadStates, Staged
    <3>3. QED
      BY <1>1, <2>1, <2>3, <3>1, <3>2 DEF Loading, Stages, Records
  <2>4. CASE /\ Load("preflight", "error")
             /\ \/ upload' = [upload EXCEPT ![loader.task] = "gone"]
                \/ "remove" \in Failures /\ \E s \in {upload[loader.task], "rejected", "preflighted"} :
                      upload' = [upload EXCEPT ![loader.task] = s]
    <3>1. /\ loader' \in [task : Tasks \cup {None}, at : LoaderPlaces]
          /\ loader'.at = "error" /\ loader'.task = loader.task
          /\ loader.task \in Tasks /\ loader.at = "preflight"
      BY <1>3, <2>4
    <3>2. upload' \in [Uploads -> UploadStates]
          /\ \/ upload'[loader.task] = "gone"
             \/ /\ "remove" \in Failures
                /\ upload'[loader.task] \in {upload[loader.task], "rejected", "preflighted"}
          /\ \A u \in Uploads : u # loader.task => upload'[u] = upload[u]
      BY <1>2, <2>4, <3>1 DEF UploadStates, Staged
    <3>3. QED
      BY <1>1, <2>1, <3>1, <3>2 DEF Loading, Stages, Records
  <2>5. QED
    BY <2>2, <2>3, <2>4
<1>11. CASE Validate
  <2>1. UNCHANGED upload
    BY <1>11 DEF Validate, staging
  <2>2. CASE Report("validate", "done", [tasks[loader.task] EXCEPT !.st = "awaiting"])
    <3>1. /\ tasks' = [tasks EXCEPT ![loader.task] = [tasks[loader.task] EXCEPT !.st = "awaiting"]]
          /\ taskFile' \in {taskFile, tasks'}
          /\ Load("validate", "done") \/ Load("validate", "error")
      BY <1>4, <2>2
    <3>2. /\ loader' \in [task : Tasks \cup {None}, at : LoaderPlaces]
          /\ loader'.at \in {"done", "error"} /\ loader'.task = loader.task
          /\ loader.task \in Tasks /\ loader.at = "validate"
      BY <1>3, <3>1
    <3>3. Records
      BY <1>5, <3>1, <3>2 DEF Records
    <3>4. tasks'[loader.task].st = "awaiting"
      BY <1>2, <1>5, <3>1, <3>2
    <3>5. QED
      BY <1>1, <1>2, <2>1, <3>2, <3>3, <3>4 DEF Loading, Stages
  <2>3. CASE Errs("validate")
    <3>1. Load("validate", "error") /\ UNCHANGED taskVars
      BY <2>3 DEF Errs
    <3>2. /\ loader' \in [task : Tasks \cup {None}, at : LoaderPlaces]
          /\ loader'.at = "error" /\ loader'.task = loader.task
          /\ loader.task \in Tasks /\ loader.at = "validate"
      BY <1>3, <3>1
    <3>3. QED
      BY <1>1, <1>2, <2>1, <3>1, <3>2 DEF Loading, Stages, Records
  <2>4. QED
    BY <1>11, <2>2, <2>3 DEF Validate
<1>12. QED
  BY <1>6, <1>7, <1>8, <1>9, <1>10, <1>11
(* A package goes because it may be deleted, is marked as an orphan, or    *)
(* belongs to a task that waits for confirmation.                          *)
Removable(u) == \/ upload[u] \in Staged \/ u \in orphans
                \/ tasks[u].st = "awaiting" /\ ~tasks[u].up
Removes ==
    /\ upload' \in [Uploads -> UploadStates] /\ orphans' \subseteq Uploads
    /\ \A u \in Uploads : upload'[u] = upload[u] \/ (upload'[u] = "gone" /\ Removable(u))
    /\ \A u \in orphans : u \in orphans' \/ upload'[u] = "gone"
    /\ "remove" \notin Failures => orphans' \subseteq orphans

\* Discarding leaves what an operation or an active state protects.
LEMMA DiscardRemoves ==
    ASSUME TaskShape, NEW S \in SUBSET Uploads, Discard(S)
    PROVE  Removes
<1> DEFINE D == {u \in S : Discardable(u)}
<1>1. /\ upload \in [Uploads -> UploadStates] /\ orphans \subseteq Uploads
      /\ D \subseteq Uploads /\ \A u \in D : upload[u] \in Staged
      /\ "gone" \in UploadStates
  BY DEF TaskShape, Discardable, UploadStates
<1>2. \/ /\ upload' = [u \in Uploads |-> IF u \in D THEN "gone" ELSE upload[u]]
         /\ orphans' = orphans \ D
      \/ /\ "remove" \in Failures /\ UNCHANGED upload /\ orphans' = orphans \cup D
  BY DEF Discard
<1> HIDE DEF D
<1>3. QED
  BY <1>1, <1>2 DEF Removes, Removable

\* One directory is removed, or stays and is marked.
LEMMA RemovesOrMarks ==
    ASSUME TaskShape, NEW u \in Uploads, RemoveOrMark(u)
    PROVE  /\ upload' \in [Uploads -> UploadStates] /\ orphans' \subseteq Uploads
           /\ \A v \in Uploads : v # u => upload'[v] = upload[v] /\ (v \in orphans' <=> v \in orphans)
           /\ upload'[u] = "gone" \/ (u \in orphans' /\ upload'[u] = upload[u])
           /\ "remove" \notin Failures => upload'[u] = "gone" /\ orphans' \subseteq orphans
<1>1. upload \in [Uploads -> UploadStates] /\ orphans \subseteq Uploads
      /\ "gone" \in UploadStates
  BY DEF TaskShape, UploadStates
<1>2. \/ upload' = [upload EXCEPT ![u] = "gone"] /\ orphans' = orphans \ {u}
      \/ "remove" \in Failures /\ upload' = upload /\ orphans' = orphans \cup {u}
  BY DEF RemoveOrMark, Removed, Remains
<1>3. QED
  BY <1>1, <1>2

\* The actions that take packages away, or touch none.
Sparing ==
    \/ Request \/ Submit \/ Answer \/ EndInstall \/ OtherCall \/ TakeTask \/ LoadFails \/ LoadDone
    \/ (Take \/ StartOperation \/ FinishOperation) /\ UNCHANGED <<staging, flight>>
    \/ UNCHANGED vars

\* These take away packages of no one, or mark them, and create none.
LEMMA SparingRemoves ==
    ASSUME Shape, Sparing
    PROVE  Removes
<1>1. /\ upload \in [Uploads -> UploadStates] /\ orphans \subseteq Uploads /\ TaskShape
      /\ Tasks = Uploads /\ "gone" \in UploadStates
  BY TaskNames DEF Shape, TaskShape, UploadStates
<1>2. ASSUME UNCHANGED staging
      PROVE  Removes
  BY <1>1, <1>2 DEF Removes, staging
<1>3. ASSUME NEW S \in SUBSET Tasks, Discard(S)
      PROVE  Removes
  BY <1>1, <1>3, DiscardRemoves
<1>4. ASSUME NEW t \in Uploads, Removed(t), orphans' = orphans \ {t}, Removable(t)
      PROVE  Removes
  <2>1. upload' = [upload EXCEPT ![t] = "gone"]
    BY <1>4 DEF Removed
  <2>2. QED
    BY <1>1, <1>4, <2>1 DEF Removes
<1>5. ASSUME UNCHANGED upload, UNCHANGED orphans
      PROVE  Removes
  BY <1>2, <1>5 DEF staging
<1>6. Unrecovered \in SUBSET Tasks
  BY DEF Unrecovered
<1>7. CASE Look \/ \E t \in Tasks : Create(t) \/ TooLate(t)
  <2>1. \A t \in Tasks : Unrecovered \cap {t} \in SUBSET Tasks
    BY <1>6
  <2>2. QED
    BY <1>3, <1>6, <1>7, <2>1 DEF Look, Create, TooLate
<1>8. CASE LoadFails
  <2>1. loader.task \in Tasks
    BY <1>1, <1>8 DEF LoadFails, Load, TaskShape
  <2>2. Discard({u \in {loader.task} : tasks[u].up})
    BY <1>8 DEF LoadFails
  <2>3. {u \in {loader.task} : tasks[u].up} \in SUBSET Tasks
    BY <2>1
  <2>4. QED
    BY <1>3, <2>2, <2>3
<1>9. ASSUME NEW t \in Tasks, Cancel(t)
      PROVE  Removes
  <2>1. CASE Synced(t).st = "awaiting" /\ Removed(t) /\ orphans' = orphans \ {t}
    <3>1. Removable(t)
      <4>1. Later(tasks[t], Synced(t))
        BY TasksSync
      <4>2. ~tasks[t].up \/ upload[t] = "preflighted"
        BY <2>1, TasksSync
      <4>3. tasks[t].st = "awaiting"
        BY <2>1, <4>1 DEF Later
      <4>4. QED
        BY <4>2, <4>3 DEF Removable, Staged
    <3>2. QED
      BY <1>1, <1>4, <2>1, <3>1
  <2>2. CASE UNCHANGED upload /\ UNCHANGED orphans
    BY <1>5, <2>2
  <2>3. QED
    BY <1>9, <2>1, <2>2 DEF Cancel, Remains, staging
<1>10. ASSUME NEW u \in Uploads, DeleteUpload(u) \/ Collect(u)
       PROVE  Removes
  BY <1>4, <1>10 DEF DeleteUpload, Collect, Removable
<1>11. CASE \/ CloseStore \/ CloseOperations \/ \E t \in Tasks : Replay(t)
            \/ \E u \in Uploads : \E store \in BOOLEAN : Finalize(u, store)
            \/ \E a \in Apps : Mutate(a)
  BY <1>2, <1>11 DEF CloseStore, CloseOperations, Replay, Finalize, Mutate
<1>12. CASE \/ Submit \/ Answer \/ EndInstall \/ OtherCall \/ TakeTask \/ LoadDone
            \/ (Take \/ StartOperation \/ FinishOperation) /\ UNCHANGED <<staging, flight>>
  BY <1>2, <1>12 DEF Submit, Answer, EndInstall, OtherCall, TakeTask, LoadDone
<1>13. CASE UNCHANGED vars
  BY <1>5, <1>13 DEF vars
<1>14. CASE Request
  BY <1>7, <1>9, <1>10, <1>11, <1>14 DEF Request
<1>15. QED
  BY <1>8, <1>12, <1>13, <1>14 DEF Sparing
\* The other steps of a request and of the worker change one package.
Handling ==
    \/ QueueUpload \/ Rollback \/ DropUpload
    \/ BeginInstall \/ MarkUpload \/ CleanUpload

\* What each of these does to the one package it is about, and to nothing else.
LEMMA HandlingShape ==
    ASSUME Shape, Handling
    PROVE  /\ UNCHANGED <<tasks, taskFile, downloads, loader, signalled>>
           /\ upload' \in [Uploads -> UploadStates] /\ orphans' \subseteq Uploads
<1>1. /\ upload \in [Uploads -> UploadStates] /\ orphans \subseteq Uploads /\ TaskShape
      /\ {"gone", "install_queued", "unreported", "preflighted", "installing", "installed",
          "failed"} \subseteq UploadStates
  BY DEF Shape, TaskShape, UploadStates, Staged, ActiveUpload
<1>2. UNCHANGED <<tasks, taskFile, downloads, loader, signalled>>
  BY DEF Handling, QueueUpload, Rollback, DropUpload, BeginInstall, MarkUpload, CleanUpload,
         taskVars, loaderVars
<1>3. ASSUME NEW u, NEW s \in UploadStates, UploadSet(u, s) \/ UploadKept(u)
      PROVE  upload' \in [Uploads -> UploadStates]
  BY <1>1, <1>3 DEF UploadSet, UploadKept
<1>4. CASE QueueUpload
  BY <1>1, <1>2, <1>3, <1>4 DEF QueueUpload, UploadRaises
<1>5. CASE BeginInstall
  BY <1>1, <1>2, <1>3, <1>5 DEF BeginInstall, UploadRaises
<1>6. CASE MarkUpload
  BY <1>1, <1>2, <1>3, <1>6 DEF MarkUpload
<1>7. CASE Rollback
  <2>1. flight.up \in Uploads
    BY <1>7 DEF Rollback, Shape, RegistryInv, FlightShape
  <2>2. CASE /\ UploadSet(flight.up, "preflighted")
             /\ orphans' \in {orphans, orphans \cup {flight.up}}
    BY <1>1, <1>2, <1>3, <2>1, <2>2
  <2>3. CASE RemoveOrMark(flight.up)
    <3>1. PICK u \in Uploads : u = flight.up
      BY <2>1
    <3>2. QED
      BY <1>1, <1>2, <2>3, <3>1, RemovesOrMarks
  <2>4. QED
    BY <1>7, <2>2, <2>3 DEF Rollback
<1>8. CASE DropUpload
  <2>1. PICK u \in Uploads : u = flight.up
    BY <1>8 DEF DropUpload, Shape, RegistryInv, FlightShape
  <2>2. QED
    BY <1>1, <1>2, <1>8, <2>1, RemovesOrMarks DEF DropUpload
<1>9. CASE CleanUpload
  <2>1. worker.at = "clean" /\ worker.job.up \in Uploads
    BY <1>9 DEF CleanUpload, CallGoes, Shape, RegistryInv, Registry, WorkerShape, Jobs, NoJob
  <2>2. PICK u \in Uploads : u = worker.job.up
    BY <2>1
  <2>3. QED
    BY <1>1, <1>2, <1>9, <2>2, RemovesOrMarks DEF CleanUpload
<1>10. QED
  BY <1>4, <1>5, <1>6, <1>7, <1>8, <1>9 DEF Handling

\* What a restart leaves: every task and every package is settled.
Restarted ==
    /\ Follows(taskFile, tasks') /\ taskFile' = tasks'
    /\ \A t \in Tasks : tasks'[t].st \notin Downloading
    /\ upload' \in [Uploads -> UploadStates] /\ orphans' \subseteq Uploads
    /\ \A u \in Uploads : /\ upload'[u] \notin ActiveUpload
                          /\ upload[u] = "none" => upload'[u] = "none"
    /\ "remove" \notin Failures => orphans' = {}
    /\ downloads' = << >> /\ loader' = NoLoad /\ signalled' = {} /\ flight' = NoFlight
    /\ pending' = << >> /\ worker' = Idle

\* The recovery at boot settles every task, package and operation it finds.
LEMMA RestartSettles ==
    ASSUME Shape, Restart
    PROVE  Restarted
<1>1. PICK stuck \in SUBSET {u \in Uploads : upload[u] \in ActiveUpload \ {"receiving"}} :
        LET lost == {u \in Uploads : upload[u] \in ActiveUpload \ {"receiving"}}
            broken(t) == taskFile[t].st \in Downloading
            status(t) == StatusIn(Recovered, t)
            left == [u \in Uploads |->
                        IF upload[u] = "receiving" \/ u \in lost \ stuck THEN "gone"
                        ELSE IF u \in stuck THEN "interrupted" ELSE upload[u]]
            loaded(t) == IF broken(t) THEN [taskFile[t] EXCEPT !.st = "failed"] ELSE taskFile[t]
            after == [t \in Tasks |-> SyncedWith(loaded(t), status(t), left[t])]
            dropped == {t \in Tasks : /\ taskFile[t].up /\ status(t) = "none"
                                      /\ broken(t) \/ taskFile[t].st = "installing"
                                      /\ left[t] \in Staged}
        IN  \E kept \in SUBSET dropped :
                /\ stuck \cup kept # {} => "remove" \in Failures
                /\ upload' = [u \in Uploads |-> IF u \in dropped \ kept THEN "gone" ELSE left[u]]
                /\ orphans' = stuck \cup kept
                /\ tasks' = after /\ taskFile' = after
                /\ RestartOperations
                /\ downloads' = << >> /\ loader' = NoLoad /\ signalled' = {}
                /\ closed' = FALSE /\ flight' = NoFlight
  BY DEF Restart
<1> DEFINE lost == {u \in Uploads : upload[u] \in ActiveUpload \ {"receiving"}}
           broken(t) == taskFile[t].st \in Downloading
           status(t) == StatusIn(Recovered, t)
           left == [u \in Uploads |->
                        IF upload[u] = "receiving" \/ u \in lost \ stuck THEN "gone"
                        ELSE IF u \in stuck THEN "interrupted" ELSE upload[u]]
           loaded(t) == IF broken(t) THEN [taskFile[t] EXCEPT !.st = "failed"] ELSE taskFile[t]
           after == [t \in Tasks |-> SyncedWith(loaded(t), status(t), left[t])]
           dropped == {t \in Tasks : /\ taskFile[t].up /\ status(t) = "none"
                                     /\ broken(t) \/ taskFile[t].st = "installing"
                                     /\ left[t] \in Staged}
<1>2. PICK kept \in SUBSET dropped :
        /\ stuck \cup kept # {} => "remove" \in Failures
        /\ upload' = [u \in Uploads |-> IF u \in dropped \ kept THEN "gone" ELSE left[u]]
        /\ orphans' = stuck \cup kept
        /\ tasks' = after /\ taskFile' = after
        /\ RestartOperations
        /\ downloads' = << >> /\ loader' = NoLoad /\ signalled' = {}
        /\ flight' = NoFlight
  BY <1>1
<1>3. /\ upload \in [Uploads -> UploadStates] /\ taskFile \in [Tasks -> TaskRecord]
      /\ Tasks = Uploads
  BY TaskNames DEF Shape, TaskShape
<1>4. ASSUME NEW u \in Uploads
      PROVE  /\ left[u] \in UploadStates /\ left[u] \notin ActiveUpload
             /\ upload[u] = "none" => left[u] = "none"
  BY <1>3 DEF UploadStates, ActiveUpload, Staged
<1>5. ASSUME NEW t \in Tasks
      PROVE  after[t] \in TaskRecord /\ Later(taskFile[t], after[t]) /\ after[t].st \notin Downloading
  <2>1. taskFile[t] \in TaskRecord
    BY <1>3
  <2>2. /\ loaded(t) \in TaskRecord /\ Later(taskFile[t], loaded(t))
        /\ loaded(t).st \notin Downloading
    BY <2>1 DEF TaskRecord, Later, TaskEnded, Downloading
  <2>3. status(t) \in {"none"} \cup Active \cup Ended
    <3>1. Sound(Recovered)
      BY RecoveredSound DEF Shape, RegistryInv, Registry
    <3>2. QED
      BY <1>3, <3>1, BoundIsRecorded
  <2>4. after[t] = SyncedWith(loaded(t), status(t), left[t])
    OBVIOUS
  <2> HIDE DEF loaded, status, left, after
  <2>5. PICK r \in TaskRecord : r = loaded(t)
    BY <2>2
  <2>6. PICK o \in {"none"} \cup Active \cup Ended : o = status(t)
    BY <2>3
  <2>7. SyncedWith(r, o, left[t]) \in TaskRecord /\ Later(r, SyncedWith(r, o, left[t]))
    BY SyncFollows
  <2>8. QED
    BY <2>2, <2>4, <2>5, <2>6, <2>7 DEF Later
<1>6. after \in [Tasks -> TaskRecord]
  <2> DEFINE g(t) == SyncedWith(loaded(t), status(t), left[t])
  <2>1. \A t \in Tasks : g(t) \in TaskRecord
    BY <1>5
  <2>2. after = [t \in Tasks |-> g(t)]
    OBVIOUS
  <2> HIDE DEF g, after
  <2>3. QED
    BY <2>1, <2>2
<1>7. kept \in SUBSET Uploads /\ stuck \in SUBSET Uploads /\ dropped \subseteq Uploads
      /\ \A u \in dropped : left[u] \in Staged
  <2>1. dropped \subseteq Uploads /\ \A u \in dropped : left[u] \in Staged
    BY <1>3
  <2>2. QED
    BY <2>1
<1> HIDE DEF left, after, dropped
<1>8. Follows(taskFile, tasks') /\ taskFile' = tasks'
      /\ \A t \in Tasks : tasks'[t].st \notin Downloading
  BY <1>2, <1>5, <1>6 DEF Follows
<1>9. /\ upload' \in [Uploads -> UploadStates] /\ orphans' \subseteq Uploads
      /\ \A u \in Uploads : /\ upload'[u] \notin ActiveUpload
                            /\ upload[u] = "none" => upload'[u] = "none"
  <2>1. "gone" \in UploadStates /\ "gone" \notin ActiveUpload /\ "none" \notin Staged
    BY DEF UploadStates, ActiveUpload, Staged
  <2>2. upload' = [u \in Uploads |-> IF u \in dropped \ kept THEN "gone" ELSE left[u]]
        /\ orphans' = stuck \cup kept
    BY <1>2
  <2>3. QED
    BY <1>4, <1>7, <2>1, <2>2
<1>10. QED
  BY <1>2, <1>8, <1>9 DEF Restarted, RestartOperations
(* The loader takes a task, or gives it up.                                *)
Turns ==
    \/ UNCHANGED <<downloads, loader>>
    \/ /\ loader.at = "idle" /\ downloads # << >>
       /\ loader' = [task |-> Head(downloads), at |-> "begin"] /\ downloads' = Tail(downloads)
    \/ /\ loader.at = "error" /\ loader' = [loader EXCEPT !.at = "done"] /\ UNCHANGED downloads
       /\ tasks'[loader.task].st \notin Downloading
    \/ /\ loader.at = "done" /\ loader' = NoLoad /\ UNCHANGED downloads

Quiet == Sparing /\ Followed /\ Removes /\ Turns /\ signalled' \subseteq Tasks

\* What the steps do to tasks and packages, by kind.
LEMMA Kinds ==
    ASSUME Shape, [Next]_vars
    PROVE  \/ Quiet
           \/ \E t \in Tasks : /\ Create(t) /\ Created(t) /\ Removes
                               /\ UNCHANGED <<loader, signalled>>
           \/ Loading
           \/ Handling
           \/ Restarted
<1>0. Sparing => Removes
  BY SparingRemoves
<1>1. /\ TaskShape /\ tasks \in [Tasks -> TaskRecord] /\ signalled \subseteq Tasks
      /\ loader.task \in Tasks \cup {None}
  BY DEF Shape, TaskShape
<1>2. UNCHANGED taskVars => Followed
  BY <1>1 DEF Followed, Follows, Later, taskVars
<1>3. UNCHANGED loaderVars => Turns /\ signalled' \subseteq Tasks
  BY <1>1 DEF Turns, loaderVars
<1>4. CASE Look \/ Answer \/ \E t \in Tasks : TooLate(t) \/ Replay(t)
  <2>1. Followed
    BY <1>4, RequestsFollow
  <2>2. Sparing /\ Removes
    BY <1>0, <1>4 DEF Sparing, Request
  <2>3. UNCHANGED loaderVars
    BY <1>4 DEF Look, Answer, TooLate, Replay
  <2>4. QED
    BY <1>3, <2>1, <2>2, <2>3 DEF Quiet
<1>5. ASSUME NEW t \in Tasks, Cancel(t)
      PROVE  Quiet
  <2>1. Followed
    BY <1>5, RequestsFollow
  <2>2. Sparing /\ Removes
    BY <1>0, <1>5 DEF Sparing, Request
  <2>3. UNCHANGED <<downloads, loader>> /\ signalled' \in {signalled, signalled \cup {t}}
    BY <1>5 DEF Cancel
  <2>4. Turns /\ signalled' \subseteq Tasks
    BY <1>1, <2>3 DEF Turns
  <2>5. QED
    BY <2>1, <2>2, <2>4 DEF Quiet
<1>6. CASE LoadFails
  <2>1. Followed
    BY <1>6, RequestsFollow
  <2>2. Sparing /\ Removes
    BY <1>0, <1>6 DEF Sparing
  <2>3. /\ UNCHANGED <<downloads, signalled>> /\ loader.at = "error"
        /\ loader' = [loader EXCEPT !.at = "done"]
        /\ loader.task \in Tasks
    BY <1>1, <1>6 DEF LoadFails, Load, TaskShape
  <2>4. PICK x \in {"cancelled", "failed"} : tasks' = [tasks EXCEPT ![loader.task].st = x]
    BY <1>6 DEF LoadFails, Write
  <2>5. tasks[loader.task] \in TaskRecord
    BY <1>1, <2>3
  <2>6. tasks'[loader.task].st = x
    BY <1>1, <2>3, <2>4, <2>5 DEF TaskRecord
  <2>7. Turns /\ signalled' \subseteq Tasks
    BY <1>1, <2>3, <2>6 DEF Turns, Downloading
  <2>8. QED
    BY <2>1, <2>2, <2>7 DEF Quiet
<1>7. CASE \E t \in Tasks : Create(t)
  <2>1. PICK t \in Tasks : Create(t)
    BY <1>7
  <2>2. Created(t)
    BY <2>1, CreateCreates
  <2>3. Sparing /\ Removes
    BY <1>0, <2>1 DEF Sparing, Request
  <2>4. UNCHANGED <<loader, signalled>>
    BY <2>1 DEF Create
  <2>5. QED
    BY <2>1, <2>2, <2>3, <2>4
<1>8. CASE \/ CloseOperations
           \/ \E u \in Uploads : \E store \in BOOLEAN : Finalize(u, store)
           \/ \E u \in Uploads : DeleteUpload(u) \/ Collect(u)
           \/ \E a \in Apps : Mutate(a)
           \/ Submit \/ EndInstall \/ OtherCall
  <2>1. Sparing /\ Removes
    BY <1>0, <1>8 DEF Sparing, Request
  <2>2. UNCHANGED taskVars /\ UNCHANGED loaderVars
    BY <1>8 DEF CloseOperations, Finalize, DeleteUpload, Collect, Mutate, Submit,
                EndInstall, OtherCall
  <2>3. QED
    BY <1>2, <1>3, <2>1, <2>2 DEF Quiet
<1>9. CASE (Take \/ StartOperation \/ FinishOperation)
             /\ UNCHANGED <<taskVars, loaderVars, closed, staging, flight>>
  <2>1. UNCHANGED taskVars /\ UNCHANGED loaderVars /\ UNCHANGED staging
    BY <1>9
  <2>2. Sparing /\ Removes
    BY <1>0, <1>9, <2>1 DEF Sparing
  <2>3. QED
    BY <1>2, <1>3, <2>1, <2>2 DEF Quiet
<1>10. CASE CloseStore
  <2>1. Sparing /\ Removes
    BY <1>0, <1>10 DEF Sparing, Request
  <2>2. UNCHANGED taskVars /\ UNCHANGED <<downloads, loader>>
        /\ signalled' = signalled \cup {t \in Tasks : Claimed(t)}
    BY <1>10 DEF CloseStore
  <2>3. Turns /\ signalled' \subseteq Tasks
    BY <1>1, <2>2 DEF Turns
  <2>4. QED
    BY <1>2, <2>1, <2>2, <2>3 DEF Quiet
<1>11. CASE TakeTask \/ LoadDone
  <2>1. Sparing /\ Removes
    BY <1>0, <1>11 DEF Sparing
  <2>2. UNCHANGED taskVars /\ Turns
    BY <1>11 DEF TakeTask, LoadDone, Turns
  <2>3. signalled' \subseteq Tasks
    BY <1>1, <1>11 DEF TakeTask, LoadDone
  <2>4. QED
    BY <1>2, <2>1, <2>2, <2>3 DEF Quiet
<1>12. CASE UNCHANGED vars
  <2>1. Sparing /\ Removes
    BY <1>0, <1>12 DEF Sparing
  <2>2. UNCHANGED taskVars /\ UNCHANGED loaderVars
    BY <1>12 DEF vars, taskVars, loaderVars
  <2>3. QED
    BY <1>2, <1>3, <2>1, <2>2 DEF Quiet
<1>13. CASE BeginLoad \/ Reserve \/ Transfer \/ BeginPreflight \/ Preflight \/ Validate
  BY <1>1, <1>13, LoadsStepByStep
<1>14. CASE QueueUpload \/ Rollback \/ DropUpload \/ BeginInstall \/ MarkUpload \/ CleanUpload
  BY <1>14 DEF Handling
<1>15. CASE Restart
  BY <1>15, RestartSettles
<1>16. CASE Request
  BY <1>4, <1>5, <1>7, <1>8, <1>10, <1>16 DEF Request
<1>17. CASE FlightStep
  BY <1>4, <1>8, <1>14, <1>17 DEF FlightStep
<1>18. CASE WorkerStep
  BY <1>8, <1>9, <1>14, <1>18 DEF WorkerStep
<1>19. CASE LoaderStep
  BY <1>6, <1>11, <1>13, <1>19 DEF LoaderStep
<1>20. QED
  BY <1>12, <1>15, <1>16, <1>17, <1>18, <1>19 DEF Next

\* What is written keeps its shape.
LEMMA ShapeNext ==
    ASSUME Shape, [Next]_vars
    PROVE  Shape'
<1>1. TaskShape /\ Tasks = Uploads /\ NoLoad \in [task : Tasks \cup {None}, at : LoaderPlaces]
  BY TaskNames DEF Shape, NoLoad, LoaderPlaces
<1>2. RegistryInv'
  BY RegistryNext DEF Shape
<1>3. /\ tasks \in [Tasks -> TaskRecord] /\ taskFile \in [Tasks -> TaskRecord]
      /\ downloads \in Seq(Tasks) /\ signalled \subseteq Tasks
      /\ loader \in [task : Tasks \cup {None}, at : LoaderPlaces]
      /\ loader.at = "idle" <=> loader.task = None
  BY <1>1 DEF TaskShape
<1>4. CASE Quiet
  <2>1. tasks' \in [Tasks -> TaskRecord] /\ taskFile' \in [Tasks -> TaskRecord]
    BY <1>3, <1>4 DEF Quiet, Followed, Follows
  <2>2. /\ downloads' \in Seq(Tasks)
        /\ loader' \in [task : Tasks \cup {None}, at : LoaderPlaces]
        /\ loader'.at = "idle" <=> loader'.task = None
    <3>1. CASE UNCHANGED <<downloads, loader>>
      BY <1>3, <3>1
    <3>2. CASE /\ downloads # << >>
               /\ loader' = [task |-> Head(downloads), at |-> "begin"] /\ downloads' = Tail(downloads)
      <4>1. Head(downloads) \in Tasks /\ Tail(downloads) \in Seq(Tasks)
        BY <1>3, <3>2, HeadTailProperties
      <4>2. None \notin Tasks
        BY <1>1, HistoryHoldsQueue
      <4>3. loader'.task = Head(downloads) /\ loader'.at = "begin"
        BY <3>2
      <4>4. QED
        BY <3>2, <4>1, <4>2, <4>3 DEF LoaderPlaces
    <3>3. CASE loader.at = "error" /\ loader' = [loader EXCEPT !.at = "done"] /\ UNCHANGED downloads
      <4>1. loader'.task = loader.task /\ loader'.at = "done"
            /\ loader' \in [task : Tasks \cup {None}, at : LoaderPlaces]
        BY <1>3, <3>3 DEF LoaderPlaces
      <4>2. QED
        BY <1>3, <3>3, <4>1
    <3>4. CASE loader' = NoLoad /\ UNCHANGED downloads
      <4>1. loader'.at = "idle" /\ loader'.task = None
        BY <3>4 DEF NoLoad
      <4>2. QED
        BY <1>1, <1>3, <3>4, <4>1
    <3>5. QED
      BY <1>4, <3>1, <3>2, <3>3, <3>4 DEF Quiet, Turns
  <2>3. QED
    BY <1>2, <1>4, <2>1, <2>2 DEF Quiet, Removes, Shape, TaskShape
<1>5. ASSUME NEW t \in Tasks, Created(t), Removes, UNCHANGED <<loader, signalled>>
      PROVE  Shape'
  <2>1. tasks' \in [Tasks -> TaskRecord] /\ taskFile' \in [Tasks -> TaskRecord]
        /\ downloads' \in {downloads, Append(downloads, t)}
    BY <1>3, <1>5 DEF Created
  <2>2. downloads' \in Seq(Tasks)
    BY <1>3, <2>1, AppendProperties
  <2>3. QED
    BY <1>2, <1>3, <1>5, <2>1, <2>2 DEF Removes, Shape, TaskShape
<1>6. CASE Loading
  <2>1. tasks' \in [Tasks -> TaskRecord] /\ taskFile' \in [Tasks -> TaskRecord]
    BY <1>3, <1>6 DEF Loading, Records, taskVars
  <2>2. loader'.at # "idle" /\ loader'.task # None
    <3>1. None \notin Tasks
      BY <1>1, HistoryHoldsQueue
    <3>2. QED
      BY <1>6, <3>1 DEF Loading, Stages
  <2>3. orphans' \subseteq Uploads /\ UNCHANGED <<downloads, signalled>>
    BY <1>1, <1>6 DEF Loading, TaskShape
  <2>4. QED
    BY <1>2, <1>3, <1>6, <2>1, <2>2, <2>3 DEF Loading, Shape, TaskShape
<1>7. CASE Handling
  <2>1. /\ UNCHANGED <<tasks, taskFile, downloads, loader, signalled>>
        /\ upload' \in [Uploads -> UploadStates] /\ orphans' \subseteq Uploads
    BY <1>7, HandlingShape
  <2>2. QED
    BY <1>2, <1>3, <2>1 DEF Shape, TaskShape
<1>8. CASE Restarted
  <2>1. tasks' \in [Tasks -> TaskRecord] /\ taskFile' \in [Tasks -> TaskRecord]
    BY <1>8 DEF Restarted, Follows
  <2>2. downloads' \in Seq(Tasks) /\ signalled' \subseteq Tasks
    BY <1>8, EmptySeq DEF Restarted
  <2>3. loader'.at = "idle" /\ loader'.task = None
        /\ loader' \in [task : Tasks \cup {None}, at : LoaderPlaces]
    BY <1>1, <1>8 DEF Restarted, NoLoad
  <2>4. QED
    BY <1>2, <1>8, <2>1, <2>2, <2>3 DEF Restarted, Shape, TaskShape
<1>9. QED
  BY <1>4, <1>5, <1>6, <1>7, <1>8, Kinds

\* At first nothing is known of any task.
LEMMA ShapeFirst ==
    ASSUME Init
    PROVE  Shape
<1>1. RegistryInv
  BY RegistryFirst
<1>2. NoTask \in TaskRecord /\ "none" \in UploadStates
  BY DEF NoTask, TaskRecord, UploadStates
<1>3. tasks \in [Tasks -> TaskRecord] /\ taskFile \in [Tasks -> TaskRecord]
      /\ upload \in [Uploads -> UploadStates]
  BY <1>2 DEF Init
<1>4. downloads \in Seq(Tasks)
  BY EmptySeq DEF Init
<1>5. /\ loader.at = "idle" /\ loader.task = None
      /\ loader \in [task : Tasks \cup {None}, at : LoaderPlaces]
  BY DEF Init, NoLoad, LoaderPlaces
<1>6. QED
  BY <1>1, <1>3, <1>4, <1>5 DEF Init, Shape, TaskShape

\* The shape holds in every reachable state.
LEMMA ShapeInvariant == Spec => []Shape
<1>1. Init => Shape
  BY ShapeFirst
<1>2. Shape /\ [Next]_vars => Shape'
  BY ShapeNext
<1>3. QED
  BY <1>1, <1>2, PTL DEF Spec

\* Records, journals, queues, tasks and packages keep their shape
\* (operations.py:133-339, store_tasks.py:150-420, uploads.py:60-330).
THEOREM Typed == Spec => []TypeOK
<1>1. Shape => TypeOK
  <2> SUFFICES ASSUME Shape PROVE TypeOK
    OBVIOUS
  <2>1. /\ records \in Seq(OperationRecord) /\ journal \in Seq(OperationRecord)
        /\ Len(records) <= MaxHistory /\ Len(journal) <= MaxHistory
    BY DEF Shape, RegistryInv, Registry, Sound
  <2>2. pending \in Seq([id : Ids, app : Apps, up : Uploads \cup {None}])
        /\ worker.at \in {"idle", "taken", "call", "install", "mark", "clean", "finish"}
    BY DEF Shape, RegistryInv, Registry, WorkerShape, WorkerPlaces, Jobs
  <2>3. flight.at \in {"idle", "verified", "submit", "accepted", "rollback", "drop"}
    BY DEF Shape, RegistryInv, FlightShape, FlightPlaces
  <2>4. QED
    BY <2>1, <2>2, <2>3 DEF Shape, TaskShape, TaskRecord, UploadStates, TypeOK
<1>2. QED
  BY <1>1, ShapeInvariant, PTL
-----------------------------------------------------------------------------
(* Nothing is left that only somebody who is gone could end. *)

(* Who still has to move a package on.  A request that only looked, or has *)
(* its answer, owes nothing; neither does a worker that has cleaned up.    *)
Waiting == {"install_queued", "installing"}
Owes(u) ==
    \/ flight.up = u /\ flight.at \in {"submit", "rollback", "drop"}
    \/ worker.job.up = u /\ worker.at # "finish"
    \/ \E i \in 1 .. Len(pending) : pending[i].up = u
Owned == \A u \in Uploads : upload[u] \in Waiting => u \in orphans \/ Owes(u)

\* What is accepted comes last in the queue.
LEMMA AcceptQueues ==
    ASSUME Registry, NEW a \in Apps, NEW u \in Uploads \cup {None}, Accept(a, u)
    PROVE  /\ Len(pending') = Len(pending) + 1 /\ Len(pending) \in Nat
           /\ \A i \in 1 .. Len(pending) : pending'[i] = pending[i]
           /\ pending'[Len(pending) + 1] = [id |-> FreshId, app |-> a, up |-> u]
           /\ UNCHANGED worker
<1> DEFINE j == Job([id |-> FreshId, app |-> a, up |-> u, st |-> "queued"])
<1>1. j = [id |-> FreshId, app |-> a, up |-> u]
  BY DEF Job
<1>2. j \in Jobs
  BY <1>1, FreshIdIsFresh DEF Jobs
<1>3. pending' = Append(pending, j) /\ UNCHANGED worker
  BY DEF Accept
<1>4. pending \in Seq(Jobs) /\ Len(pending) \in Nat
  BY LenProperties DEF Registry
<1> HIDE DEF j
<1>5. QED
  BY <1>1, <1>2, <1>3, <1>4, AppendProperties

\* The queue only grows, or its first operation goes to the worker.
LEMMA QueueMoves ==
    ASSUME Shape, Sparing, NEW u \in Uploads, Owes(u)
    PROVE  Owes(u)'
<1>1. Registry /\ FlightShape /\ pending \in Seq(Jobs) /\ Len(pending) \in Nat /\ u # None
  BY HistoryHoldsQueue, LenProperties DEF Shape, RegistryInv, Registry
<1>2. CASE UNCHANGED <<pending, worker, flight>>
  BY <1>2 DEF Owes
<1>3. CASE /\ UNCHANGED <<pending, worker>>
           /\ flight.at \notin {"submit", "rollback", "drop"}
  BY <1>3 DEF Owes
<1>4. ASSUME NEW a \in Apps, NEW v \in Uploads \cup {None}, Accept(a, v),
             \/ UNCHANGED flight
             \/ flight.at \notin {"rollback", "drop"} /\ flight.up = v
      PROVE  Owes(u)'
  <2>1. /\ Len(pending') = Len(pending) + 1 /\ Len(pending) \in Nat
        /\ \A i \in 1 .. Len(pending) : pending'[i] = pending[i]
        /\ pending'[Len(pending) + 1] = [id |-> FreshId, app |-> a, up |-> v]
        /\ UNCHANGED worker
    BY <1>1, <1>4, AcceptQueues
  <2>2. \A i \in 1 .. Len(pending) : i \in 1 .. Len(pending')
    BY <2>1
  <2>3. Len(pending) + 1 \in 1 .. Len(pending') /\ pending'[Len(pending) + 1].up = v
    BY <2>1
  <2>4. CASE \E i \in 1 .. Len(pending) : pending[i].up = u
    BY <2>1, <2>2, <2>4 DEF Owes
  <2>5. CASE worker.job.up = u /\ worker.at # "finish"
    BY <2>1, <2>5 DEF Owes
  <2>6. CASE flight.up = u /\ flight.at \in {"submit", "rollback", "drop"}
    BY <1>4, <2>3, <2>6 DEF Owes
  <2>7. QED
    BY <2>4, <2>5, <2>6 DEF Owes
<1>5. CASE Submit
  <2>1. /\ flight.at = "submit" /\ flight.up \in Uploads /\ AppOf[flight.up] \in Apps
        /\ flight \in [up : Uploads \cup {None}, store : BOOLEAN, at : FlightPlaces]
    BY <1>1, <1>5, TaskNames DEF Submit, FlightShape
  <2>2. CASE Accept(AppOf[flight.up], flight.up)
    BY <1>4, <2>1, <2>2
  <2>3. CASE UNCHANGED <<pending, worker>>
             /\ \E at \in {"drop", "rollback"} : flight' = [flight EXCEPT !.at = at]
    <3>1. flight'.up = flight.up /\ flight'.at \in {"drop", "rollback"}
      BY <2>1, <2>3 DEF FlightPlaces
    <3>2. QED
      BY <2>1, <2>3, <3>1 DEF Owes
  <2>4. QED
    BY <1>5, <2>2, <2>3 DEF Submit, Uncertain, opVars
<1>6. CASE Answer
  <2>1. flight.at = "accepted" /\ UNCHANGED <<pending, worker>>
    BY <1>6 DEF Answer, opVars
  <2>2. QED
    BY <1>3, <2>1
<1>7. CASE Request
  <2>1. CASE \E a \in Apps : Mutate(a)
    <3>1. PICK a \in Apps : (Accept(a, None) \/ Uncertain(a, None)) /\ UNCHANGED flight
      BY <2>1 DEF Mutate
    <3>2. CASE Accept(a, None)
      BY <1>4, <3>1, <3>2
    <3>3. CASE Uncertain(a, None)
      BY <1>2, <3>1, <3>3 DEF Uncertain
    <3>4. QED
      BY <3>1, <3>2, <3>3
  <2>2. CASE \E v \in Uploads : \E store \in BOOLEAN : Finalize(v, store)
    <3>1. flight.at = "idle" /\ UNCHANGED <<pending, worker>>
      BY <2>2 DEF Finalize, FinalizeFree, NoFlight, opVars
    <3>2. QED
      BY <1>3, <3>1
  <2>3. CASE ~(\E a \in Apps : Mutate(a)) /\ ~(\E v \in Uploads : \E store \in BOOLEAN : Finalize(v, store))
    <3>1. UNCHANGED <<pending, worker, flight>>
      BY <1>7, <2>3 DEF Request, Look, CloseStore, CloseOperations, RefuseNew, Create, Cancel,
                        TooLate, Replay, DeleteUpload, Collect, opVars
    <3>2. QED
      BY <1>2, <3>1
  <2>4. QED
    BY <2>1, <2>2, <2>3
<1>8. CASE EndInstall \/ OtherCall
  <2>1. /\ worker'.job = worker.job /\ UNCHANGED <<pending, flight>>
        /\ worker'.at = "mark" \/ worker.job.up = None
    BY <1>1, <1>8 DEF EndInstall, OtherCall, CallEnds, Registry, WorkerShape
  <2>2. QED
    BY <1>1, <2>1 DEF Owes
<1>9. CASE Take /\ UNCHANGED flight
  <2>1. pending # << >> /\ worker' = [job |-> Head(pending), at |-> "taken", ok |-> FALSE]
        /\ pending' = Tail(pending) /\ worker.at = "idle"
    BY <1>9 DEF Take
  <2>2. /\ Head(pending) = pending[1] /\ Len(Tail(pending)) = Len(pending) - 1
        /\ \A i \in 1 .. Len(Tail(pending)) : Tail(pending)[i] = pending[i + 1]
    BY <1>1, <2>1, HeadTailProperties
  <2>3. worker.job.up # u
    BY <1>1, <2>1 DEF Registry, WorkerShape, NoJob
  <2>4. CASE flight.up = u /\ flight.at \in {"submit", "rollback", "drop"}
    BY <1>9, <2>4 DEF Owes
  <2>5. CASE \E i \in 1 .. Len(pending) : pending[i].up = u
    <3>1. PICK i \in 1 .. Len(pending) : pending[i].up = u
      BY <2>5
    <3>2. CASE i = 1
      <4>1. worker'.job.up = u /\ worker'.at # "finish"
        BY <2>1, <2>2, <3>1, <3>2
      <4>2. QED
        BY <4>1 DEF Owes
    <3>3. CASE i # 1
      <4>1. i - 1 \in 1 .. Len(pending') /\ pending'[i - 1] = pending[i]
        BY <1>1, <2>1, <2>2, <3>1, <3>3
      <4>2. QED
        BY <3>1, <4>1 DEF Owes
    <3>4. QED
      BY <3>2, <3>3
  <2>6. QED
    BY <2>3, <2>4, <2>5 DEF Owes
<1>10. CASE (StartOperation \/ FinishOperation) /\ UNCHANGED flight
  <2>1. UNCHANGED pending
    BY <1>10 DEF StartOperation, FinishOperation
  <2>2. CASE StartOperation
    <3>1. worker'.job = worker.job /\ worker'.at = "call"
      BY <1>1, <2>2 DEF StartOperation, Registry, WorkerShape
    <3>2. QED
      BY <1>10, <2>1, <3>1 DEF Owes
  <2>3. CASE FinishOperation
    <3>1. worker.at = "finish"
      BY <2>3 DEF FinishOperation
    <3>2. QED
      BY <1>10, <2>1, <3>1 DEF Owes
  <2>4. QED
    BY <1>10, <2>2, <2>3
<1>11. CASE TakeTask \/ LoadFails \/ LoadDone \/ UNCHANGED vars
  <2>1. UNCHANGED <<pending, worker, flight>>
    BY <1>11 DEF TakeTask, LoadFails, LoadDone, opVars, vars
  <2>2. QED
    BY <1>2, <2>1
<1>12. QED
  BY <1>5, <1>6, <1>7, <1>8, <1>9, <1>10, <1>11 DEF Sparing
\* The steps that put a package into a waiting state owe it the next one.
LEMMA HandlingOwned ==
    ASSUME Shape, Owned, Handling
    PROVE  Owned'
<1>1. /\ TaskShape /\ upload \in [Uploads -> UploadStates] /\ None \notin Uploads
      /\ flight \in [up : Uploads \cup {None}, store : BOOLEAN, at : FlightPlaces]
      /\ flight.at # "idle" => flight.up \in Uploads
  BY HistoryHoldsQueue DEF Shape, TaskShape, RegistryInv, FlightShape
<1>2. \A u \in Uploads : upload[u] \in Waiting => u \in orphans \/ Owes(u)
  BY DEF Owned
<1>3. CASE QueueUpload
  <2>1. /\ flight.at = "verified" /\ UNCHANGED <<pending, worker, orphans>>
    BY <1>3 DEF QueueUpload, opVars
  <2>2. PICK f \in Uploads : f = flight.up
    BY <1>1, <2>1
  <2>3. ASSUME NEW u \in Uploads, Owes(u)
        PROVE  Owes(u)'
    BY <2>1, <2>3 DEF Owes
  <2>4. CASE UNCHANGED upload
    BY <1>2, <2>1, <2>3, <2>4 DEF Owned
  <2>5. CASE upload' = [upload EXCEPT ![f] = "install_queued"] /\ flight' = [flight EXCEPT !.at = "submit"]
    <3>1. flight'.up = f /\ flight'.at = "submit"
      BY <1>1, <2>2, <2>5 DEF FlightPlaces
    <3>2. Owes(f)'
      BY <3>1 DEF Owes
    <3>3. \A u \in Uploads : u # f => upload'[u] = upload[u]
      BY <1>1, <2>5
    <3>4. QED
      BY <1>2, <2>1, <2>3, <3>2, <3>3 DEF Owned
  <2>6. CASE upload' = [upload EXCEPT ![f] = "unreported"]
    <3>1. upload'[f] \notin Waiting /\ \A u \in Uploads : u # f => upload'[u] = upload[u]
      BY <1>1, <2>6 DEF Waiting
    <3>2. QED
      BY <1>2, <2>1, <2>3, <3>1 DEF Owned
  <2>7. QED
    BY <1>3, <2>2, <2>4, <2>5, <2>6 DEF QueueUpload, UploadSet, UploadKept, UploadRaises
<1>4. CASE Rollback \/ DropUpload
  <2>1. flight.at # "idle" /\ UNCHANGED <<pending, worker>>
    BY <1>4 DEF Rollback, DropUpload, opVars
  <2>2. PICK f \in Uploads : f = flight.up
    BY <1>1, <2>1
  <2>3. ASSUME NEW u \in Uploads, u # f, Owes(u)
        PROVE  Owes(u)'
    BY <2>1, <2>2, <2>3 DEF Owes
  <2>4. ASSUME \A u \in Uploads : u # f => upload'[u] = upload[u] /\ (u \in orphans' <=> u \in orphans),
               upload'[f] \notin Waiting \/ f \in orphans'
        PROVE  Owned'
    BY <1>2, <2>3, <2>4 DEF Owned
  <2>5. CASE RemoveOrMark(f)
    <3>1. /\ \A v \in Uploads : v # f => upload'[v] = upload[v] /\ (v \in orphans' <=> v \in orphans)
          /\ upload'[f] = "gone" \/ f \in orphans'
      BY <1>1, <2>5, RemovesOrMarks
    <3>2. QED
      BY <2>4, <3>1 DEF Waiting
  <2>6. CASE /\ upload' = [upload EXCEPT ![f] = "preflighted"]
             /\ orphans' \in {orphans, orphans \cup {f}}
    <3>1. upload'[f] = "preflighted" /\ \A v \in Uploads : v # f => upload'[v] = upload[v]
      BY <1>1, <2>6
    <3>2. QED
      BY <2>4, <2>6, <3>1 DEF Waiting
  <2>7. QED
    BY <1>4, <2>2, <2>5, <2>6 DEF Rollback, DropUpload, UploadSet
<1>5. CASE BeginInstall \/ MarkUpload
  <2>1. /\ UNCHANGED <<pending, orphans, flight>> /\ worker'.job = worker.job
        /\ worker'.at \in {"install", "mark", "clean"} /\ worker.at # "idle"
        /\ worker.job.up \in Uploads
    <3>1. WorkerShape
      BY DEF Shape, RegistryInv, Registry
    <3>2. worker.job.up # None /\ worker.at # "idle"
      BY <1>5, <3>1 DEF BeginInstall, MarkUpload, CallGoes, CallEnds, WorkerShape
    <3>3. worker.job.up \in Uploads
      BY <3>1, <3>2 DEF WorkerShape, Jobs, NoJob
    <3>4. QED
      BY <1>5, <3>1, <3>2, <3>3 DEF BeginInstall, MarkUpload, CallGoes, CallEnds, WorkerShape
  <2>2. PICK w \in Uploads : w = worker.job.up
    BY <2>1
  <2>3. ASSUME NEW u \in Uploads, Owes(u)
        PROVE  Owes(u)'
    BY <2>1, <2>3 DEF Owes
  <2>4. Owes(w)'
    BY <2>1, <2>2 DEF Owes
  <2>5. \A u \in Uploads : u # w => upload'[u] = upload[u]
    BY <1>1, <1>5, <2>2 DEF BeginInstall, MarkUpload, UploadSet, UploadKept, UploadRaises
  <2>6. QED
    BY <1>2, <2>1, <2>3, <2>4, <2>5 DEF Owned
<1>6. CASE CleanUpload
  <2>1. /\ UNCHANGED <<pending, flight>> /\ worker'.job = worker.job
        /\ worker'.at = "finish" /\ worker.at = "clean"
        /\ worker.job.up \in Uploads /\ RemoveOrMark(worker.job.up)
    <3>1. WorkerShape
      BY DEF Shape, RegistryInv, Registry
    <3>2. worker.job.up \in Uploads
      BY <1>6, <3>1 DEF CleanUpload, CallGoes, WorkerShape, Jobs, NoJob
    <3>3. QED
      BY <1>6, <3>1, <3>2 DEF CleanUpload, CallGoes, WorkerShape
  <2>2. PICK w \in Uploads : w = worker.job.up
    BY <2>1
  <2>3. ASSUME NEW u \in Uploads, u # w, Owes(u)
        PROVE  Owes(u)'
    BY <2>1, <2>2, <2>3 DEF Owes
  <2>4. /\ \A v \in Uploads : v # w => upload'[v] = upload[v] /\ (v \in orphans' <=> v \in orphans)
        /\ upload'[w] = "gone" \/ w \in orphans'
    BY <1>1, <2>1, <2>2, RemovesOrMarks
  <2>5. QED
    BY <1>2, <2>3, <2>4 DEF Owned, Waiting
<1>7. QED
  BY <1>3, <1>4, <1>5, <1>6 DEF Handling

\* Whoever puts a package into a waiting state, or takes over from him, owes
\* it the next one, or marks it.
LEMMA OwnedNext ==
    ASSUME Shape, Owned, [Next]_vars
    PROVE  Owned'
<1>1. TaskShape /\ Tasks = Uploads
  BY TaskNames DEF Shape
<1>2. CASE Sparing /\ Removes
  <2>1. ASSUME NEW u \in Uploads, upload'[u] \in Waiting
        PROVE  u \in orphans' \/ Owes(u)'
    <3>1. upload'[u] # "gone"
      BY <2>1 DEF Waiting
    <3>2. upload'[u] = upload[u] /\ (u \in orphans => u \in orphans')
      BY <1>2, <3>1 DEF Removes
    <3>3. u \in orphans \/ Owes(u)
      BY <2>1, <3>2 DEF Owned
    <3>4. QED
      BY <1>2, <3>2, <3>3, QueueMoves
  <2>2. QED
    BY <2>1 DEF Owned
<1>3. CASE Loading
  <2>1. UNCHANGED <<pending, worker, flight, orphans>>
    BY <1>3 DEF Loading, opVars
  <2>2. \A u \in Uploads : Owes(u) => Owes(u)'
    BY <2>1 DEF Owes
  <2>3. \A u \in Uploads : upload'[u] \in Waiting => upload'[u] = upload[u]
    BY <1>1, <1>3 DEF Loading, Stages, Waiting
  <2>4. QED
    BY <2>1, <2>2, <2>3 DEF Owned
<1>4. CASE Restarted
  BY <1>4 DEF Restarted, Owned, Waiting, ActiveUpload
<1>5. CASE Handling
  BY <1>5, HandlingOwned
<1>6. CASE \E t \in Tasks : Create(t) /\ Removes
  BY <1>2, <1>6 DEF Sparing, Request
<1>7. QED
  BY <1>2, <1>3, <1>4, <1>5, <1>6, Kinds DEF Quiet
(* A package whose request failed while its status was saved has no        *)
(* operation, and no request holds it.                                     *)
Inert == \A u \in Uploads : upload[u] = "unreported" => ~Bound(u) /\ flight.up # u

\* Only the update of the request itself leaves a package so.
LEMMA Unreporting ==
    ASSUME Shape, [Next]_vars, NEW u \in Uploads, upload'[u] = "unreported"
    PROVE  upload[u] = "unreported" \/ (QueueUpload /\ flight.up = u /\ flight' = NoFlight)
<1>1. /\ TaskShape /\ Tasks = Uploads /\ upload \in [Uploads -> UploadStates]
      /\ "unreported" \in ActiveUpload
      /\ "unreported" \notin {"gone", "receiving", "uploaded", "rejected", "preflighted",
                              "install_queued", "installing", "installed", "failed"}
  BY TaskNames DEF Shape, TaskShape, ActiveUpload
<1>2. CASE Removes
  BY <1>1, <1>2 DEF Removes
<1>3. CASE Loading
  BY <1>1, <1>3 DEF Loading, Stages
<1>4. CASE Restarted
  BY <1>1, <1>4 DEF Restarted
<1>5. CASE QueueUpload
  BY <1>1, <1>5 DEF QueueUpload, UploadSet, UploadKept, UploadRaises
<1>6. CASE Rollback \/ DropUpload \/ CleanUpload
  BY <1>1, <1>6 DEF Rollback, DropUpload, CleanUpload, RemoveOrMark, Removed, Remains, UploadSet
<1>7. CASE BeginInstall \/ MarkUpload
  BY <1>1, <1>7 DEF BeginInstall, MarkUpload, UploadSet, UploadKept, UploadRaises
<1>8. QED
  BY <1>2, <1>3, <1>4, <1>5, <1>6, <1>7, Kinds DEF Quiet, Handling

\* A package gets an operation through the request that holds it only.
LEMMA BindsItsOwn ==
    ASSUME Shape, [Next]_vars, ~Restart, NEW u \in Uploads, ~Bound(u), flight.up # u
    PROVE  ~Bound(u)'
<1>1. Registry /\ Registry' /\ u # None
  BY RegistryNext, HistoryHoldsQueue DEF Shape, RegistryInv
<1>2. Sound(records) /\ Sound(records')
  BY <1>1 DEF Registry
<1>3. CASE UNCHANGED records
  BY <1>3 DEF Bound, Status
<1>4. CASE Submit /\ ~ UNCHANGED records
  <2>1. flight.up \in Uploads /\ AppOf[flight.up] \in Apps
    BY <1>4, TaskNames DEF Submit, Shape, RegistryInv, FlightShape
  <2>2. Accept(AppOf[flight.up], flight.up) \/ Uncertain(AppOf[flight.up], flight.up)
    BY <1>4 DEF Submit, opVars
  <2>3. PICK a \in Apps, v \in Uploads : /\ v # u /\ (Accept(a, v) \/ Uncertain(a, v))
    BY <2>1, <2>2
  <2>4. \A i \in 1 .. Len(records') :
           records'[i].up = v \/ \E k \in 1 .. Len(records) : records'[i].up = records[k].up
    BY <1>1, <2>3, AcceptNames
  <2>5. QED
    BY <1>2, <2>3, <2>4, UnboundStays
<1>5. ASSUME NEW a \in Apps, Accept(a, None) \/ Uncertain(a, None)
      PROVE  ~Bound(u)'
  <2>1. \A i \in 1 .. Len(records') :
           records'[i].up = None \/ \E k \in 1 .. Len(records) : records'[i].up = records[k].up
    BY <1>1, <1>5, AcceptNames
  <2>2. QED
    BY <1>1, <1>2, <2>1, UnboundStays
<1>6. CASE StartOperation \/ FinishOperation
  <2>1. \A i \in 1 .. Len(records') :
           records'[i].up = None \/ \E k \in 1 .. Len(records) : records'[i].up = records[k].up
    BY <1>1, <1>6, UpdatesNameTheSame
  <2>2. QED
    BY <1>1, <1>2, <2>1, UnboundStays
<1>7. CASE Request
  <2>1. CASE \E a \in Apps : Mutate(a)
    BY <1>5, <2>1 DEF Mutate
  <2>2. CASE ~ \E a \in Apps : Mutate(a)
    <3>1. UNCHANGED records
      BY <1>7, <2>2 DEF Request, Look, CloseStore, CloseOperations, RefuseNew, Create, Cancel,
                        TooLate, Replay, Finalize, DeleteUpload, Collect, opVars
    <3>2. QED
      BY <1>3, <3>1
  <2>3. QED
    BY <2>1, <2>2
<1>8. CASE FlightStep
  <2>1. CASE QueueUpload \/ Rollback \/ DropUpload \/ Answer
    BY <1>3, <2>1 DEF QueueUpload, Rollback, DropUpload, Answer, opVars
  <2>2. QED
    BY <1>3, <1>4, <1>8, <2>1 DEF FlightStep
<1>9. CASE WorkerStep
  <2>1. CASE Take \/ BeginInstall \/ EndInstall \/ MarkUpload \/ CleanUpload \/ OtherCall
    BY <1>3, <2>1 DEF Take, BeginInstall, EndInstall, MarkUpload, CleanUpload, OtherCall,
                      CallGoes, CallEnds
  <2>2. QED
    BY <1>6, <1>9, <2>1 DEF WorkerStep
<1>10. CASE LoaderStep \/ UNCHANGED vars
  BY <1>3, <1>10 DEF LoaderStep, TakeTask, BeginLoad, Reserve, Transfer, BeginPreflight,
                     Preflight, Validate, LoadFails, LoadDone, vars, opVars
<1>11. QED
  BY <1>7, <1>8, <1>9, <1>10 DEF Next

\* So it stays without one until a restart settles it.
LEMMA InertNext ==
    ASSUME Shape, Inert, [Next]_vars
    PROVE  Inert'
<1> SUFFICES ASSUME NEW u \in Uploads, upload'[u] = "unreported"
             PROVE  ~Bound(u)' /\ flight'.up # u
  BY DEF Inert
<1>1. u # None /\ NoFlight.up = None
  BY HistoryHoldsQueue DEF NoFlight
<1>2. CASE QueueUpload /\ flight.up = u /\ flight' = NoFlight
  <2>1. ~Bound(u) /\ UNCHANGED records
    BY <1>2 DEF QueueUpload, opVars, Shape, RegistryInv, Unbound
  <2>2. QED
    BY <1>1, <1>2, <2>1 DEF Bound, Status
<1>3. CASE upload[u] = "unreported"
  <2>1. ~Bound(u) /\ flight.up # u
    BY <1>3 DEF Inert
  <2>2. ~Restart
    <3>1. Restart => upload'[u] \notin ActiveUpload
      BY RestartSettles DEF Restarted
    <3>2. QED
      BY <3>1 DEF ActiveUpload
  <2>3. flight'.up # u
    <3>1. CASE UNCHANGED flight \/ flight' = NoFlight
      BY <1>1, <2>1, <3>1
    <3>2. CASE \E at \in FlightPlaces : flight' = [flight EXCEPT !.at = at]
      BY <2>1, <3>2 DEF Shape, RegistryInv, FlightShape
    <3>3. CASE \E v \in Uploads : \E store \in BOOLEAN : Finalize(v, store)
      BY <1>3, <3>3 DEF Finalize, Installable
    <3>4. CASE FlightStep
      BY <3>1, <3>2, <3>4 DEF FlightStep, QueueUpload, Submit, Rollback, DropUpload, Answer,
                              FlightPlaces
    <3>5. CASE WorkerStep
      BY <3>1, <3>5 DEF WorkerStep, BeginInstall, EndInstall, MarkUpload, CleanUpload, OtherCall
    <3>6. CASE LoaderStep \/ UNCHANGED vars
      BY <3>1, <3>6 DEF LoaderStep, TakeTask, BeginLoad, Reserve, Transfer, BeginPreflight,
                        Preflight, Validate, LoadFails, LoadDone, vars
    <3>7. CASE Request
      BY <3>1, <3>3, <3>7 DEF Request, Look, CloseStore, CloseOperations, Create, Cancel,
                              TooLate, Replay, DeleteUpload, Collect, Mutate
    <3>8. QED
      BY <2>2, <3>4, <3>5, <3>6, <3>7 DEF Next
  <2>4. QED
    BY <2>1, <2>2, <2>3, BindsItsOwn
<1>4. QED
  BY <1>2, <1>3, Unreporting

(* Every task that says it downloads is in the queue, once, or in the      *)
(* hands of the loader, which has not let go of it.                        *)
Answered ==
    /\ \A t \in Tasks : tasks[t].st \in Downloading => Claimed(t)
    /\ loader.at = "done" => tasks[loader.task].st \notin Downloading
    /\ IsInjective(downloads) /\ Len(downloads) <= MaxActive

\* A sequence that repeats nothing has as many elements as it is long.
LEMMA DistinctElements ==
    ASSUME NEW T, NEW s \in Seq(T), IsInjective(s)
    PROVE  IsFiniteSet(ToSet(s)) /\ Cardinality(ToSet(s)) = Len(s) /\ Len(s) \in Nat
<1>1. DOMAIN s = 1 .. Len(s) /\ Len(s) \in Nat
  BY LenProperties
<1>2. s \in [1 .. Len(s) -> ToSet(s)]
  <2>1. s \in [1 .. Len(s) -> T] /\ \A i \in 1 .. Len(s) : s[i] \in ToSet(s)
    BY <1>1 DEF ToSet
  <2>2. QED
    BY <2>1
<1>3. s \in Surjection(1 .. Len(s), ToSet(s))
  BY <1>1, <1>2 DEF Surjection, ToSet
<1>4. s \in Injection(1 .. Len(s), ToSet(s))
  BY <1>1, <1>2 DEF Injection, IsInjective
<1>5. IsFiniteSet(1 .. Len(s)) /\ Cardinality(1 .. Len(s)) = Len(s)
  BY <1>1, FromOneTo
<1>6. IsFiniteSet(ToSet(s))
  BY <1>3, <1>5, FS_Surjection
<1>7. Cardinality(1 .. Len(s)) = Cardinality(ToSet(s))
  BY <1>3, <1>4, <1>6, FS_Injection
<1>8. QED
  BY <1>1, <1>5, <1>6, <1>7

\* The elements of a queue are its first one and the others.
LEMMA TakeElements ==
    ASSUME NEW T, NEW s \in Seq(T), s # << >>
    PROVE  /\ Head(s) \in T /\ Tail(s) \in Seq(T) /\ Len(Tail(s)) = Len(s) - 1 /\ Len(s) \in Nat
           /\ ToSet(s) = {Head(s)} \cup ToSet(Tail(s))
           /\ IsInjective(s) => IsInjective(Tail(s)) /\ Head(s) \notin ToSet(Tail(s))
<1>1. /\ Head(s) = s[1] /\ Tail(s) \in Seq(T) /\ Len(Tail(s)) = Len(s) - 1
      /\ \A i \in 1 .. Len(Tail(s)) : Tail(s)[i] = s[i + 1]
      /\ Len(s) \in Nat /\ Len(s) # 0
  BY HeadTailProperties, EmptySeq, LenProperties
<1>2. DOMAIN s = 1 .. Len(s) /\ DOMAIN Tail(s) = 1 .. Len(s) - 1 /\ 1 \in 1 .. Len(s)
  BY <1>1, LenProperties
<1> DEFINE n == Len(s)
           q == Tail(s)
<1>3. \A i \in 1 .. n - 1 : q[i] = s[i + 1] /\ i + 1 \in 1 .. n /\ i + 1 # 1
  BY <1>1
<1>4. \A i \in 1 .. n : i # 1 => i - 1 \in 1 .. n - 1 /\ q[i - 1] = s[i]
  BY <1>1
<1>5. s[1] \in T
  BY <1>2, ElementOfSeq
<1>6. ToSet(s) = {s[1]} \cup ToSet(q)
  <2> HIDE DEF q, n
  <2>1. DOMAIN s = 1 .. n /\ DOMAIN q = 1 .. n - 1 /\ 1 \in 1 .. n
    BY <1>2 DEF q, n
  <2>2. \A x : x \in ToSet(s) => x = s[1] \/ x \in ToSet(q)
    BY <1>4, <2>1 DEF ToSet
  <2>3. \A x : x = s[1] \/ x \in ToSet(q) => x \in ToSet(s)
    BY <1>3, <2>1 DEF ToSet
  <2>4. QED
    BY <2>2, <2>3
<1>7. ASSUME IsInjective(s)
      PROVE  IsInjective(q) /\ s[1] \notin ToSet(q)
  <2>0. \A i, j \in 1 .. n : s[i] = s[j] => i = j
    BY <1>2, <1>7 DEF IsInjective
  <2>1. \A i, j \in 1 .. n - 1 : q[i] = q[j] => i = j
    <3> SUFFICES ASSUME NEW i \in 1 .. n - 1, NEW j \in 1 .. n - 1, q[i] = q[j] PROVE i = j
      OBVIOUS
    <3>1. i + 1 = j + 1
      BY <1>3, <2>0
    <3>2. QED
      BY <1>1, <3>1
  <2>2. \A i \in 1 .. n - 1 : q[i] # s[1]
    BY <1>2, <1>3, <2>0
  <2>3. QED
    BY <1>2, <2>1, <2>2 DEF IsInjective, ToSet
<1>8. QED
  BY <1>1, <1>5, <1>6, <1>7

\* A record goes to downloading in the hands of the loader, and out of it
\* before the loader lets go.
LEMMA AnsweredNext ==
    ASSUME Shape, Answered, [Next]_vars
    PROVE  Answered'
<1>0. downloads \in Seq(Tasks) /\ IsInjective(downloads)
  BY DEF Shape, TaskShape, Answered
<1>1. /\ TaskShape /\ downloads \in Seq(Tasks) /\ None \notin Tasks
      /\ tasks \in [Tasks -> TaskRecord] /\ MaxActive \in Nat \ {0}
      /\ loader \in [task : Tasks \cup {None}, at : LoaderPlaces]
      /\ loader.at = "idle" <=> loader.task = None
  BY TaskNames, HistoryHoldsQueue DEF Shape, TaskShape
<1>2. /\ Len(downloads) \in Nat /\ IsInjective(downloads) /\ Len(downloads) <= MaxActive
      /\ loader.at = "done" => tasks[loader.task].st \notin Downloading
      /\ \A t \in Tasks : tasks[t].st \in Downloading => t \in ToSet(downloads) \/ t = loader.task
  BY <1>1, LenProperties DEF Answered, Claimed
<1>8. Len(downloads) \in Nat /\ Len(downloads) <= MaxActive /\ MaxActive \in Nat
  BY <1>1, <1>2
<1>9. ASSUME NEW t \in Tasks, tasks[t].st \in Downloading
      PROVE  t \in ToSet(downloads) \/ t = loader.task
  BY <1>2, <1>9
<1>3. CASE Quiet
  <2>1. \A t \in Tasks : tasks'[t].st \in Downloading => tasks[t].st \in Downloading
    BY <1>3 DEF Quiet, Followed, Follows, Later
  <2>2. CASE UNCHANGED <<downloads, loader>>
    <3>1. loader.at = "done" => loader.task \in Tasks
      BY <1>1
    <3>2. QED
      BY <1>2, <2>1, <2>2, <3>1 DEF Answered, Claimed
  <2>3. CASE /\ loader.at = "idle" /\ downloads # << >>
             /\ loader' = [task |-> Head(downloads), at |-> "begin"] /\ downloads' = Tail(downloads)
    <3>1. /\ ToSet(downloads) = {Head(downloads)} \cup ToSet(downloads')
          /\ IsInjective(downloads') /\ Len(downloads') = Len(downloads) - 1
      <4>1. downloads # << >> /\ downloads' = Tail(downloads)
        BY <2>3
      <4>2. /\ ToSet(downloads) = {Head(downloads)} \cup ToSet(Tail(downloads))
            /\ IsInjective(Tail(downloads)) /\ Len(Tail(downloads)) = Len(downloads) - 1
        BY <1>0, <4>1, TakeElements
      <4>3. QED
        BY <4>1, <4>2
    <3>2. loader.task = None /\ loader'.task = Head(downloads) /\ loader'.at = "begin"
      BY <1>1, <2>3
    <3>3. Len(downloads') <= MaxActive
      BY <1>8, <3>1
    <3>4. ASSUME NEW t \in Tasks, tasks'[t].st \in Downloading
          PROVE  t \in ToSet(downloads') \/ t = loader'.task
      <4>1. t \in ToSet(downloads) \/ t = loader.task
        BY <1>9, <2>1, <3>4
      <4>2. t # loader.task
        BY <1>1, <3>2
      <4>3. QED
        BY <3>1, <3>2, <4>1, <4>2
    <3>5. QED
      BY <3>1, <3>2, <3>3, <3>4 DEF Answered, Claimed
  <2>4. CASE /\ loader.at = "error" /\ loader' = [loader EXCEPT !.at = "done"] /\ UNCHANGED downloads
             /\ tasks'[loader.task].st \notin Downloading
    <3>1. loader'.task = loader.task
      BY <1>1, <2>4
    <3>2. QED
      BY <1>2, <2>1, <2>4, <3>1 DEF Answered, Claimed
  <2>5. CASE loader.at = "done" /\ loader' = NoLoad /\ UNCHANGED downloads
    <3>1. loader'.at = "idle"
      BY <2>5 DEF NoLoad
    <3>2. ASSUME NEW t \in Tasks, tasks'[t].st \in Downloading
          PROVE  t \in ToSet(downloads')
      <4>1. tasks[t].st \in Downloading
        BY <2>1, <3>2
      <4>2. t \in ToSet(downloads) \/ t = loader.task
        BY <1>9, <4>1
      <4>3. t # loader.task
        BY <1>2, <2>5, <4>1
      <4>4. QED
        BY <2>5, <4>2, <4>3
    <3>3. QED
      BY <1>2, <2>5, <3>1, <3>2 DEF Answered, Claimed
  <2>6. QED
    BY <1>3, <2>2, <2>3, <2>4, <2>5 DEF Quiet, Turns
<1>4. ASSUME NEW t \in Tasks, Create(t), Created(t), UNCHANGED <<loader, signalled>>
      PROVE  Answered'
  <2>1. ~Claimed(t)
    BY <1>4 DEF Create
  <2>2. t \notin ToSet(downloads) /\ t # loader.task
    BY <2>1 DEF Claimed
  <2>3. PICK s, new \in [Tasks -> TaskRecord] :
            /\ Follows(tasks, s)
            /\ \A i \in Tasks : i # t => new[i] = s[i]
            /\ \/ tasks' = new /\ downloads' = Append(downloads, t)
               \/ tasks' = s /\ UNCHANGED downloads
    BY <1>4 DEF Created
  <2>4. \A i \in Tasks : s[i].st \in Downloading => tasks[i].st \in Downloading
    BY <2>3 DEF Follows, Later
  <2>5. loader.at = "done" => loader.task \in Tasks
    BY <1>1
  <2>6. CASE tasks' = s /\ UNCHANGED downloads
    BY <1>2, <1>4, <2>4, <2>5, <2>6 DEF Answered, Claimed
  <2>7. CASE tasks' = new /\ downloads' = Append(downloads, t)
    <3>1. ToSet(downloads') = ToSet(downloads) \cup {t} /\ IsInjective(downloads')
      BY <1>0, <2>2, <2>7, AppendElements
    <3>2. Len(downloads') = Len(downloads) + 1
      BY <1>1, <2>7, AppendProperties
    <3>3. Len(downloads) < MaxActive
      <4> DEFINE open == {i \in Tasks : AllSynced[i].st \notin TaskEnded \cup {"free"}}
                 claimed == {i \in Tasks : Claimed(i)}
      <4>1. Cardinality(open \cup claimed) < MaxActive
        BY <1>4 DEF Create
      <4>2. ToSet(downloads) \subseteq claimed
        BY <1>1, SequenceElements DEF Claimed
      <4>3. open \cup claimed \in SUBSET Tasks /\ IsFiniteSet(Tasks)
        BY TaskNames
      <4>4. IsFiniteSet(open \cup claimed)
        BY <4>3, FS_Subset
      <4>5. ToSet(downloads) \in SUBSET (open \cup claimed)
        BY <4>2
      <4> HIDE DEF open, claimed
      <4>6. Cardinality(ToSet(downloads)) <= Cardinality(open \cup claimed)
            /\ Cardinality(open \cup claimed) \in Nat
        BY <4>4, <4>5, FS_Subset, FS_CardinalityType
      <4>7. Cardinality(ToSet(downloads)) = Len(downloads)
        BY <1>0, DistinctElements
      <4>8. QED
        BY <1>1, <1>2, <4>1, <4>6, <4>7
    <3>4. Len(downloads') <= MaxActive
      BY <1>1, <1>2, <3>2, <3>3
    <3>5. \A i \in Tasks : i # t => tasks'[i] = s[i]
      BY <2>3, <2>7
    <3>6. ASSUME NEW i \in Tasks, tasks'[i].st \in Downloading
          PROVE  i \in ToSet(downloads') \/ i = loader.task
      <4>1. CASE i = t
        BY <3>1, <4>1
      <4>2. CASE i # t
        <5>1. s[i].st \in Downloading
          BY <3>5, <3>6, <4>2
        <5>2. tasks[i].st \in Downloading
          BY <2>4, <5>1
        <5>3. i \in ToSet(downloads) \/ i = loader.task
          BY <1>9, <5>2
        <5>4. QED
          BY <3>1, <5>3
      <4>3. QED
        BY <4>1, <4>2
    <3>7. ASSUME loader.at = "done"
          PROVE  tasks'[loader.task].st \notin Downloading
      <4>1. loader.task \in Tasks /\ tasks[loader.task].st \notin Downloading
        BY <1>2, <2>5, <3>7
      <4>2. tasks'[loader.task] = s[loader.task]
        BY <2>2, <3>5, <4>1
      <4>3. QED
        BY <2>4, <4>1, <4>2
    <3>8. QED
      BY <1>4, <3>1, <3>4, <3>6, <3>7 DEF Answered, Claimed
  <2>8. QED
    BY <2>3, <2>6, <2>7
<1>5. CASE Loading
  <2>1. /\ loader.task \in Tasks /\ loader'.task = loader.task /\ UNCHANGED downloads
        /\ \A t \in Tasks : t # loader.task => tasks'[t] = tasks[t]
    BY <1>1, <1>5 DEF Loading, Records, taskVars
  <2>2. loader'.at = "done" => tasks'[loader.task].st \notin Downloading
    BY <1>5 DEF Loading, Stages, Downloading
  <2>3. QED
    BY <1>2, <2>1, <2>2 DEF Answered, Claimed
<1>6. CASE Handling
  <2>1. UNCHANGED <<tasks, downloads, loader>>
    BY <1>6, HandlingShape
  <2>2. QED
    BY <2>1 DEF Answered, Claimed
<1>7. CASE Restarted
  <2>1. downloads' = << >> /\ loader'.at = "idle" /\ \A t \in Tasks : tasks'[t].st \notin Downloading
    BY <1>7 DEF Restarted, NoLoad
  <2>2. Len(downloads') = 0 /\ IsInjective(downloads')
    BY <2>1 DEF IsInjective
  <2>3. QED
    BY <1>1, <2>1, <2>2 DEF Answered
<1>10. QED
  BY <1>3, <1>4, <1>5, <1>6, <1>7, Kinds

\* Through refusals, failed saves, failed removals and crashes no package and
\* no task is left in a state that only somebody who is gone could end; but a
\* package whose status was saved by an update() that raised has nobody, and
\* gets no operation, until the next start
\* (server.py:3663-3724, operations.py:142, store_tasks.py:108-131).
THEOREM NothingIsStranded == Spec => []NothingStranded
<1>1. Init => Owned /\ Inert /\ Answered
  <2> SUFFICES ASSUME Init PROVE Owned /\ Inert /\ Answered
    OBVIOUS
  <2>1. Owned /\ Inert
    BY TaskNames DEF Init, Owned, Inert, Waiting
  <2>2. \A t \in Tasks : tasks[t].st \notin Downloading
    BY DEF Init, NoTask, Downloading
  <2>3. Len(downloads) = 0 /\ IsInjective(downloads) /\ MaxActive \in Nat
    BY TaskNames DEF Init, IsInjective
  <2>4. loader.at = "idle"
    BY DEF Init, NoLoad
  <2>5. QED
    BY <2>1, <2>2, <2>3, <2>4 DEF Answered
<1>2. Shape /\ Owned /\ Inert /\ Answered /\ [Next]_vars => Owned' /\ Inert' /\ Answered'
  BY OwnedNext, InertNext, AnsweredNext
<1>3. Shape /\ Owned /\ Inert /\ Answered => NothingStranded
  <2> SUFFICES ASSUME Shape, Owned, Inert, Answered PROVE NothingStranded
    OBVIOUS
  <2>1. DOMAIN pending = 1 .. Len(pending)
    BY LenProperties DEF Shape, RegistryInv, Registry
  <2>2. ActiveUploadOwned
    BY <2>1 DEF Owned, Owes, Inert, Waiting, ActiveUploadOwned
  <2>3. QED
    BY <2>2 DEF Answered, DownloadOwned, NothingStranded
<1>4. Spec => []Shape
  BY ShapeInvariant
<1>5. QED
  BY <1>1, <1>2, <1>3, <1>4, PTL DEF Spec
-----------------------------------------------------------------------------
(* Nobody deletes the bytes that are being installed, if directories can   *)
(* be removed: then nothing is ever marked as an orphan, and a package goes *)
(* from the loader to the request that finalizes it, to the queue, to the  *)
(* worker, and never back.                                                 *)

Early == {"none", "receiving", "uploaded"}
Queued == {"install_queued", "gone"}

(* The loader's side of it: it has a package before anybody else sees it.  *)
Unseen(t) == tasks[t].st = "free" \/ taskFile[t].st = "free" \/ t \in ToSet(downloads)
LoaderOwns ==
    /\ loader.at \in {"begin", "resolve"} => upload[loader.task] = "none"
    /\ loader.at = "transfer" => upload[loader.task] = "receiving"
    /\ loader.at \in {"check", "preflight"} => upload[loader.task] \in {"uploaded", "gone"}
    /\ loader.at \in {"transfer", "check", "preflight", "validate"} => tasks[loader.task].up
LoaderKeeps ==
    /\ \A t \in Tasks : Unseen(t) => upload[t] = "none"
    /\ IsInjective(downloads) /\ loader.task \notin ToSet(downloads)
    /\ \A t \in Tasks : Claimed(t) => tasks[t].st # "free" /\ taskFile[t].st # "free"
    /\ LoaderOwns
    /\ \A t \in Tasks : /\ tasks[t].st = "awaiting" => tasks[t].up
                        /\ taskFile[t].st = "awaiting" => taskFile[t].up

(* The side of the request, the queue and the worker: one of them has it.  *)
Holds(u) == worker.job.up = u /\ worker.at \in {"taken", "call", "install", "mark"}
FlightPasses ==
    /\ flight.at = "verified" => upload[flight.up] \in Installable \cup {"gone"}
    /\ flight.at \in {"submit", "rollback", "drop"} => upload[flight.up] \in Queued
QueuePasses ==
    \A i \in 1 .. Len(pending) : pending[i].up # None =>
        /\ upload[pending[i].up] \in Queued
        /\ flight.up = pending[i].up => flight.at = "accepted"
        /\ ~Holds(pending[i].up)
        /\ \A k \in 1 .. Len(pending) : k # i => pending[k].up # pending[i].up
WorkerPasses ==
    worker.job.up # None =>
        /\ worker.at \in {"taken", "call"} => upload[worker.job.up] \in Queued
        /\ worker.at = "install" => upload[worker.job.up] = "installing"
        /\ worker.at = "mark" => upload[worker.job.up] \in Waiting \cup {"gone"}
        /\ worker.at = "clean" => upload[worker.job.up] \notin Early
        /\ Holds(worker.job.up) /\ flight.up = worker.job.up => flight.at = "accepted"
PassedOn == orphans = {} /\ FlightPasses /\ QueuePasses /\ WorkerPasses

Passing == Shape /\ LoaderKeeps /\ PassedOn /\ "remove" \notin Failures

\* Removal takes what rests, as nothing is marked and what waits for
\* confirmation has its package.
LEMMA RemovesWhatRests ==
    ASSUME Passing, Removes
    PROVE  /\ orphans' = {}
           /\ \A u \in Uploads : upload'[u] = upload[u] \/ (upload[u] \in Staged /\ upload'[u] = "gone")
<1>1. orphans = {} /\ Tasks = Uploads /\ "remove" \notin Failures
  BY TaskNames DEF Passing, PassedOn
<1>2. \A u \in Uploads : Removable(u) => upload[u] \in Staged
  BY <1>1 DEF Passing, LoaderKeeps, Removable
<1>3. QED
  BY <1>1, <1>2 DEF Removes

\* Those who have a package, and where.
LEMMA Holders ==
    ASSUME Shape
    PROVE  /\ None \notin Uploads /\ Tasks = Uploads
           /\ flight.at # "idle" => flight.up \in Uploads
           /\ flight.at = "idle" => flight.up = None
           /\ flight.at \in FlightPlaces /\ flight.up \in Uploads \cup {None}
           /\ \A i \in 1 .. Len(pending) : pending[i] \in Jobs /\ pending[i].up \in Uploads \cup {None}
           /\ Len(pending) \in Nat
           /\ worker.job.up \in Uploads \cup {None} /\ worker.at \in WorkerPlaces
           /\ worker.at = "idle" => worker.job.up = None
           /\ worker.at \in {"install", "mark", "clean"} => worker.job.up \in Uploads
           /\ loader.at # "idle" => loader.task \in Tasks
           /\ loader.at = "idle" => loader.task = None
<1>1. None \notin Uploads /\ Tasks = Uploads
  BY TaskNames, HistoryHoldsQueue
<1>2. /\ flight.at # "idle" => flight.up \in Uploads
      /\ flight.at = "idle" => flight.up = None
      /\ flight.at \in FlightPlaces /\ flight.up \in Uploads \cup {None}
  BY DEF Shape, RegistryInv, FlightShape, NoFlight
<1>3. pending \in Seq(Jobs)
  BY DEF Shape, RegistryInv, Registry
<1>4. \A i \in 1 .. Len(pending) : pending[i] \in Jobs
  BY <1>3, ElementOfSeq
<1>5. \A i \in 1 .. Len(pending) : pending[i].up \in Uploads \cup {None}
  BY <1>4 DEF Jobs
<1>6. Len(pending) \in Nat
  BY <1>3, LenProperties
<1>7. WorkerShape
  BY DEF Shape, RegistryInv, Registry
<1>8. worker.job.up \in Uploads \cup {None} /\ worker.at \in WorkerPlaces
  BY <1>7 DEF WorkerShape, Jobs, NoJob
<1>9. /\ worker.at = "idle" => worker.job.up = None
      /\ worker.at \in {"install", "mark", "clean"} => worker.job.up \in Uploads
  BY <1>7, <1>8 DEF WorkerShape, NoJob
<1>10. /\ loader.at # "idle" => loader.task \in Tasks
       /\ loader.at = "idle" => loader.task = None
  BY DEF Shape, TaskShape
<1>11. QED
  BY <1>1, <1>2, <1>4, <1>5, <1>6, <1>8, <1>9, <1>10

\* What a step of the request or of the worker does to its package.
LEMMA HandlingMoves ==
    ASSUME Passing, Handling
    PROVE  /\ orphans' = {}
           /\ \E u \in Uploads :
                 /\ upload[u] \notin Early
                 /\ upload[u] = "gone" => upload'[u] = "gone"
                 /\ \A v \in Uploads : v # u => upload'[v] = upload[v]
<1>1. /\ Shape /\ TaskShape /\ upload \in [Uploads -> UploadStates] /\ orphans = {}
      /\ "remove" \notin Failures /\ FlightPasses /\ WorkerPasses
  BY DEF Passing, Shape, TaskShape, PassedOn
<1>2. Queued \cap Early = {} /\ Installable \cap Early = {} /\ "gone" \notin Early
      /\ Waiting \cap Early = {}
  BY DEF Queued, Early, Installable, Waiting
<1>3. ASSUME NEW u \in Uploads, NEW s, UploadSet(u, s) \/ UploadKept(u)
      PROVE  /\ upload[u] = "gone" => upload'[u] = "gone"
             /\ \A v \in Uploads : v # u => upload'[v] = upload[v]
  BY <1>1, <1>3 DEF UploadSet, UploadKept, Present
<1>4. ASSUME NEW u \in Uploads, RemoveOrMark(u)
      PROVE  /\ upload'[u] = "gone" /\ orphans' = {}
             /\ \A v \in Uploads : v # u => upload'[v] = upload[v]
  <2>1. /\ \A v \in Uploads : v # u => upload'[v] = upload[v]
        /\ "remove" \notin Failures => upload'[u] = "gone" /\ orphans' \subseteq orphans
    BY <1>1, <1>4, RemovesOrMarks
  <2>2. QED
    BY <1>1, <2>1
<1>5. CASE QueueUpload \/ Rollback \/ DropUpload
  <2>1. flight.at \in {"verified", "rollback", "drop"}
    BY <1>5 DEF QueueUpload, Rollback, DropUpload
  <2>2. PICK u \in Uploads : u = flight.up
    BY <1>1, <2>1, Holders
  <2>3. upload[u] \notin Early
    BY <1>1, <1>2, <2>1, <2>2 DEF FlightPasses
  <2>4. \/ (\E s : UploadSet(u, s) \/ UploadKept(u)) /\ UNCHANGED orphans
        \/ RemoveOrMark(u)
    BY <1>1, <1>5, <2>2 DEF QueueUpload, Rollback, DropUpload, UploadRaises
  <2>5. QED
    BY <1>1, <1>3, <1>4, <2>3, <2>4
<1>6. CASE BeginInstall \/ MarkUpload \/ CleanUpload
  <2>1. worker.at \in {"call", "mark", "clean"} /\ worker.job.up # None
    <3>1. WorkerShape
      BY <1>1 DEF Shape, RegistryInv, Registry
    <3>2. QED
      BY <1>6, <3>1 DEF BeginInstall, MarkUpload, CleanUpload, CallGoes, CallEnds, WorkerShape
  <2>2. PICK u \in Uploads : u = worker.job.up
    BY <1>1, <2>1, Holders
  <2>3. upload[u] \notin Early
    BY <1>1, <1>2, <2>1, <2>2 DEF WorkerPasses
  <2>4. \/ (\E s : UploadSet(u, s) \/ UploadKept(u)) /\ UNCHANGED orphans
        \/ RemoveOrMark(u)
    BY <1>6, <2>2 DEF BeginInstall, MarkUpload, CleanUpload, UploadRaises
  <2>5. QED
    BY <1>1, <1>3, <1>4, <2>3, <2>4
<1>7. QED
  BY <1>5, <1>6 DEF Handling

\* Nobody takes a package from the loader, and the loader begins with none.
LEMMA LoaderKeepsNext ==
    ASSUME Passing, [Next]_vars
    PROVE  LoaderKeeps'
<1>1. /\ Shape /\ Tasks = Uploads /\ None \notin Tasks
      /\ loader.at # "idle" => loader.task \in Tasks
      /\ loader.at = "idle" => loader.task = None
      /\ downloads \in Seq(Tasks) /\ IsInjective(downloads)
      /\ tasks \in [Tasks -> TaskRecord] /\ taskFile \in [Tasks -> TaskRecord]
      /\ loader \in [task : Tasks \cup {None}, at : LoaderPlaces]
  BY Holders DEF Passing, Shape, TaskShape, LoaderKeeps
<1>2. /\ \A t \in Tasks : Unseen(t) => upload[t] = "none"
      /\ loader.task \notin ToSet(downloads)
      /\ \A t \in Tasks : Claimed(t) => tasks[t].st # "free" /\ taskFile[t].st # "free"
      /\ LoaderOwns
      /\ \A t \in Tasks : /\ tasks[t].st = "awaiting" => tasks[t].up
                          /\ taskFile[t].st = "awaiting" => taskFile[t].up
  BY DEF Passing, LoaderKeeps
<1> DEFINE Calm == \A u \in Uploads : /\ upload[u] = "none" => upload'[u] = "none"
                                      /\ upload[u] = "receiving" => upload'[u] = "receiving"
                                      /\ upload[u] \in {"uploaded", "gone"} => upload'[u] \in {"uploaded", "gone"}
<1>3. Removes => Calm
  BY RemovesWhatRests DEF Staged
<1>4. CASE Quiet
  <2>1. /\ Follows(tasks, tasks') /\ (taskFile' = taskFile \/ taskFile' = tasks')
        /\ Calm /\ Turns
    BY <1>3, <1>4 DEF Quiet, Followed
  <2> HIDE DEF Calm
  <2>2. /\ \A t \in Tasks : /\ tasks'[t].st = "free" => tasks[t].st = "free"
                            /\ taskFile'[t].st = "free" => tasks[t].st = "free" \/ taskFile[t].st = "free"
                            /\ tasks'[t].up = tasks[t].up
                            /\ tasks'[t].st = "awaiting" => tasks[t].st = "awaiting"
    BY <2>1 DEF Follows, Later
  <2>3. /\ \A t \in Tasks : /\ tasks'[t].st = "awaiting" => tasks'[t].up
                            /\ taskFile'[t].st = "awaiting" => taskFile'[t].up
    BY <1>2, <2>1, <2>2
  <2>4. /\ IsInjective(downloads') /\ loader'.task \notin ToSet(downloads')
        /\ ToSet(downloads') \subseteq ToSet(downloads)
        /\ \A t \in Tasks : t = loader'.task => Claimed(t)
        /\ \/ loader' = loader
           \/ loader'.at = "begin" /\ loader'.task \in ToSet(downloads) \cap Tasks
           \/ loader'.at \in {"done", "idle"}
    <3>1. CASE UNCHANGED <<downloads, loader>>
      BY <1>1, <1>2, <3>1 DEF Claimed
    <3>2. CASE /\ loader.at = "idle" /\ downloads # << >>
               /\ loader' = [task |-> Head(downloads), at |-> "begin"] /\ downloads' = Tail(downloads)
      <4>1. downloads \in Seq(Tasks) /\ downloads # << >> /\ IsInjective(downloads)
        BY <1>1, <3>2
      <4>2. /\ ToSet(downloads) = {Head(downloads)} \cup ToSet(Tail(downloads))
            /\ IsInjective(Tail(downloads)) /\ Head(downloads) \notin ToSet(Tail(downloads))
            /\ Head(downloads) \in Tasks
        BY <4>1, TakeElements
      <4>3. loader'.task = Head(downloads) /\ loader'.at = "begin"
        BY <3>2
      <4>4. QED
        BY <3>2, <4>2, <4>3 DEF Claimed
    <3>3. CASE loader.at = "error" /\ loader' = [loader EXCEPT !.at = "done"] /\ UNCHANGED downloads
      <4>1. loader'.at = "done" /\ loader'.task = loader.task
        BY <1>1, <3>3
      <4>2. QED
        BY <1>1, <1>2, <3>3, <4>1 DEF Claimed
    <3>4. CASE loader.at = "done" /\ loader' = NoLoad /\ UNCHANGED downloads
      <4>1. loader'.at = "idle" /\ loader'.task = None
        BY <3>4 DEF NoLoad
      <4>2. None \notin ToSet(downloads)
        BY <1>1, SequenceElements
      <4>3. QED
        BY <1>1, <1>2, <3>4, <4>1, <4>2
    <3>5. QED
      BY <2>1, <3>1, <3>2, <3>3, <3>4 DEF Turns
  <2>5. ASSUME NEW t \in Tasks
        PROVE  /\ Unseen(t)' => upload'[t] = "none"
               /\ Claimed(t)' => tasks'[t].st # "free" /\ taskFile'[t].st # "free"
    <3>1. Unseen(t)' => Unseen(t)
      BY <2>2, <2>4 DEF Unseen
    <3>2. Claimed(t)' => Claimed(t)
      BY <2>4 DEF Claimed
    <3>3. upload[t] = "none" => upload'[t] = "none"
      BY <1>1, <2>1 DEF Calm
    <3>4. QED
      BY <1>2, <2>2, <3>1, <3>2, <3>3
  <2>6. LoaderOwns'
    <3>1. CASE loader' = loader
      BY <1>1, <1>2, <2>1, <2>2, <3>1 DEF LoaderOwns, Calm
    <3>2. CASE loader'.at = "begin" /\ loader'.task \in ToSet(downloads) \cap Tasks
      <4>1. upload[loader'.task] = "none"
        BY <1>2, <3>2 DEF Unseen
      <4>2. upload'[loader'.task] = "none"
        BY <1>1, <2>1, <3>2, <4>1 DEF Calm
      <4>3. QED
        BY <3>2, <4>2 DEF LoaderOwns
    <3>3. CASE loader'.at \in {"done", "idle"}
      BY <3>3 DEF LoaderOwns
    <3>4. QED
      BY <2>4, <3>1, <3>2, <3>3
  <2>7. QED
    BY <2>3, <2>4, <2>5, <2>6 DEF LoaderKeeps
<1>5. ASSUME NEW t \in Tasks, Create(t), Created(t), Removes, UNCHANGED <<loader, signalled>>
      PROVE  LoaderKeeps'
  <2>1. ~Claimed(t) /\ tasks[t].st = "free"
    BY <1>5 DEF Create
  <2>2. t \notin ToSet(downloads) /\ t # loader.task /\ upload[t] = "none"
    BY <1>2, <2>1 DEF Claimed, Unseen
  <2>3. PICK s, new \in [Tasks -> TaskRecord] :
            /\ Follows(tasks, s)
            /\ \A i \in Tasks : i # t => new[i] = s[i]
            /\ new[t].st = "queued" /\ new[t].up = s[t].up
            /\ \/ tasks' = new /\ taskFile' = new /\ downloads' = Append(downloads, t)
               \/ tasks' = s /\ taskFile' \in {taskFile, new} /\ UNCHANGED downloads
    BY <1>5 DEF Created
  <2>4. \A i \in Tasks : /\ s[i].st = "free" => tasks[i].st = "free"
                         /\ s[i].up = tasks[i].up
                         /\ s[i].st = "awaiting" => tasks[i].st = "awaiting"
    <3>1. Follows(tasks, s)
      BY <2>3
    <3>2. QED
      BY <3>1 DEF Follows, Later
  <2>5. Calm
    BY <1>3, <1>5
  <2> HIDE DEF Calm
  <2>6. ASSUME NEW i \in Tasks
        PROVE  /\ i # t => /\ tasks'[i] = s[i]
                           /\ taskFile'[i] \in {s[i], taskFile[i]}
               /\ tasks'[i].st = "awaiting" => tasks'[i].up
               /\ taskFile'[i].st = "awaiting" => taskFile'[i].up
    BY <1>2, <2>3, <2>4
  <2>7. /\ IsInjective(downloads') /\ loader.task \notin ToSet(downloads')
        /\ \A i \in Tasks : i # t /\ i \in ToSet(downloads') => i \in ToSet(downloads)
        /\ t \in ToSet(downloads') => tasks' = new /\ taskFile' = new
    <3>1. CASE downloads' = Append(downloads, t) /\ tasks' = new /\ taskFile' = new
      <4>1. downloads \in Seq(Tasks) /\ IsInjective(downloads)
        BY <1>1
      <4>2. ToSet(Append(downloads, t)) = ToSet(downloads) \cup {t} /\ IsInjective(Append(downloads, t))
        BY <2>2, <4>1, AppendElements
      <4>3. QED
        BY <1>2, <2>2, <3>1, <4>2
    <3>2. CASE UNCHANGED downloads
      BY <1>1, <1>2, <2>2, <3>2
    <3>3. QED
      BY <2>3, <3>1, <3>2
  <2>8. ASSUME NEW i \in Tasks
        PROVE  /\ Unseen(i)' => upload'[i] = "none"
               /\ Claimed(i)' => tasks'[i].st # "free" /\ taskFile'[i].st # "free"
    <3>1. upload[i] = "none" => upload'[i] = "none"
      BY <1>1, <2>5 DEF Calm
    <3>2. CASE i = t
      <4>1. Claimed(i)' => tasks' = new /\ taskFile' = new
        BY <1>5, <2>2, <2>7, <3>2 DEF Claimed
      <4>2. QED
        BY <2>2, <2>3, <3>1, <3>2, <4>1
    <3>3. CASE i # t
      <4>1. Unseen(i)' => Unseen(i)
        BY <2>4, <2>6, <2>7, <3>3 DEF Unseen
      <4>2. Claimed(i)' => Claimed(i)
        BY <1>5, <2>7, <3>3 DEF Claimed
      <4>3. QED
        BY <1>2, <2>4, <2>6, <3>1, <3>3, <4>1, <4>2
    <3>4. QED
      BY <3>2, <3>3
  <2>9. LoaderOwns'
    <3>1. loader.at # "idle" => tasks'[loader.task].up = tasks[loader.task].up
      BY <1>1, <2>2, <2>4, <2>6
    <3>2. QED
      BY <1>1, <1>2, <1>5, <2>5, <3>1 DEF LoaderOwns, Calm
  <2>10. QED
    BY <1>5, <2>6, <2>7, <2>8, <2>9 DEF LoaderKeeps
<1>6. CASE Loading
  <2>1. /\ loader.task \in Tasks /\ loader'.task = loader.task /\ UNCHANGED downloads
        /\ \A t \in Tasks : t # loader.task => upload'[t] = upload[t]
        /\ Stages(upload[loader.task], upload'[loader.task])
    BY <1>1, <1>6 DEF Loading
  <2>2. PICK t \in Tasks : t = loader.task
    BY <2>1
  <2>3. Claimed(t) /\ tasks[t].st # "free" /\ taskFile[t].st # "free" /\ t \notin ToSet(downloads)
    BY <1>2, <2>2 DEF Claimed
  <2>4. /\ \A i \in Tasks : i # t => tasks'[i] = tasks[i]
        /\ taskFile' \in {taskFile, tasks'}
        /\ tasks'[t].st # "free"
        /\ tasks[t].up => tasks'[t].up
        /\ tasks'[t].st = "awaiting" => tasks'[t].up
    <3>1. CASE UNCHANGED taskVars
      BY <1>1, <1>2, <2>3, <3>1 DEF taskVars
    <3>2. CASE ~ UNCHANGED taskVars
      <4>1. PICK r \in TaskRecord :
              /\ tasks' = [tasks EXCEPT ![t] = r] /\ taskFile' \in {taskFile, tasks'}
              /\ r.st = "free" => tasks[t].st = "free"
              /\ r.st = "awaiting" => tasks[t].st = "awaiting" \/ loader.at = "validate"
              /\ tasks[t].up => r.up
        BY <1>6, <2>2, <3>2 DEF Loading, Records
      <4>2. tasks'[t] = r /\ \A i \in Tasks : i # t => tasks'[i] = tasks[i]
        BY <1>1, <4>1
      <4>3. loader.at = "validate" => tasks[t].up
        BY <1>2, <2>2 DEF LoaderOwns
      <4>4. QED
        BY <1>2, <2>3, <4>1, <4>2, <4>3
    <3>3. QED
      BY <3>1, <3>2
  <2>5. \A i \in Tasks : /\ tasks'[i].st = "awaiting" => tasks'[i].up
                         /\ taskFile'[i].st = "awaiting" => taskFile'[i].up
    BY <1>2, <2>4
  <2>6. ASSUME NEW i \in Tasks
        PROVE  /\ Unseen(i)' => upload'[i] = "none"
               /\ Claimed(i)' => tasks'[i].st # "free" /\ taskFile'[i].st # "free"
    <3>1. CASE i = t
      BY <2>1, <2>3, <2>4, <3>1 DEF Unseen
    <3>2. CASE i # t
      <4>1. (Unseen(i)' => Unseen(i)) /\ (Claimed(i)' => Claimed(i))
        BY <2>1, <2>2, <2>4, <3>2 DEF Unseen, Claimed
      <4>2. upload'[i] = upload[i]
        BY <2>1, <2>2, <3>2
      <4>3. QED
        BY <1>2, <2>4, <3>2, <4>1, <4>2
    <3>3. QED
      BY <3>1, <3>2
  <2>7. LoaderOwns'
    BY <1>2, <2>1, <2>2, <2>4 DEF LoaderOwns, Stages
  <2>8. QED
    BY <1>1, <1>2, <2>1, <2>5, <2>6, <2>7 DEF LoaderKeeps
<1>7. CASE Handling
  <2>1. UNCHANGED <<tasks, taskFile, downloads, loader>>
    BY <1>1, <1>7, HandlingShape
  <2>2. PICK u \in Uploads :
            /\ upload[u] \notin Early
            /\ upload[u] = "gone" => upload'[u] = "gone"
            /\ \A v \in Uploads : v # u => upload'[v] = upload[v]
    BY <1>7, HandlingMoves
  <2>3. Calm
    BY <2>2 DEF Early
  <2> HIDE DEF Calm
  <2>4. \A t \in Tasks : Unseen(t)' => upload'[t] = "none"
    BY <1>1, <1>2, <2>1, <2>3 DEF Unseen, Calm
  <2>5. LoaderOwns'
    BY <1>1, <1>2, <2>1, <2>3 DEF LoaderOwns, Calm
  <2>6. QED
    BY <1>1, <1>2, <2>1, <2>4, <2>5 DEF LoaderKeeps, Claimed
<1>8. CASE Restarted
  <2>1. /\ Follows(taskFile, tasks') /\ taskFile' = tasks'
        /\ \A u \in Uploads : upload[u] = "none" => upload'[u] = "none"
        /\ downloads' = << >> /\ loader'.at = "idle" /\ loader'.task = None
    BY <1>8 DEF Restarted, NoLoad
  <2>2. IsInjective(downloads') /\ ToSet(downloads') = {}
    BY <2>1 DEF IsInjective, ToSet
  <2>3. \A t \in Tasks : Unseen(t)' => upload'[t] = "none"
    BY <1>1, <1>2, <2>1, <2>2 DEF Unseen, Follows, Later
  <2>4. \A t \in Tasks : ~Claimed(t)'
    BY <1>1, <2>1, <2>2 DEF Claimed
  <2>5. \A t \in Tasks : /\ tasks'[t].st = "awaiting" => tasks'[t].up
                         /\ taskFile'[t].st = "awaiting" => taskFile'[t].up
    BY <1>2, <2>1 DEF Follows, Later
  <2>6. LoaderOwns'
    BY <2>1 DEF LoaderOwns
  <2>7. QED
    BY <2>1, <2>2, <2>3, <2>4, <2>5, <2>6 DEF LoaderKeeps
<1>9. QED
  BY <1>1, <1>4, <1>5, <1>6, <1>7, <1>8, Kinds
(* A package that rests, waits or runs stays what its holder knows of it.   *)
Carries ==
    /\ orphans' = {}
    /\ \A u \in Uploads :
          /\ upload[u] \in Installable \cup {"gone"} => upload'[u] \in Installable \cup {"gone"}
          /\ upload[u] \in Queued => upload'[u] \in Queued
          /\ upload[u] = "installing" => upload'[u] = "installing"
          /\ upload[u] \in Waiting \cup {"gone"} => upload'[u] \in Waiting \cup {"gone"}
          /\ upload[u] \notin Early => upload'[u] \notin Early

\* A package goes from the request to the queue with the submission only.
LEMMA AcceptHandsOn ==
    ASSUME Passing, Carries, NEW a \in Apps, NEW v \in Uploads \cup {None}, Accept(a, v),
           flight'.up = flight.up,
           \/ v = None /\ flight' = flight
           \/ v = flight.up /\ flight.at = "submit" /\ flight'.at = "accepted"
    PROVE  PassedOn'
<1>1. /\ Shape /\ Registry /\ None \notin Uploads /\ Len(pending) \in Nat
      /\ \A i \in 1 .. Len(pending) : pending[i].up \in Uploads \cup {None}
      /\ flight.at # "idle" => flight.up \in Uploads
      /\ worker.job.up \in Uploads \cup {None}
  BY Holders DEF Passing, Shape, RegistryInv
<1>2. FlightPasses /\ QueuePasses /\ WorkerPasses
  BY DEF Passing, PassedOn
<1>3. /\ Len(pending') = Len(pending) + 1
      /\ \A i \in 1 .. Len(pending) : pending'[i] = pending[i]
      /\ pending'[Len(pending) + 1].up = v
      /\ UNCHANGED worker
  <2>1. /\ Len(pending') = Len(pending) + 1
        /\ \A i \in 1 .. Len(pending) : pending'[i] = pending[i]
        /\ pending'[Len(pending) + 1] = [id |-> FreshId, app |-> a, up |-> v]
        /\ UNCHANGED worker
    BY <1>1, AcceptQueues
  <2>2. QED
    BY <2>1
<1>4. v # None => flight.at = "submit" /\ v = flight.up /\ flight'.at = "accepted"
  OBVIOUS
<1>5. FlightPasses'
  BY <1>1, <1>2 DEF FlightPasses, Carries
<1>6. WorkerPasses'
  BY <1>1, <1>2, <1>3 DEF WorkerPasses, Holds, Carries
<1>7. ASSUME v # None
      PROVE  /\ upload'[v] \in Queued /\ ~Holds(v)'
             /\ \A i \in 1 .. Len(pending) : pending[i].up # v
  <2>1. upload'[v] \in Queued
    BY <1>1, <1>2, <1>4, <1>7 DEF FlightPasses, Carries
  <2>2. ~Holds(v)'
    BY <1>2, <1>3, <1>4, <1>7 DEF WorkerPasses, Holds
  <2>3. \A i \in 1 .. Len(pending) : pending[i].up # v
    BY <1>2, <1>4, <1>7 DEF QueuePasses
  <2>4. QED
    BY <2>1, <2>2, <2>3
<1> DEFINE Holding(u) == worker'.job.up = u /\ worker'.at \in {"taken", "call", "install", "mark"}
<1>8. ASSUME NEW i \in 1 .. Len(pending'), pending'[i].up # None
      PROVE  /\ upload'[pending'[i].up] \in Queued
             /\ flight'.up = pending'[i].up => flight'.at = "accepted"
             /\ ~Holding(pending'[i].up)
             /\ \A k \in 1 .. Len(pending') : k # i => pending'[k].up # pending'[i].up
  <2>1. CASE i = Len(pending) + 1
    <3>1. pending'[i].up = v /\ v # None
      BY <1>3, <1>8, <2>1
    <3>2. \A k \in 1 .. Len(pending') : k # i => k \in 1 .. Len(pending)
      BY <1>1, <1>3, <2>1
    <3>3. upload'[pending'[i].up] \in Queued /\ flight'.at = "accepted"
      BY <1>4, <1>7, <3>1
    <3>4. ~Holding(pending'[i].up)
      BY <1>7, <3>1 DEF Holds
    <3>5. \A k \in 1 .. Len(pending') : k # i => pending'[k].up # pending'[i].up
      BY <1>3, <1>7, <3>1, <3>2
    <3>6. QED
      BY <3>3, <3>4, <3>5
  <2>2. CASE i # Len(pending) + 1
    <3>1. i \in 1 .. Len(pending) /\ pending'[i] = pending[i]
      BY <1>1, <1>3, <2>2
    <3>2. PICK u \in Uploads : u = pending[i].up
      BY <1>1, <1>8, <3>1
    <3>3. /\ upload[u] \in Queued /\ (flight.up = u => flight.at = "accepted") /\ ~Holds(u)
          /\ \A k \in 1 .. Len(pending) : k # i => pending[k].up # u
      BY <1>1, <1>2, <3>1, <3>2 DEF QueuePasses
    <3>4. upload'[u] \in Queued /\ (flight'.up = u => flight'.at = "accepted") /\ ~Holds(u)'
      BY <1>3, <3>3 DEF Carries, Holds
    <3>5. \A k \in 1 .. Len(pending') : k # i => pending'[k].up # u
      <4>1. ASSUME NEW k \in 1 .. Len(pending'), k # i
            PROVE  pending'[k].up # u
        <5>1. CASE k \in 1 .. Len(pending)
          BY <1>3, <3>3, <4>1, <5>1
        <5>2. CASE k = Len(pending) + 1
          <6>1. v # None => v # u
            BY <1>7, <3>1, <3>2
          <6>2. QED
            BY <1>1, <1>3, <5>2, <6>1
        <5>3. QED
          BY <1>1, <1>3, <5>1, <5>2
      <4>2. QED
        BY <4>1
    <3>6. QED
      BY <3>1, <3>2, <3>4, <3>5 DEF Holds
  <2>3. QED
    BY <2>1, <2>2
<1>9. QueuePasses'
  BY <1>8 DEF QueuePasses, Holds
<1>10. QED
  BY <1>5, <1>6, <1>9 DEF PassedOn, Carries
\* Nothing is handed on, and what everybody knows of the packages stays true.
LEMMA NobodyHandsOn ==
    ASSUME Passing, Carries, UNCHANGED <<pending, worker, flight>>
    PROVE  PassedOn'
<1>1. /\ Shape /\ None \notin Uploads
      /\ \A i \in 1 .. Len(pending) : pending[i].up \in Uploads \cup {None}
      /\ flight.at # "idle" => flight.up \in Uploads
      /\ worker.job.up \in Uploads \cup {None}
  BY Holders DEF Passing
<1>2. FlightPasses /\ QueuePasses /\ WorkerPasses
  BY DEF Passing, PassedOn
<1>3. FlightPasses'
  BY <1>1, <1>2 DEF FlightPasses, Carries
<1>4. WorkerPasses'
  BY <1>1, <1>2 DEF WorkerPasses, Holds, Carries
<1>5. QueuePasses'
  BY <1>1, <1>2 DEF QueuePasses, Holds, Carries
<1>6. QED
  BY <1>3, <1>4, <1>5 DEF PassedOn, Carries

\* A request takes a package that can be installed: nobody else has that.
LEMMA FlightHandsOn ==
    ASSUME Passing, Carries, UNCHANGED <<pending, worker>>,
           \/ flight' = NoFlight
           \/ /\ flight.at = "idle" /\ flight'.at = "verified"
              /\ flight'.up \in Uploads /\ upload[flight'.up] \in Installable
           \/ /\ flight.at = "submit" /\ flight'.at \in {"rollback", "drop"}
              /\ flight'.up = flight.up
    PROVE  PassedOn'
<1>1. /\ Shape /\ None \notin Uploads
      /\ \A i \in 1 .. Len(pending) : pending[i].up \in Uploads \cup {None}
      /\ flight.at # "idle" => flight.up \in Uploads
      /\ worker.job.up \in Uploads \cup {None}
  BY Holders DEF Passing
<1>2. FlightPasses /\ QueuePasses /\ WorkerPasses
  BY DEF Passing, PassedOn
<1>3. FlightPasses'
  BY <1>1, <1>2 DEF FlightPasses, Carries, NoFlight
<1>4. ASSUME NEW u \in Uploads, flight'.up = u
      PROVE  \/ flight.up = u /\ flight.at # "accepted"
             \/ upload[u] \in Installable
  BY <1>1, <1>4 DEF NoFlight
<1>5. ASSUME NEW i \in 1 .. Len(pending), pending[i].up # None
      PROVE  /\ upload'[pending[i].up] \in Queued
             /\ flight'.up # pending[i].up
             /\ ~Holds(pending[i].up)
             /\ \A k \in 1 .. Len(pending) : k # i => pending[k].up # pending[i].up
  <2>1. PICK u \in Uploads : u = pending[i].up
    BY <1>1, <1>5
  <2>2. /\ upload[u] \in Queued /\ (flight.up = u => flight.at = "accepted") /\ ~Holds(u)
        /\ \A k \in 1 .. Len(pending) : k # i => pending[k].up # u
    BY <1>2, <1>5, <2>1 DEF QueuePasses
  <2>3. upload[u] \notin Installable
    BY <2>2 DEF Queued, Installable
  <2>4. flight'.up # u
    BY <1>4, <2>2, <2>3
  <2>5. upload'[u] \in Queued
    BY <2>2 DEF Carries
  <2>6. QED
    BY <2>1, <2>2, <2>4, <2>5
<1>6. QueuePasses'
  BY <1>5 DEF QueuePasses, Holds
<1>7. ASSUME worker.job.up # None, Holds(worker.job.up)
      PROVE  flight'.up # worker.job.up
  <2>1. PICK u \in Uploads : u = worker.job.up
    BY <1>1, <1>7
  <2>2. upload[u] \in Queued \cup Waiting \cup {"installing", "gone"}
        /\ (flight.up = u => flight.at = "accepted")
    BY <1>2, <1>7, <2>1 DEF WorkerPasses, Holds
  <2>3. upload[u] \notin Installable
    BY <2>2 DEF Queued, Installable, Waiting
  <2>4. QED
    BY <1>4, <2>1, <2>2, <2>3
<1>8. WorkerPasses'
  <2>1. ASSUME worker.job.up # None
        PROVE  /\ worker.at \in {"taken", "call"} => upload'[worker.job.up] \in Queued
               /\ worker.at = "install" => upload'[worker.job.up] = "installing"
               /\ worker.at = "mark" => upload'[worker.job.up] \in Waiting \cup {"gone"}
               /\ worker.at = "clean" => upload'[worker.job.up] \notin Early
    BY <1>1, <1>2, <2>1 DEF WorkerPasses, Carries
  <2>2. QED
    BY <1>7, <2>1 DEF WorkerPasses, Holds
<1>9. QED
  BY <1>3, <1>6, <1>8 DEF PassedOn, Carries

\* The worker takes the first package of the queue: the others are not its.
LEMMA TakeHandsOn ==
    ASSUME Passing, Carries, Take, UNCHANGED flight
    PROVE  PassedOn'
<1>1. /\ Shape /\ None \notin Uploads /\ pending \in Seq(Jobs) /\ Len(pending) \in Nat
      /\ \A i \in 1 .. Len(pending) : pending[i].up \in Uploads \cup {None}
      /\ flight.at # "idle" => flight.up \in Uploads
  BY Holders DEF Passing, Shape, RegistryInv, Registry
<1>2. FlightPasses /\ QueuePasses
  BY DEF Passing, PassedOn
<1>3. /\ pending # << >> /\ worker'.job = Head(pending) /\ worker'.at = "taken"
      /\ pending' = Tail(pending)
  BY DEF Take
<1>4. /\ Head(pending) = pending[1] /\ Len(pending') = Len(pending) - 1 /\ 1 \in 1 .. Len(pending)
      /\ \A i \in 1 .. Len(pending') : pending'[i] = pending[i + 1]
    <2>1. /\ Head(pending) = pending[1] /\ Len(Tail(pending)) = Len(pending) - 1
          /\ \A i \in 1 .. Len(Tail(pending)) : Tail(pending)[i] = pending[i + 1]
      BY <1>1, <1>3, HeadTailProperties
    <2>2. Len(pending) # 0
      BY <1>1, <1>3, EmptySeq
    <2>3. QED
      BY <1>1, <1>3, <2>1, <2>2
<1>5. FlightPasses'
  BY <1>1, <1>2 DEF FlightPasses, Carries
<1>6. ASSUME NEW i \in 1 .. Len(pending'), pending'[i].up # None
      PROVE  /\ upload'[pending'[i].up] \in Queued
             /\ flight'.up = pending'[i].up => flight'.at = "accepted"
             /\ worker'.job.up # pending'[i].up
             /\ \A k \in 1 .. Len(pending') : k # i => pending'[k].up # pending'[i].up
  <2>1. i + 1 \in 1 .. Len(pending) /\ pending'[i] = pending[i + 1] /\ i + 1 # 1
    BY <1>1, <1>4
  <2>2. PICK u \in Uploads : u = pending[i + 1].up
    BY <1>1, <1>6, <2>1
  <2>3. /\ upload[u] \in Queued /\ (flight.up = u => flight.at = "accepted")
        /\ \A k \in 1 .. Len(pending) : k # i + 1 => pending[k].up # u
    BY <1>1, <1>2, <2>1, <2>2 DEF QueuePasses
  <2>4. upload'[u] \in Queued
    BY <2>3 DEF Carries
  <2>5. worker'.job.up # u
    BY <1>3, <1>4, <2>1, <2>3
  <2>6. \A k \in 1 .. Len(pending') : k # i => pending'[k].up # u
    <3>1. \A k \in 1 .. Len(pending') : k # i => k + 1 \in 1 .. Len(pending) /\ k + 1 # i + 1
      BY <1>1, <1>4
    <3>2. QED
      BY <1>4, <2>3, <3>1
  <2>7. QED
    BY <2>1, <2>2, <2>3, <2>4, <2>5, <2>6
<1>7. QueuePasses'
  BY <1>6 DEF QueuePasses, Holds
<1>8. WorkerPasses'
  <2>1. ASSUME worker'.job.up # None
        PROVE  upload'[worker'.job.up] \in Queued
               /\ (flight'.up = worker'.job.up => flight'.at = "accepted")
    <3>1. PICK u \in Uploads : u = pending[1].up
      BY <1>1, <1>3, <1>4, <2>1
    <3>2. upload[u] \in Queued /\ (flight.up = u => flight.at = "accepted")
      BY <1>1, <1>2, <1>4, <3>1 DEF QueuePasses
    <3>3. QED
      BY <1>3, <1>4, <3>1, <3>2 DEF Carries
  <2>2. QED
    BY <1>3, <2>1 DEF WorkerPasses
<1>9. QED
  BY <1>5, <1>7, <1>8 DEF PassedOn, Carries
\* The worker goes on with its package, or lets go of it.
LEMMA WorkerHandsOn ==
    ASSUME Passing, Carries, UNCHANGED <<pending, flight>>,
           \/ worker'.job.up = None
           \/ /\ worker'.job = worker.job
              /\ \/ worker.at = "taken" /\ worker'.at = "call"
                 \/ worker.at = "install" /\ worker'.at = "mark"
    PROVE  PassedOn'
<1>1. /\ Shape /\ None \notin Uploads
      /\ \A i \in 1 .. Len(pending) : pending[i].up \in Uploads \cup {None}
      /\ flight.at # "idle" => flight.up \in Uploads
      /\ worker.job.up \in Uploads \cup {None}
  BY Holders DEF Passing
<1>2. FlightPasses /\ QueuePasses /\ WorkerPasses
  BY DEF Passing, PassedOn
<1>3. FlightPasses'
  BY <1>1, <1>2 DEF FlightPasses, Carries
<1>4. QueuePasses'
  BY <1>1, <1>2 DEF QueuePasses, Holds, Carries
<1>5. WorkerPasses'
  <2>1. CASE worker'.job.up = None
    BY <2>1 DEF WorkerPasses
  <2>2. CASE worker'.job = worker.job /\ worker.at = "taken" /\ worker'.at = "call"
    BY <1>1, <1>2, <2>2 DEF WorkerPasses, Holds, Carries
  <2>3. CASE worker'.job = worker.job /\ worker.at = "install" /\ worker'.at = "mark"
    BY <1>1, <1>2, <2>3 DEF WorkerPasses, Holds, Carries, Waiting
  <2>4. QED
    BY <2>1, <2>2, <2>3
<1>6. QED
  BY <1>3, <1>4, <1>5 DEF PassedOn, Carries

\* A request that holds the lock changes its own package, which nobody else has.
LEMMA FlightChanges ==
    ASSUME Passing, UNCHANGED <<pending, worker>>, orphans' = {}, NEW u \in Uploads,
           flight.up = u, flight.at \in {"verified", "rollback", "drop"},
           \A v \in Uploads : v # u => upload'[v] = upload[v],
           upload'[u] \notin Early,
           \/ flight' = NoFlight
           \/ flight'.at = "submit" /\ flight'.up = u /\ upload'[u] = "install_queued"
    PROVE  PassedOn'
<1>1. /\ Shape /\ None \notin Uploads
      /\ \A i \in 1 .. Len(pending) : pending[i].up \in Uploads \cup {None}
      /\ worker.job.up \in Uploads \cup {None}
  BY Holders DEF Passing
<1>2. FlightPasses /\ QueuePasses /\ WorkerPasses
  BY DEF Passing, PassedOn
<1>3. FlightPasses'
  BY DEF FlightPasses, NoFlight, Queued
<1>4. ~Holds(u) /\ \A i \in 1 .. Len(pending) : pending[i].up # u
  BY <1>1, <1>2 DEF QueuePasses, WorkerPasses, Holds
<1>5. flight'.up \in {u, None}
  BY DEF NoFlight
<1>6. QueuePasses'
  BY <1>1, <1>2, <1>4, <1>5 DEF QueuePasses, Holds
<1>7. WorkerPasses'
  <2>1. CASE worker.job.up = u
    BY <1>4, <2>1 DEF WorkerPasses, Holds
  <2>2. CASE worker.job.up # u
    BY <1>1, <1>2, <1>5, <2>2 DEF WorkerPasses
  <2>3. QED
    BY <2>1, <2>2
<1>8. QED
  BY <1>3, <1>6, <1>7 DEF PassedOn

\* The callback changes the package it was given.
LEMMA WorkerChanges ==
    ASSUME Passing, UNCHANGED <<pending, flight>>, orphans' = {}, NEW u \in Uploads,
           worker.job.up = u, worker'.job = worker.job,
           \A v \in Uploads : v # u => upload'[v] = upload[v],
           \/ worker.at = "call" /\ worker'.at = "install" /\ upload'[u] = "installing"
           \/ /\ worker.at = "call" /\ worker'.at = "mark"
              /\ upload'[u] \in {upload[u], "installing"}
           \/ worker.at = "mark" /\ worker'.at = "clean" /\ upload'[u] \notin Early
           \/ worker.at = "clean" /\ worker'.at = "finish" /\ upload'[u] = "gone"
    PROVE  PassedOn'
<1>1. /\ Shape /\ None \notin Uploads
      /\ \A i \in 1 .. Len(pending) : pending[i].up \in Uploads \cup {None}
      /\ flight.at # "idle" => flight.up \in Uploads
  BY Holders DEF Passing
<1>2. FlightPasses /\ QueuePasses /\ WorkerPasses
  BY DEF Passing, PassedOn
<1>3. worker.at # "clean" =>
          /\ flight.up = u => flight.at = "accepted"
          /\ \A i \in 1 .. Len(pending) : pending[i].up # u
  BY <1>1, <1>2 DEF QueuePasses, WorkerPasses, Holds
<1>4. worker.at = "clean" => upload'[u] = "gone" /\ worker'.at = "finish"
  OBVIOUS
<1>5. FlightPasses'
  BY <1>1, <1>2, <1>3, <1>4 DEF FlightPasses, Queued
<1>6. QueuePasses'
  <2>1. CASE worker.at = "clean"
    BY <1>1, <1>2, <1>4, <2>1 DEF QueuePasses, Holds, Queued
  <2>2. CASE worker.at # "clean"
    BY <1>1, <1>2, <1>3, <2>2 DEF QueuePasses, Holds
  <2>3. QED
    BY <2>1, <2>2
<1>7. WorkerPasses'
  <2>1. worker.at = "call" => upload[u] \in Queued
    BY <1>1, <1>2 DEF WorkerPasses
  <2>2. Queued \subseteq Waiting \cup {"gone"} /\ "installing" \in Waiting
    BY DEF Queued, Waiting
  <2>3. QED
    BY <1>1, <1>3, <2>1, <2>2 DEF WorkerPasses, Holds
<1>8. QED
  BY <1>5, <1>6, <1>7 DEF PassedOn
\* Whatever takes packages away hands on the others.
LEMMA SparingHandsOn ==
    ASSUME Passing, Sparing, Removes
    PROVE  PassedOn'
<1>1. /\ Shape /\ Registry /\ FlightShape /\ WorkerShape
      /\ flight.at # "idle" => flight.up \in Uploads
      /\ flight \in [up : Uploads \cup {None}, store : BOOLEAN, at : FlightPlaces]
      /\ worker \in [job : Jobs \cup {NoJob}, at : WorkerPlaces, ok : BOOLEAN]
  BY DEF Passing, Shape, RegistryInv, Registry, FlightShape, WorkerShape
<1>2. Carries
  <2>1. /\ orphans' = {}
        /\ \A u \in Uploads : upload'[u] = upload[u] \/ (upload[u] \in Staged /\ upload'[u] = "gone")
    BY RemovesWhatRests
  <2>2. QED
    BY <2>1 DEF Carries, Staged, Installable, Queued, Waiting, Early
<1>3. CASE UNCHANGED <<pending, worker, flight>>
  BY <1>2, <1>3, NobodyHandsOn
<1>4. CASE Submit
  <2>1. /\ flight.at = "submit" /\ flight.up \in Uploads /\ AppOf[flight.up] \in Apps
    BY <1>1, <1>4, TaskNames DEF Submit
  <2>2. CASE Accept(AppOf[flight.up], flight.up) /\ flight' = [flight EXCEPT !.at = "accepted"]
    <3>1. flight'.up = flight.up /\ flight'.at = "accepted"
      BY <1>1, <2>2
    <3>2. PICK a \in Apps : a = AppOf[flight.up]
      BY <2>1
    <3>3. PICK v \in Uploads : v = flight.up
      BY <2>1
    <3>4. QED
      BY <1>2, <2>1, <2>2, <3>1, <3>2, <3>3, AcceptHandsOn
  <2>3. CASE UNCHANGED <<pending, worker>>
             /\ \E at \in {"drop", "rollback"} : flight' = [flight EXCEPT !.at = at]
    <3>1. flight'.up = flight.up /\ flight'.at \in {"drop", "rollback"}
      BY <1>1, <2>3
    <3>2. QED
      BY <1>2, <2>1, <2>3, <3>1, FlightHandsOn
  <2>4. QED
    BY <1>4, <2>2, <2>3 DEF Submit, Uncertain, opVars
<1>5. CASE Answer
  <2>1. flight' = NoFlight /\ UNCHANGED <<pending, worker>>
    BY <1>5 DEF Answer, opVars
  <2>2. QED
    BY <1>2, <2>1, FlightHandsOn
<1>6. CASE Request
  <2>1. CASE \E a \in Apps : Mutate(a)
    <3>1. PICK a \in Apps : (Accept(a, None) \/ Uncertain(a, None)) /\ UNCHANGED flight
      BY <2>1 DEF Mutate
    <3>2. CASE Accept(a, None)
      BY <1>2, <3>1, <3>2, AcceptHandsOn
    <3>3. CASE Uncertain(a, None)
      BY <1>3, <3>1, <3>3 DEF Uncertain
    <3>4. QED
      BY <3>1, <3>2, <3>3
  <2>2. CASE \E v \in Uploads : \E store \in BOOLEAN : Finalize(v, store)
    <3>1. PICK v \in Uploads : \E store \in BOOLEAN : Finalize(v, store)
      BY <2>2
    <3>2. /\ flight.at = "idle" /\ flight'.at = "verified" /\ flight'.up = v
          /\ upload[v] \in Installable /\ UNCHANGED <<pending, worker>>
      BY <3>1 DEF Finalize, FinalizeFree, NoFlight, opVars
    <3>3. QED
      BY <1>2, <3>2, FlightHandsOn
  <2>3. CASE ~(\E a \in Apps : Mutate(a)) /\ ~(\E v \in Uploads : \E store \in BOOLEAN : Finalize(v, store))
    <3>1. UNCHANGED <<pending, worker, flight>>
      BY <1>6, <2>3 DEF Request, Look, CloseStore, CloseOperations, RefuseNew, Create, Cancel,
                        TooLate, Replay, DeleteUpload, Collect, opVars
    <3>2. QED
      BY <1>3, <3>1
  <2>4. QED
    BY <2>1, <2>2, <2>3
<1>7. CASE EndInstall
  <2>1. /\ worker'.job = worker.job /\ UNCHANGED <<pending, flight>>
        /\ worker.at = "install" /\ worker'.at = "mark"
    BY <1>1, <1>7 DEF EndInstall, CallEnds, WorkerPlaces
  <2>2. QED
    BY <1>2, <2>1, WorkerHandsOn
<1>8. CASE OtherCall
  <2>1. worker'.job.up = None /\ UNCHANGED <<pending, flight>>
    BY <1>1, <1>8 DEF OtherCall, CallEnds
  <2>2. QED
    BY <1>2, <2>1, WorkerHandsOn
<1>9. CASE Take /\ UNCHANGED flight
  BY <1>2, <1>9, TakeHandsOn
<1>10. CASE StartOperation /\ UNCHANGED flight
  <2>1. /\ worker'.job = worker.job /\ UNCHANGED <<pending, flight>>
        /\ worker.at = "taken" /\ worker'.at = "call"
    BY <1>1, <1>10 DEF StartOperation, WorkerPlaces
  <2>2. QED
    BY <1>2, <2>1, WorkerHandsOn
<1>11. CASE FinishOperation /\ UNCHANGED flight
  <2>1. worker'.job.up = None /\ UNCHANGED <<pending, flight>>
    BY <1>11 DEF FinishOperation, Idle, NoJob
  <2>2. QED
    BY <1>2, <2>1, WorkerHandsOn
<1>12. CASE TakeTask \/ LoadFails \/ LoadDone \/ UNCHANGED vars
  <2>1. UNCHANGED <<pending, worker, flight>>
    BY <1>12 DEF TakeTask, LoadFails, LoadDone, opVars, vars
  <2>2. QED
    BY <1>3, <2>1
<1>13. QED
  BY <1>4, <1>5, <1>6, <1>7, <1>8, <1>9, <1>10, <1>11, <1>12 DEF Sparing

\* The package the loader works on is nobody else's.
LEMMA LoadingHandsOn ==
    ASSUME Passing, Loading
    PROVE  PassedOn'
<1>1. /\ loader.task \in Tasks /\ Tasks = Uploads /\ orphans = {} /\ LoaderOwns
      /\ "remove" \notin Failures
  BY TaskNames DEF Passing, PassedOn, LoaderKeeps, Loading
<1>2. /\ UNCHANGED <<pending, worker, flight, orphans>>
      /\ \A u \in Uploads : u # loader.task => upload'[u] = upload[u]
      /\ Stages(upload[loader.task], upload'[loader.task])
  BY DEF Loading, opVars
<1>3. PICK t \in Uploads : t = loader.task
  BY <1>1
<1>4. upload'[t] = upload[t] \/ upload[t] \in Early \/ (upload[t] = "gone" /\ upload'[t] = "gone")
  BY <1>1, <1>2, <1>3 DEF LoaderOwns, Stages, Early
<1>5. Carries
  <2>1. ASSUME NEW u \in Uploads
        PROVE  upload'[u] = upload[u] \/ upload[u] \in Early
    BY <1>2, <1>3, <1>4
  <2>2. QED
    BY <1>1, <1>2, <2>1 DEF Carries, Early, Installable, Queued, Waiting
<1>6. QED
  BY <1>2, <1>5, NobodyHandsOn

\* Each step of a request or of the worker leaves its package to the next.
LEMMA HandlingHandsOn ==
    ASSUME Passing, Handling
    PROVE  PassedOn'
<1>1. /\ Shape /\ TaskShape /\ upload \in [Uploads -> UploadStates] /\ orphans = {}
      /\ "remove" \notin Failures /\ FlightPasses /\ WorkerPasses
      /\ flight \in [up : Uploads \cup {None}, store : BOOLEAN, at : FlightPlaces]
      /\ worker \in [job : Jobs \cup {NoJob}, at : WorkerPlaces, ok : BOOLEAN]
      /\ WorkerShape
  BY DEF Passing, Shape, TaskShape, PassedOn, RegistryInv, Registry, FlightShape, WorkerShape
<1>2. orphans' = {}
  BY HandlingMoves
<1>3. ASSUME NEW u \in Uploads, RemoveOrMark(u)
      PROVE  upload'[u] = "gone" /\ \A v \in Uploads : v # u => upload'[v] = upload[v]
  <2>1. /\ \A v \in Uploads : v # u => upload'[v] = upload[v]
        /\ "remove" \notin Failures => upload'[u] = "gone" /\ orphans' \subseteq orphans
    BY <1>1, <1>3, RemovesOrMarks
  <2>2. QED
    BY <1>1, <2>1
<1>4. ASSUME NEW u \in Uploads, NEW s, UploadSet(u, s)
      PROVE  upload'[u] = s /\ \A v \in Uploads : v # u => upload'[v] = upload[v]
  BY <1>1, <1>4 DEF UploadSet
<1>5. ASSUME NEW u \in Uploads, UploadKept(u)
      PROVE  upload' = upload
  BY <1>5 DEF UploadKept
<1>6. {"install_queued", "preflighted", "installing", "installed", "failed", "gone"} \cap Early = {}
      /\ Installable \cap Early = {} /\ Waiting \cap Early = {}
  BY DEF Early, Installable, Waiting
<1>7. CASE QueueUpload
  <2>1. flight.at = "verified" /\ UNCHANGED <<pending, worker>>
    BY <1>7 DEF QueueUpload, opVars
  <2>2. PICK u \in Uploads : u = flight.up
    BY <1>1, <2>1, Holders
  <2>3. upload[u] \notin Early
    BY <1>1, <1>6, <2>1, <2>2 DEF FlightPasses
  <2>4. CASE UploadSet(u, "install_queued") /\ flight' = [flight EXCEPT !.at = "submit"]
    <3>1. upload'[u] = "install_queued" /\ \A v \in Uploads : v # u => upload'[v] = upload[v]
      BY <1>4, <2>4
    <3>2. flight'.at = "submit" /\ flight'.up = u
      BY <1>1, <2>2, <2>4
    <3>3. QED
      BY <1>2, <1>6, <2>1, <2>2, <3>1, <3>2, FlightChanges
  <2>5. CASE UploadKept(u) /\ flight' = NoFlight
    BY <1>2, <1>5, <2>1, <2>2, <2>3, <2>5, FlightChanges
  <2>6. CASE UploadSet(u, "unreported") /\ flight' = NoFlight
    <3>1. upload'[u] = "unreported" /\ \A v \in Uploads : v # u => upload'[v] = upload[v]
      BY <1>4, <2>6
    <3>2. upload'[u] \notin Early
      BY <3>1 DEF Early
    <3>3. QED
      BY <1>2, <2>1, <2>2, <2>6, <3>1, <3>2, FlightChanges
  <2>7. QED
    BY <1>7, <2>2, <2>4, <2>5, <2>6 DEF QueueUpload, UploadRaises
<1>8. CASE Rollback \/ DropUpload
  <2>1. flight.at \in {"rollback", "drop"} /\ UNCHANGED <<pending, worker>> /\ flight' = NoFlight
    BY <1>8 DEF Rollback, DropUpload, opVars
  <2>2. PICK u \in Uploads : u = flight.up
    BY <1>1, <2>1, Holders
  <2>3. UploadSet(u, "preflighted") \/ RemoveOrMark(u)
    BY <1>1, <1>8, <2>2 DEF Rollback, DropUpload
  <2>4. upload'[u] \notin Early /\ \A v \in Uploads : v # u => upload'[v] = upload[v]
    BY <1>3, <1>4, <1>6, <2>3
  <2>5. QED
    BY <1>2, <2>1, <2>2, <2>4, FlightChanges
<1>9. CASE BeginInstall \/ MarkUpload \/ CleanUpload
  <2>1. /\ worker.at \in {"call", "mark", "clean"} /\ worker.job.up # None
        /\ UNCHANGED <<pending, flight>> /\ worker'.job = worker.job
    BY <1>1, <1>9 DEF BeginInstall, MarkUpload, CleanUpload, CallGoes, CallEnds, WorkerShape
  <2>2. PICK u \in Uploads : u = worker.job.up
    BY <1>1, <2>1, Holders
  <2>3. CASE BeginInstall
    <3>1. \/ /\ worker.at = "call" /\ worker'.at = "install" /\ UploadSet(u, "installing")
          \/ /\ worker.at = "call" /\ worker'.at = "mark"
             /\ UploadKept(u) \/ UploadSet(u, "installing")
      BY <1>1, <2>2, <2>3 DEF BeginInstall, CallGoes, CallEnds, UploadRaises
    <3>2. QED
      BY <1>2, <1>4, <1>5, <2>1, <2>2, <3>1, WorkerChanges
  <2>4. CASE MarkUpload
    <3>1. /\ worker.at = "mark" /\ worker'.at = "clean"
          /\ UploadSet(u, "installed") \/ UploadSet(u, "failed") \/ UploadKept(u)
      BY <1>1, <2>2, <2>4 DEF MarkUpload, CallGoes
    <3>2. upload[u] \notin Early
      BY <1>1, <1>6, <2>2, <3>1, HistoryHoldsQueue DEF WorkerPasses
    <3>3. upload'[u] \notin Early /\ \A v \in Uploads : v # u => upload'[v] = upload[v]
      BY <1>4, <1>5, <1>6, <3>1, <3>2
    <3>4. QED
      BY <1>2, <2>1, <2>2, <3>1, <3>3, WorkerChanges
  <2>5. CASE CleanUpload
    <3>1. worker.at = "clean" /\ worker'.at = "finish" /\ RemoveOrMark(u)
      BY <1>1, <2>2, <2>5 DEF CleanUpload, CallGoes
    <3>2. QED
      BY <1>2, <1>3, <2>1, <2>2, <3>1, WorkerChanges
  <2>6. QED
    BY <1>9, <2>3, <2>4, <2>5
<1>10. QED
  BY <1>7, <1>8, <1>9 DEF Handling

\* So every step passes the packages on.
LEMMA PassedOnNext ==
    ASSUME Passing, [Next]_vars
    PROVE  PassedOn'
<1>1. Shape
  BY DEF Passing
<1>2. ASSUME NEW t \in Tasks, Create(t), Removes
      PROVE  PassedOn'
  <2>1. Sparing
    BY <1>2 DEF Sparing, Request
  <2>2. QED
    BY <1>2, <2>1, SparingHandsOn
<1>3. CASE Quiet
  BY <1>3, SparingHandsOn DEF Quiet
<1>4. CASE Restarted
  <2>1. /\ orphans' = {} /\ flight'.at = "idle" /\ pending' = << >> /\ worker'.job.up = None
    BY <1>4 DEF Restarted, NoFlight, Idle, NoJob, Passing
  <2>2. Len(pending') = 0
    BY <2>1
  <2>3. QED
    BY <2>1, <2>2 DEF PassedOn, FlightPasses, QueuePasses, WorkerPasses
<1>5. QED
  BY <1>1, <1>2, <1>3, <1>4, LoadingHandsOn, HandlingHandsOn, Kinds

\* If directories can be removed, nobody deletes or changes the bytes that
\* do_install is reading: not cancellation, collection, a second request or
\* the recovery of a task (uploads.py:208-243, server.py:3666-3698).
THEOREM HeldWhileInstalled ==
    ASSUME "remove" \notin Failures
    PROVE  Spec => []PackageHeld
<1>1. Init => LoaderKeeps /\ PassedOn
  <2> SUFFICES ASSUME Init PROVE LoaderKeeps /\ PassedOn
    OBVIOUS
  <2>1. /\ tasks = [t \in Tasks |-> NoTask] /\ taskFile = tasks /\ downloads = << >>
        /\ loader = NoLoad /\ upload = [u \in Uploads |-> "none"] /\ orphans = {}
        /\ flight = NoFlight /\ pending = << >> /\ worker = Idle
        /\ Tasks = Uploads /\ None \notin Tasks
    BY TaskNames, HistoryHoldsQueue DEF Init, InitOperations
  <2>2. IsInjective(downloads) /\ ToSet(downloads) = {} /\ Len(pending) = 0
    BY <2>1 DEF IsInjective, ToSet
  <2>3. LoaderKeeps
    BY <2>1, <2>2 DEF LoaderKeeps, LoaderOwns, Claimed, NoTask, NoLoad, Unseen
  <2>4. PassedOn
    BY <2>1, <2>2 DEF PassedOn, FlightPasses, QueuePasses, WorkerPasses, NoFlight, Idle, NoJob
  <2>5. QED
    BY <2>3, <2>4
<1>2. Shape /\ LoaderKeeps /\ PassedOn /\ [Next]_vars => LoaderKeeps' /\ PassedOn'
  <2>1. Shape /\ LoaderKeeps /\ PassedOn => Passing
    BY DEF Passing
  <2>2. QED
    BY <2>1, LoaderKeepsNext, PassedOnNext
<1>3. Shape /\ PassedOn => PackageHeld
  <2> SUFFICES ASSUME Shape, PassedOn, worker.at = "install"
               PROVE  upload[worker.job.up] = "installing"
    BY DEF PackageHeld
  <2>1. worker.job.up # None
    BY Holders, HistoryHoldsQueue
  <2>2. QED
    BY <2>1 DEF PassedOn, WorkerPasses
<1>4. Spec => []Shape
  BY ShapeInvariant
<1>5. QED
  BY <1>1, <1>2, <1>3, <1>4, PTL DEF Spec-----------------------------------------------------------------------------
(* An installation is accepted once.  The registry refuses what it          *)
(* remembers, so it must remember what is under way.                        *)

Tracked == \A j \in Jobs : Under(j) => j.id \in IdsOf(records)

(* The history is cut by age, whatever the status: a record of an operation *)
(* that is under way may be pushed out by newer ones (operations.py:258).   *)
Evicts == \E i \in DOMAIN records :
              records[i].st \in Active /\ records[i].id \notin IdsOf(records')

\* Operations under way that are in the registry differ in everything.
LEMMA TrackedDiffer ==
    ASSUME Registry, Tracked, NEW j \in Jobs, NEW k \in Jobs, Under(j), Under(k), j.id # k.id
    PROVE  j.app # k.app /\ (j.up # None => j.up # k.up)
<1>1. /\ Sound(records) /\ DOMAIN records = 1 .. Len(records)
  BY LenProperties DEF Registry, Sound
<1>2. PICK p \in 1 .. Len(records) : records[p].id = j.id
  BY <1>1 DEF Tracked, IdsOf
<1>3. PICK q \in 1 .. Len(records) : records[q].id = k.id
  BY <1>1 DEF Tracked, IdsOf
<1>4. /\ records[p].st \in Active /\ records[p].app = j.app /\ records[p].up = j.up
      /\ records[q].st \in Active /\ records[q].app = k.app /\ records[q].up = k.up
  BY <1>2, <1>3 DEF Registry, LiveJobs
<1>5. p # q
  BY <1>2, <1>3
<1>6. QED
  BY <1>1, <1>4, <1>5 DEF Sound

\* So no package and no application has two of them.
LEMMA TrackedOnce ==
    ASSUME Registry, Tracked
    PROVE  InstallOnce
<1>1. /\ DOMAIN records = 1 .. Len(records) /\ Sound(records)
      /\ DOMAIN pending = 1 .. Len(pending) /\ Len(pending) \in Nat
      /\ \A i \in 1 .. Len(pending) : pending[i] \in Jobs
      /\ WorkerShape /\ None \notin Apps /\ None \notin Uploads
  BY LenProperties, ElementOfSeq, HistoryHoldsQueue DEF Registry, Sound
<1>2. \A i \in 1 .. Len(pending) : Under(pending[i])
  BY DEF Under
<1>3. \A i, k \in 1 .. Len(pending) : i # k => pending[i].id # pending[k].id
  BY DEF Registry, LiveJobs
<1>4. worker.at # "idle" => /\ worker.job \in Jobs /\ Under(worker.job)
                            /\ \A i \in 1 .. Len(pending) : pending[i].id # worker.job.id
  BY <1>1 DEF WorkerShape, Under, Registry, LiveJobs
<1>5. worker.at = "idle" => worker.job.app = None /\ worker.job.up = None
  BY <1>1 DEF WorkerShape, NoJob
<1>6. ASSUME NEW i \in 1 .. Len(pending), NEW k \in 1 .. Len(pending), i # k
      PROVE  /\ pending[i].app # pending[k].app
             /\ pending[i].up # None => pending[i].up # pending[k].up
  <2>1. /\ pending[i] \in Jobs /\ pending[k] \in Jobs /\ Under(pending[i]) /\ Under(pending[k])
        /\ pending[i].id # pending[k].id
    BY <1>1, <1>2, <1>3, <1>6
  <2>2. QED
    BY <2>1, TrackedDiffer
<1>7. ASSUME NEW i \in 1 .. Len(pending)
      PROVE  /\ pending[i].app # worker.job.app
             /\ pending[i].up # None => pending[i].up # worker.job.up
  <2>1. CASE worker.at = "idle"
    <3>1. pending[i].app # None
      BY <1>1 DEF Jobs
    <3>2. QED
      BY <1>5, <2>1, <3>1
  <2>2. CASE worker.at # "idle"
    <3>1. /\ pending[i] \in Jobs /\ worker.job \in Jobs /\ Under(pending[i]) /\ Under(worker.job)
          /\ pending[i].id # worker.job.id
      BY <1>1, <1>2, <1>4, <2>2
    <3>2. QED
      BY <3>1, TrackedDiffer
  <2>3. QED
    BY <2>1, <2>2
<1>8. ASSUME NEW S, \A x, y \in S : x = y
      PROVE  Cardinality(S) \in {0, 1}
  <2>1. CASE S = {}
    BY <2>1, FS_EmptySet
  <2>2. CASE S # {}
    <3>1. PICK x \in S : TRUE
      BY <2>2
    <3>2. S = {x}
      BY <1>8, <3>1
    <3>3. QED
      BY <3>2, FS_Singleton
  <2>3. QED
    BY <2>1, <2>2
<1>9. ASSUME NEW u \in Uploads
      PROVE  /\ Cardinality(Bindings(records, u)) <= 1
             /\ Cardinality({i \in DOMAIN pending : pending[i].up = u})
                    + (IF worker.job.up = u THEN 1 ELSE 0) <= 1
  <2> DEFINE B == Bindings(records, u)
             P == {i \in DOMAIN pending : pending[i].up = u}
  <2>1. u # None
    BY <1>1
  <2>2. \A x, y \in B : x = y
    BY <1>1, <2>1 DEF Bindings, Sound
  <2>3. \A x, y \in P : x = y
    BY <1>1, <1>6, <2>1
  <2>4. worker.job.up = u => P = {}
    BY <1>1, <1>7, <2>1
  <2> HIDE DEF B, P
  <2>5. Cardinality(B) \in {0, 1} /\ Cardinality(P) \in {0, 1}
    BY <1>8, <2>2, <2>3
  <2>6. worker.job.up = u => Cardinality(P) = 0
    BY <2>4, FS_EmptySet
  <2>7. Cardinality(B) <= 1 /\ Cardinality(P) + (IF worker.job.up = u THEN 1 ELSE 0) <= 1
    BY <2>5, <2>6
  <2>8. QED
    BY <2>7 DEF B, P
<1>10. OneOperationPerPackage
  BY <1>9 DEF OneOperationPerPackage
<1>11. OneOperationPerApp
  BY <1>1, <1>6, <1>7 DEF OneOperationPerApp
<1>12. QED
  BY <1>10, <1>11 DEF InstallOnce

\* What is under way stays in the registry, if it is not pushed out.
LEMMA TrackedNext ==
    ASSUME RegistryInv, Tracked, [Next]_vars, ~Evicts \/ UNCHANGED vars
    PROVE  Tracked'
<1>1. Joins /\ LiveJobs /\ DOMAIN records = 1 .. Len(records)
  BY RegistryNext, LenProperties DEF RegistryInv, Registry, Sound
<1>2. \A i \in DOMAIN records : records[i].st \in Active => records[i].id \in IdsOf(records')
  <2>1. CASE UNCHANGED vars
    BY <2>1 DEF vars, opVars, IdsOf
  <2>2. CASE ~Evicts
    BY <2>2 DEF Evicts
  <2>3. QED
    BY <2>1, <2>2
<1>3. ASSUME NEW j \in Jobs, Under(j)
      PROVE  j.id \in IdsOf(records')
  <2>1. PICK i \in DOMAIN records : records[i].id = j.id
    BY <1>3 DEF Tracked, IdsOf
  <2>2. records[i].st \in Active
    BY <1>1, <1>3, <2>1 DEF LiveJobs
  <2>3. QED
    BY <1>2, <2>1, <2>2
<1>4. QED
  BY <1>1, <1>3 DEF Tracked, Joins

\* Through retries, failed saves, failed removals and crashes, and whatever
\* route an installation comes by, it is accepted once, as long as the
\* history never pushes out an operation that is under way (server.py:3572,
\* operations.py:218-259).
THEOREM OnceWhileRemembered == Spec /\ [][~Evicts]_vars => []InstallOnce
<1>1. Init => Tracked
  <2> SUFFICES ASSUME Init PROVE Tracked
    OBVIOUS
  <2>1. Len(pending) = 0 /\ worker.at = "idle"
    BY DEF Init, InitOperations, Idle
  <2>2. QED
    BY <2>1 DEF Tracked, Under
<1>2. Shape /\ Tracked /\ [Next]_vars /\ [~Evicts]_vars => Tracked'
  <2> SUFFICES ASSUME Shape, Tracked, [Next]_vars, [~Evicts]_vars
               PROVE  Tracked'
    OBVIOUS
  <2>1. RegistryInv /\ (~Evicts \/ UNCHANGED vars)
    BY DEF Shape
  <2>2. QED
    BY <2>1, TrackedNext
<1>3. Shape /\ Tracked => InstallOnce
  BY TrackedOnce DEF Shape, RegistryInv
<1>4. Spec => []Shape
  BY ShapeInvariant
<1>5. QED
  BY <1>1, <1>2, <1>3, <1>4, PTL DEF Spec-----------------------------------------------------------------------------
(* If the journal can always be written, every operation that is recorded  *)
(* is queued, and run in that order: the operations under way are the last *)
(* ones of the history, which has room for them and one more.              *)

InOrder ==
    LET n == Len(records) - Len(pending) IN
    /\ n >= 0
    /\ \A i \in 1 .. Len(pending) : records[n + i].id = pending[i].id
    /\ worker.at # "idle" => n > 0 /\ records[n].id = worker.job.id

\* The history is cut only when it is full.
LEMMA LatestLength ==
    ASSUME NEW S, NEW s \in Seq(S)
    PROVE  Len(Latest(s)) = IF Len(s) > MaxHistory THEN MaxHistory ELSE Len(s)
<1>1. Len(s) \in Nat /\ MaxHistory \in Nat
  BY HistoryHoldsQueue, LenProperties
<1>2. CASE Len(s) > MaxHistory
  <2>1. \A i \in (Len(s) - MaxHistory) + 1 .. Len(s) : s[i] \in S
    BY <1>1, <1>2, ElementOfSeq
  <2>2. Len(SubSeq(s, (Len(s) - MaxHistory) + 1, Len(s))) = Len(s) - ((Len(s) - MaxHistory) + 1) + 1
    BY <1>1, <1>2, <2>1, SubSeqProperties
  <2>3. QED
    BY <1>1, <1>2, <2>2 DEF Latest
<1>3. CASE ~(Len(s) > MaxHistory)
  BY <1>3 DEF Latest
<1>4. QED
  BY <1>2, <1>3

\* An operation that is added is the last of both lists.
LEMMA AcceptInOrder ==
    ASSUME Registry, InOrder, NEW a \in Apps, NEW u \in Uploads \cup {None}, Accept(a, u)
    PROVE  InOrder'
<1> DEFINE r == [id |-> FreshId, app |-> a, up |-> u, st |-> "queued"]
           l == Latest(Append(records, r))
<1>1. /\ records \in Seq(OperationRecord) /\ Len(records) <= MaxHistory
      /\ Len(records) \in Nat /\ Len(pending) \in Nat
      /\ MaxHistory \in Nat /\ MaxPending \in Nat /\ MaxPending + 2 <= MaxHistory
      /\ Len(pending) < MaxPending
  <2>1. /\ records \in Seq(OperationRecord) /\ Len(records) <= MaxHistory /\ pending \in Seq(Jobs)
    BY DEF Registry, Sound
  <2>2. ~(Len(pending) >= MaxPending)
    BY DEF Accept, Refused
  <2>3. QED
    BY <2>1, <2>2, LenProperties, HistoryHoldsQueue
<1>2. r \in OperationRecord /\ r.id = FreshId
  BY FreshIdIsFresh DEF OperationRecord, Active, Ended
<1>3. records' = l
  BY DEF Accept
<1>4. /\ Len(pending') = Len(pending) + 1
      /\ \A i \in 1 .. Len(pending) : pending'[i] = pending[i]
      /\ pending'[Len(pending) + 1].id = FreshId
      /\ UNCHANGED worker
  <2>1. /\ Len(pending') = Len(pending) + 1
        /\ \A i \in 1 .. Len(pending) : pending'[i] = pending[i]
        /\ pending'[Len(pending) + 1] = [id |-> FreshId, app |-> a, up |-> u]
        /\ UNCHANGED worker
    BY AcceptQueues
  <2>2. QED
    BY <2>1
<1> HIDE DEF r
<1>5. l[Len(l)] = r /\ Extends(l, records) /\ Len(l) \in Nat \ {0}
  BY <1>1, <1>2, AddedLast
<1>6. Len(l) = IF Len(records) + 1 > MaxHistory THEN MaxHistory ELSE Len(records) + 1
  <2>1. Append(records, r) \in Seq(OperationRecord) /\ Len(Append(records, r)) = Len(records) + 1
    BY <1>1, <1>2, AppendProperties
  <2>2. QED
    BY <2>1, LatestLength
<1> HIDE DEF l
<1>7. PICK d \in Nat : /\ Len(l) + d = Len(records) + 1
                       /\ \A i \in 1 .. Len(l) : i # Len(l) =>
                              i + d \in 1 .. Len(records) /\ l[i] = records[i + d]
  BY <1>5 DEF Extends
<1> DEFINE n == Len(records) - Len(pending)
           m == Len(l) - Len(pending')
<1>8. /\ n \in Int /\ m \in Int /\ n = m + d /\ m >= 0
      /\ n >= 0 /\ worker.at # "idle" => m > 0
  <2>1. n \in Int /\ m \in Int /\ n = m + d /\ n >= 0 /\ (worker.at # "idle" => n > 0)
    BY <1>1, <1>4, <1>5, <1>7 DEF InOrder
  <2>2. CASE d = 0
    BY <2>1, <2>2
  <2>3. CASE d # 0
    <3>1. Len(l) = MaxHistory
      BY <1>1, <1>6, <1>7, <2>3
    <3>2. m > 0
      BY <1>1, <1>4, <3>1
    <3>3. QED
      BY <2>1, <3>2
  <2>4. QED
    BY <2>2, <2>3
<1>9. ASSUME NEW i \in 1 .. Len(pending')
      PROVE  l[m + i].id = pending'[i].id
  <2>1. CASE i = Len(pending) + 1
    <3>1. m + i = Len(l)
      BY <1>1, <1>4, <1>5, <2>1
    <3>2. QED
      BY <1>2, <1>4, <1>5, <2>1, <3>1
  <2>2. CASE i # Len(pending) + 1
    <3>1. i \in 1 .. Len(pending)
      BY <1>1, <1>4, <2>2
    <3>2. m + i \in 1 .. Len(l) /\ m + i # Len(l) /\ m + i + d = n + i
      BY <1>1, <1>4, <1>5, <1>8, <3>1
    <3>3. l[m + i] = records[n + i]
      BY <1>7, <3>2
    <3>4. records[n + i].id = pending[i].id
      BY <3>1 DEF InOrder
    <3>5. QED
      BY <1>4, <3>1, <3>3, <3>4
  <2>3. QED
    BY <2>1, <2>2
<1>10. worker.at # "idle" => m > 0 /\ l[m].id = worker.job.id
  <2>1. ASSUME worker.at # "idle"
        PROVE  m > 0 /\ l[m].id = worker.job.id
    <3>1. m \in 1 .. Len(l) /\ m # Len(l) /\ m + d = n
      BY <1>1, <1>4, <1>5, <1>8, <2>1
    <3>2. l[m] = records[n]
      BY <1>7, <3>1
    <3>3. QED
      BY <1>8, <2>1, <3>2 DEF InOrder
  <2>2. QED
    BY <2>1
<1>11. QED
  BY <1>3, <1>4, <1>8, <1>9, <1>10 DEF InOrder

\* The worker takes the oldest operation that is queued.
LEMMA TakeInOrder ==
    ASSUME Registry, InOrder, Take
    PROVE  InOrder'
<1>1. /\ pending \in Seq(Jobs) /\ Len(pending) \in Nat /\ Len(records) \in Nat
      /\ pending # << >> /\ worker'.job = Head(pending) /\ worker'.at = "taken"
      /\ pending' = Tail(pending) /\ UNCHANGED records
  BY LenProperties DEF Take, Registry, Sound
<1>2. /\ Head(pending) = pending[1] /\ Len(pending') = Len(pending) - 1 /\ Len(pending) # 0
      /\ \A i \in 1 .. Len(pending') : pending'[i] = pending[i + 1]
  <2>1. /\ Head(pending) = pending[1] /\ Len(Tail(pending)) = Len(pending) - 1
        /\ \A i \in 1 .. Len(Tail(pending)) : Tail(pending)[i] = pending[i + 1]
    BY <1>1, HeadTailProperties
  <2>2. QED
    BY <1>1, <2>1, EmptySeq
<1> DEFINE n == Len(records) - Len(pending)
<1>3. n \in Int /\ n >= 0 /\ Len(records) - Len(pending') = n + 1
  BY <1>1, <1>2 DEF InOrder
<1>4. \A i \in 1 .. Len(pending) : records[n + i].id = pending[i].id
  BY DEF InOrder
<1>5. ASSUME NEW i \in 1 .. Len(pending')
      PROVE  records[(n + 1) + i].id = pending'[i].id
  <2>1. i + 1 \in 1 .. Len(pending) /\ (n + 1) + i = n + (i + 1)
    BY <1>1, <1>2, <1>3
  <2>2. QED
    BY <1>2, <1>4, <2>1
<1>6. records[n + 1].id = worker'.job.id
  <2>1. 1 \in 1 .. Len(pending)
    BY <1>1, <1>2
  <2>2. QED
    BY <1>1, <1>2, <1>4, <2>1
<1> HIDE DEF n
<1>7. QED
  BY <1>1, <1>3, <1>5, <1>6 DEF InOrder

\* The other steps change no identity.
LEMMA StaysInOrder ==
    ASSUME Registry, InOrder, UNCHANGED pending,
           worker'.at # "idle" => worker.at # "idle" /\ worker'.job = worker.job,
           Len(records') = Len(records),
           \A i \in 1 .. Len(records) : records'[i].id = records[i].id
    PROVE  InOrder'
<1>1. Len(records) \in Nat /\ Len(pending) \in Nat
  BY LenProperties DEF Registry, Sound
<1> DEFINE n == Len(records) - Len(pending)
<1>2. n \in Int /\ n >= 0 /\ \A i \in 1 .. Len(pending) : n + i \in 1 .. Len(records)
  BY <1>1 DEF InOrder
<1>3. n > 0 => n \in 1 .. Len(records)
  BY <1>1
<1>4. QED
  BY <1>2, <1>3 DEF InOrder

\* So the registry keeps the order.
LEMMA InOrderNext ==
    ASSUME Shape, InOrder, "save" \notin Failures, [Next]_vars
    PROVE  InOrder'
<1>1. /\ Registry /\ FlightShape /\ WorkerShape /\ Len(records) \in Nat
      /\ worker \in [job : Jobs \cup {NoJob}, at : WorkerPlaces, ok : BOOLEAN]
  BY LenProperties DEF Shape, RegistryInv, Registry, WorkerShape, Sound
<1>2. CASE UNCHANGED <<records, pending, worker>>
  BY <1>2 DEF InOrder
<1>3. CASE Submit
  <2>1. AppOf[flight.up] \in Apps /\ flight.up \in Uploads \cup {None}
    BY <1>1, <1>3, TaskNames DEF Submit, FlightShape
  <2>2. PICK a \in Apps, u \in Uploads \cup {None} : a = AppOf[flight.up] /\ u = flight.up
    BY <2>1
  <2>3. Accept(a, u) \/ UNCHANGED <<records, pending, worker>>
    BY <1>3, <2>2 DEF Submit, Uncertain, Raised, opVars
  <2>4. QED
    BY <1>1, <1>2, <2>3, AcceptInOrder
<1>4. ASSUME NEW a \in Apps, Mutate(a)
      PROVE  InOrder'
  <2>1. Accept(a, None)
    BY <1>4 DEF Mutate, Uncertain, Raised
  <2>2. QED
    BY <1>1, <2>1, AcceptInOrder
<1>5. CASE Take
  BY <1>1, <1>5, TakeInOrder
<1>6. CASE StartOperation \/ FinishOperation
  <2>1. PICK st : Update(worker.job.id, st)
    BY <1>6 DEF StartOperation, FinishOperation
  <2>2. /\ UNCHANGED pending
        /\ worker'.at # "idle" => worker.at # "idle" /\ worker'.job = worker.job
    BY <1>1, <1>6 DEF StartOperation, FinishOperation, Idle
  <2>3. DOMAIN records = 1 .. Len(records) /\ \A i \in 1 .. Len(records) : records[i] \in OperationRecord
    BY <1>1, LenProperties, ElementOfSeq DEF Registry, Sound
  <2>4. records' = [i \in 1 .. Len(records) |->
                       IF records[i].id = worker.job.id THEN [records[i] EXCEPT !.st = st]
                       ELSE records[i]]
    BY <2>1, <2>3 DEF Update
  <2>5. \A i \in 1 .. Len(records) : records'[i].id = records[i].id
    BY <2>3, <2>4 DEF OperationRecord
  <2>6. Len(records') = Len(records)
    BY <1>1, <2>4
  <2>7. QED
    BY <1>1, <2>2, <2>5, <2>6, StaysInOrder
<1>7. CASE BeginInstall \/ EndInstall \/ MarkUpload \/ CleanUpload \/ OtherCall
  <2>1. /\ UNCHANGED <<records, pending>> /\ worker'.job = worker.job /\ worker.at # "idle"
    BY <1>1, <1>7 DEF BeginInstall, EndInstall, MarkUpload, CleanUpload, OtherCall,
                      CallGoes, CallEnds
  <2>2. QED
    BY <1>1, <2>1, StaysInOrder
<1>8. CASE Restart
  <2>1. /\ records' = Recovered /\ pending' = << >> /\ worker'.at = "idle"
    BY <1>8 DEF Restart, RestartOperations, Idle
  <2>2. Len(Recovered) \in Nat
    BY <1>1, RecoveredSound, LenProperties DEF Registry, Sound
  <2>3. QED
    BY <2>1, <2>2 DEF InOrder
<1>9. CASE UNCHANGED opVars
  BY <1>2, <1>9 DEF opVars
<1>10. CASE LoaderStep \/ UNCHANGED vars
  BY <1>9, <1>10 DEF vars, LoaderStep, TakeTask, BeginLoad, Reserve, Transfer, BeginPreflight,
                     Preflight, Validate, LoadFails, LoadDone
<1>11. CASE QueueUpload \/ Rollback \/ DropUpload \/ Answer
  BY <1>9, <1>11 DEF QueueUpload, Rollback, DropUpload, Answer
<1>12. CASE Request
  <2>1. CASE CloseOperations
    BY <1>2, <2>1 DEF CloseOperations, RefuseNew
  <2>2. CASE ~CloseOperations /\ ~ \E a \in Apps : Mutate(a)
    BY <1>9, <1>12, <2>2 DEF Request, Look, CloseStore, Create, Cancel, TooLate, Replay,
                             Finalize, DeleteUpload, Collect
  <2>3. QED
    BY <1>4, <2>1, <2>2
<1>13. QED
  BY <1>3, <1>5, <1>6, <1>7, <1>8, <1>10, <1>11, <1>12 DEF Next, FlightStep, WorkerStep

\* What is under way is then in the history.
LEMMA InOrderTracked ==
    ASSUME Registry, InOrder
    PROVE  Tracked
<1>1. /\ Len(records) \in Nat /\ Len(pending) \in Nat /\ DOMAIN records = 1 .. Len(records)
  BY LenProperties DEF Registry, Sound
<1> DEFINE n == Len(records) - Len(pending)
<1>2. n \in Int /\ n >= 0 /\ \A i \in 1 .. Len(pending) : n + i \in 1 .. Len(records)
  BY <1>1 DEF InOrder
<1>3. n > 0 => n \in 1 .. Len(records)
  BY <1>1
<1>4. ASSUME NEW j \in Jobs, Under(j)
      PROVE  j.id \in IdsOf(records)
  <2>1. CASE \E i \in 1 .. Len(pending) : j = pending[i]
    <3>1. PICK i \in 1 .. Len(pending) : j = pending[i]
      BY <2>1
    <3>2. n + i \in DOMAIN records /\ records[n + i].id = j.id
      BY <1>1, <1>2, <3>1 DEF InOrder
    <3>3. QED
      BY <3>2 DEF IdsOf
  <2>2. CASE worker.at # "idle" /\ j = worker.job
    <3>1. n \in DOMAIN records /\ records[n].id = j.id
      BY <1>1, <1>3, <2>2 DEF InOrder
    <3>2. QED
      BY <3>1 DEF IdsOf
  <2>3. QED
    BY <1>4, <2>1, <2>2 DEF Under
<1>5. QED
  BY <1>4 DEF Tracked

\* If the journal can be written the history always has room for what is
\* under way, so an installation is accepted once, through failing removals
\* and crashes, by whatever route (server.py:3572, operations.py:258).
THEOREM OnceIfSaved ==
    ASSUME "save" \notin Failures
    PROVE  Spec => []InstallOnce
<1>1. Init => InOrder
  <2> SUFFICES ASSUME Init PROVE InOrder
    OBVIOUS
  <2>1. Len(pending) = 0 /\ Len(records) = 0 /\ worker.at = "idle"
    BY DEF Init, InitOperations, Idle
  <2>2. QED
    BY <2>1 DEF InOrder
<1>2. Shape /\ InOrder /\ [Next]_vars => InOrder'
  BY InOrderNext
<1>3. Shape /\ InOrder => InstallOnce
  BY InOrderTracked, TrackedOnce DEF Shape, RegistryInv
<1>4. Spec => []Shape
  BY ShapeInvariant
<1>5. QED
  BY <1>1, <1>2, <1>3, <1>4, PTL DEF Spec
=============================================================================
