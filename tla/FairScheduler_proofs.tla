------------------------- MODULE FairScheduler_proofs -------------------------
(***************************************************************************)
(* FairScheduler for any number of jobs, applications, models and workers: *)
(* the indexes of the scheduler agree with its jobs, a job is finished     *)
(* once, and no worker sleeps through what it waits for.  The indexes and  *)
(* types are inductive together; the wakeups rest on them.                 *)
(***************************************************************************)
EXTENDS FairScheduler, CollectionTheorems

Index == TypeOK /\ IndexesAgree

-----------------------------------------------------------------------------
(* What one pass of _select_locked computes. *)

\* The live jobs of an application are the queued ones before their deadline.
LEMMA LiveJobs ==
    ASSUME TypeOK, NEW a \in Apps
    PROVE  /\ Live(a) \in Seq(Jobs)
           /\ ToSet(Live(a)) = {j \in Queued(a) : ttl[j] > 0}
           /\ IsInjective(queue[a]) => IsInjective(Live(a))
           /\ Live(a) = << >> <=> \A j \in Queued(a) : ~(ttl[j] > 0)
<1> DEFINE S == {j \in Jobs : ttl[j] > 0}
<1>1. queue[a] \in Seq(Jobs)
  BY DEF TypeOK
<1>2. /\ Live(a) \in Seq(Jobs)
      /\ ToSet(Live(a)) = ToSet(queue[a]) \cap S
      /\ IsInjective(queue[a]) => IsInjective(Live(a))
  BY <1>1, KeepType, KeepElements, KeepInjective DEF Live
<1>3. ToSet(queue[a]) \subseteq Jobs
  BY <1>1, SequenceElements
<1>4. ToSet(Live(a)) = {j \in Queued(a) : ttl[j] > 0}
  BY <1>2, <1>3 DEF Queued
<1>5. Live(a) = << >> <=> ToSet(Live(a)) = {}
  BY <1>2, SequenceElements
<1>6. QED
  BY <1>2, <1>4, <1>5

\* The rotation of a pass has the applications with live jobs.
LEMMA LiveRotationApps ==
    ASSUME TypeOK
    PROVE  /\ LiveRotation \in Seq(Apps)
           /\ ToSet(LiveRotation) = {a \in ToSet(rotation) : Live(a) # << >>}
           /\ IsInjective(rotation) => IsInjective(LiveRotation)
<1>1. rotation \in Seq(Apps)
  BY DEF TypeOK
<1>2. ToSet(rotation) \subseteq Apps
  BY <1>1, SequenceElements
<1>3. QED
  BY <1>1, <1>2, KeepType, KeepElements, KeepInjective DEF LiveRotation

\* The place of an element of a sequence is a number.
LEMMA PositionIsPlace ==
    ASSUME NEW T, NEW s \in Seq(T), NEW x \in ToSet(s)
    PROVE  Position(s, x) \in Nat
<1>1. \E i \in DOMAIN s : s[i] = x
  BY DEF ToSet
<1>2. Position(s, x) \in DOMAIN s
  BY <1>1 DEF Position
<1>3. QED
  BY <1>2

\* max() of the runnable jobs of an application is one of them.
LEMMA CandidateIsRunnable ==
    ASSUME TypeOK, NEW a \in Apps, Runnable(a) # {}
    PROVE  Candidate(a) \in Runnable(a)
<1> DEFINE S == Runnable(a)
           R == {p \in S \X S : Before(a, p[1], p[2])}
<1>1. /\ S \subseteq Queued(a) /\ S \subseteq Jobs /\ IsFiniteSet(Queued(a))
      /\ queue[a] \in Seq(Jobs)
  <2>1. queue[a] \in Seq(Jobs)
    BY DEF TypeOK
  <2>2. S \subseteq Queued(a)
    BY LiveJobs DEF Runnable
  <2>3. Queued(a) \subseteq Jobs /\ IsFiniteSet(Queued(a))
    BY <2>1, SequenceElements DEF Queued
  <2>4. QED
    BY <2>1, <2>2, <2>3
<1>2. IsFiniteSet(S)
  BY <1>1, FS_Subset
<1>3. \A i \in S : PriorityOf[i] \in Int /\ Position(queue[a], i) \in Int
  BY <1>1, PositionIsPlace, JobAttributes DEF Queued
<1>4. \A i, j \in S : <<i, j>> \in R <=> Before(a, i, j)
  OBVIOUS
<1>5. \A i, j \in S : Before(a, i, j) \/ Before(a, j, i)
  BY <1>3 DEF Before
<1>6. \A i, j, k \in S : Before(a, i, j) /\ Before(a, j, k) => Before(a, i, k)
  BY <1>3 DEF Before
<1>7. \E i \in S : \A j \in S : <<i, j>> \in R
  <2> HIDE DEF R, S
  <2>1. S # {}
    BY DEF S
  <2>2. QED
    BY <1>2, <1>4, <1>5, <1>6, <2>1, FiniteHasLeast
<1>8. \E i \in S : \A j \in S : Before(a, i, j)
  BY <1>4, <1>7
<1>9. QED
  BY <1>8 DEF Candidate

\* The score is a number.
LEMMA ScoreIsNumber ==
    ASSUME TypeOK, NEW j \in Jobs
    PROVE  Score(j) \in Int
<1>1. age[j] \in Int /\ AgingRate \in Int /\ AgingCap \in Int /\ PriorityOf[j] \in Int
  BY JobAttributes, Bounds DEF TypeOK
<1>2. age[j] * AgingRate \in Int
  BY <1>1
<1>3. QED
  BY <1>1, <1>2 DEF Score, Least

\* max() of the candidates is the candidate of a contending application.
LEMMA WinnerContends ==
    ASSUME TypeOK, Contenders # {}
    PROVE  /\ Winner \in Contenders /\ Winner \in Apps
           /\ Candidate(Winner) \in Runnable(Winner)
<1> DEFINE S == Contenders
           R == {p \in S \X S : Beats(p[1], p[2])}
<1>1. rotation \in Seq(Apps)
  BY DEF TypeOK
<1>2. S \subseteq Apps /\ S \subseteq ToSet(rotation) /\ IsFiniteSet(S)
  <2>1. ToSet(rotation) \subseteq Apps /\ IsFiniteSet(ToSet(rotation))
    BY <1>1, SequenceElements
  <2>2. S \subseteq ToSet(rotation)
    BY DEF Contenders
  <2>3. QED
    BY <2>1, <2>2, FS_Subset
<1>3. ASSUME NEW a \in S
      PROVE  Score(Candidate(a)) \in Int /\ Position(rotation, a) \in Int
  <2>1. Candidate(a) \in Runnable(a)
    BY <1>2, CandidateIsRunnable DEF Contenders
  <2>2. Candidate(a) \in Jobs
    <3>1. ToSet(Live(a)) \subseteq Jobs
      BY <1>2, LiveJobs, SequenceElements
    <3>2. QED
      BY <2>1, <3>1 DEF Runnable
  <2>3. QED
    BY <1>1, <1>2, <2>2, ScoreIsNumber, PositionIsPlace
<1>4. \A a, b \in S : <<a, b>> \in R <=> Beats(a, b)
  OBVIOUS
<1>5. \A a, b \in S : Beats(a, b) \/ Beats(b, a)
  BY <1>3 DEF Beats
<1>6. \A a, b, c \in S : Beats(a, b) /\ Beats(b, c) => Beats(a, c)
  BY <1>3 DEF Beats
<1>7. \E a \in S : \A b \in S : <<a, b>> \in R
  <2> HIDE DEF R, S
  <2>1. S # {}
    BY DEF S
  <2>2. QED
    BY <1>2, <1>4, <1>5, <1>6, <2>1, FiniteHasLeast
<1>8. \E a \in S : \A b \in S : Beats(a, b)
  BY <1>4, <1>7
<1>9. Winner \in S
  BY <1>8 DEF Winner
<1>10. QED
  BY <1>2, <1>9, CandidateIsRunnable DEF Contenders

\* The time to wake at is the earliest of the instants a pass has seen.
LEMMA WakeAtIsEarliest ==
    ASSUME TypeOK
    PROVE  /\ WakeAt \in 0 .. Far
           /\ \A t \in WakeTimes : WakeAt <= t
           /\ WakeAt = Far \/ WakeAt \in WakeTimes
<1> DEFINE S == WakeTimes
           R == {p \in S \X S : p[1] <= p[2]}
<1>1. Far \in Nat
  BY Bounds DEF Far
<1>2. S \subseteq 0 .. Far
  <2>1. \A a \in ToSet(rotation) : ToSet(Live(a)) \subseteq Jobs
    BY LiveJobs, SequenceElements DEF TypeOK
  <2>2. \A j \in Jobs : ttl[j] \in 0 .. Far /\ cool[KeyOf[j]] \in 0 .. Far
    BY <1>1, JobAttributes, Bounds DEF TypeOK, Far
  <2>3. QED
    BY <2>1, <2>2 DEF WakeTimes
<1>3. IsFiniteSet(S)
  <2>1. 0 \in Int /\ Far \in Int
    BY <1>1
  <2>2. IsFiniteSet(0 .. Far)
    BY <2>1, FS_Interval
  <2>3. QED
    BY <1>2, <2>2, FS_Subset
<1>4. CASE S = {}
  BY <1>1, <1>4 DEF WakeAt
<1>5. CASE S # {}
  <2>1. \A t \in S : t \in Int
    BY <1>2
  <2>2. /\ \A t, u \in S : <<t, u>> \in R \/ <<u, t>> \in R
        /\ \A t, u, v \in S : <<t, u>> \in R /\ <<u, v>> \in R => <<t, v>> \in R
    BY <2>1
  <2>3. \E t \in S : \A u \in S : <<t, u>> \in R
    <3> HIDE DEF R, S
    <3>1. QED
      BY <1>3, <1>5, <2>2, FiniteHasLeast
  <2>4. \E t \in S : \A u \in S : t <= u
    BY <2>3
  <2>5. WakeAt \in S /\ \A u \in S : WakeAt <= u
    BY <1>5, <2>4 DEF WakeAt, Earliest
  <2>6. QED
    BY <1>2, <2>5
<1>6. QED
  BY <1>4, <1>5

-----------------------------------------------------------------------------
(* The parts that many actions share. *)

\* The saturated age and the horizon are numbers.
LEMMA ClockBounds ==
    /\ AgeCap \in Nat /\ Far \in Nat /\ Horizon \in Nat /\ Far = Horizon + 1
    /\ Far \in 0 .. Far /\ 0 \in 0 .. Far /\ 0 \in 0 .. AgeCap /\ 0 \in 0 .. Horizon
    /\ \A n \in 0 .. Far : Countdown(n) \in 0 .. Far
    /\ \A n \in 0 .. Horizon : Countdown(n) \in 0 .. Horizon
<1>1. Far \in Nat /\ Horizon \in Nat /\ Far = Horizon + 1
  BY Bounds DEF Far
<1>2. AgeCap \in Nat
  <2>1. AgingCap + AgingRate - 1 \in Nat /\ AgingRate \in Nat \ {0}
    BY Bounds
  <2>2. \A m \in Nat : \A n \in Nat \ {0} : m \div n \in Nat
    OBVIOUS
  <2>3. QED
    BY <2>1, <2>2 DEF AgeCap
<1>3. QED
  BY <1>1, <1>2 DEF Countdown

\* notify_all leaves nobody waiting and moves nobody else.
LEMMA NotifyAllWakes ==
    ASSUME TypeOK, NotifyAll
    PROVE  /\ pc' \in [Workers -> {"scan", "wait", "exit"} \cup Holding]
           /\ timer' \in [Workers -> 0 .. Far]
           /\ \A w \in Workers : /\ pc'[w] # "wait"
                                 /\ pc[w] # "wait" => pc'[w] = pc[w]
                                 /\ pc[w] = "wait" => pc'[w] = "scan"
BY ClockBounds DEF TypeOK, NotifyAll, Holding

\* The clocks of a finished job are set back.
LEMMA ForgetTypes ==
    ASSUME TypeOK, NEW S, Forget(S)
    PROVE  age' \in [Jobs -> 0 .. AgeCap] /\ ttl' \in [Jobs -> 0 .. Far]
BY ClockBounds DEF TypeOK, Forget

\* A walk over all queues that keeps the jobs of S, and the rotation entries
\* of the applications that still have one, keeps the two structures in step.
LEMMA Requeue ==
    ASSUME TypeOK, RotationIndex, NEW S, NEW kept,
           kept = [a \in Apps |-> Keep(queue[a], S)],
           queue' = kept,
           rotation' = Keep(rotation, {a \in Apps : kept[a] # << >>}),
           \A j \in Jobs : st'[j] = "queued" <=> st[j] = "queued" /\ j \in S
    PROVE  /\ queue' \in [Apps -> Seq(Jobs)] /\ rotation' \in Seq(Apps)
           /\ RotationIndex'
<1>1. \A a \in Apps : queue[a] \in Seq(Jobs)
  BY DEF TypeOK
<1>2. ASSUME NEW a \in Apps
      PROVE  /\ kept[a] \in Seq(Jobs)
             /\ ToSet(kept[a]) = Queued(a) \cap S
             /\ IsInjective(kept[a])
  <2>1. IsInjective(queue[a])
    BY DEF RotationIndex
  <2>2. QED
    BY <1>1, <2>1, KeepType, KeepElements, KeepInjective DEF Queued
<1>3. queue' \in [Apps -> Seq(Jobs)]
  BY <1>2
<1>4. /\ rotation' \in Seq(Apps)
      /\ ToSet(rotation') = ToSet(rotation) \cap {a \in Apps : kept[a] # << >>}
      /\ IsInjective(rotation')
  <2>1. rotation \in Seq(Apps) /\ IsInjective(rotation)
    BY DEF TypeOK, RotationIndex
  <2>2. QED
    BY <2>1, KeepType, KeepElements, KeepInjective
<1>5. ASSUME NEW a \in Apps, kept[a] # << >>
      PROVE  queue[a] # << >>
  <2>1. ToSet(kept[a]) # {}
    BY <1>2, <1>5, SequenceElements
  <2>2. ToSet(queue[a]) # {}
    BY <1>2, <2>1 DEF Queued
  <2>3. QED
    BY <1>1, <2>2, SequenceElements
<1>6. ToSet(rotation') = {a \in Apps : queue'[a] # << >>}
  <2>1. ToSet(rotation) = {a \in Apps : queue[a] # << >>}
    BY DEF RotationIndex
  <2>2. QED
    BY <1>4, <1>5, <2>1
<1>7. ASSUME NEW a \in Apps
      PROVE  ToSet(queue'[a]) = {j \in Jobs : AppOf[j] = a /\ st'[j] = "queued"}
  <2>1. Queued(a) = {j \in Jobs : AppOf[j] = a /\ st[j] = "queued"}
    BY DEF RotationIndex
  <2>2. QED
    BY <1>2, <2>1
<1>8. QED
  BY <1>2, <1>3, <1>4, <1>6, <1>7 DEF RotationIndex, Queued

\* The job a pass selects is queued, before its deadline, and its model free.
LEMMA Selected ==
    ASSUME Index, Contenders # {}
    PROVE  /\ Winner \in Apps /\ Candidate(Winner) \in Jobs
           /\ st[Candidate(Winner)] = "queued" /\ AppOf[Candidate(Winner)] = Winner
           /\ ttl[Candidate(Winner)] > 0
           /\ KeyOf[Candidate(Winner)] \in Keys \ active
<1> DEFINE a == Winner
           j == Candidate(Winner)
<1>1. TypeOK /\ RotationIndex
  BY DEF Index, IndexesAgree
<1>2. a \in Apps /\ j \in Runnable(a)
  BY <1>1, WinnerContends
<1>3. j \in ToSet(Live(a)) /\ KeyOf[j] \notin active
  BY <1>2 DEF Runnable
<1>4. j \in Queued(a) /\ ttl[j] > 0
  BY <1>1, <1>2, <1>3, LiveJobs
<1>5. j \in Jobs /\ AppOf[j] = a /\ st[j] = "queued"
  BY <1>1, <1>2, <1>4 DEF RotationIndex
<1>6. QED
  BY <1>2, <1>3, <1>4, <1>5, JobAttributes

\* A selection takes the job out of its queue and moves its application to
\* the end of the rotation, or out of it with its last job.
LEMMA PickReindexes ==
    ASSUME Index, NEW w \in Workers, Pick(w)
    PROVE  /\ queue' \in [Apps -> Seq(Jobs)] /\ rotation' \in Seq(Apps)
           /\ RotationIndex'
<1> DEFINE a == Winner
           j == Candidate(Winner)
           left == Keep(Live(a), Jobs \ {j})
           others == Keep(LiveRotation, Apps \ {a})
           waiting(b) == {i \in Queued(b) : ttl[i] > 0 /\ i # j}
<1>1. TypeOK /\ RotationIndex
  BY DEF Index, IndexesAgree
<1>2. /\ a \in Apps /\ j \in Jobs
      /\ st[j] = "queued" /\ AppOf[j] = a /\ ttl[j] > 0
  BY Selected DEF Pick
<1>3. /\ queue' = [b \in Apps |-> IF b = a THEN left ELSE Live(b)]
      /\ rotation' = IF left = << >> THEN others ELSE Append(others, a)
      /\ st' = [i \in Jobs |-> IF i = j THEN "held"
                               ELSE IF i \in Expired THEN "error" ELSE st[i]]
  BY DEF Pick
<1>4. \A b \in Apps : /\ IsInjective(queue[b])
                      /\ Queued(b) = {i \in Jobs : AppOf[i] = b /\ st[i] = "queued"}
  BY <1>1 DEF RotationIndex
<1>5. /\ left \in Seq(Jobs) /\ IsInjective(left)
      /\ ToSet(left) = waiting(a)
  <2>1. /\ Live(a) \in Seq(Jobs) /\ IsInjective(Live(a))
        /\ ToSet(Live(a)) = {i \in Queued(a) : ttl[i] > 0}
    BY <1>1, <1>2, <1>4, LiveJobs
  <2>2. /\ left \in Seq(Jobs) /\ IsInjective(left)
        /\ ToSet(left) = ToSet(Live(a)) \cap (Jobs \ {j})
    BY <2>1, KeepType, KeepElements, KeepInjective
  <2>3. QED
    BY <1>2, <1>4, <2>1, <2>2
<1>6. ASSUME NEW b \in Apps
      PROVE  /\ queue'[b] \in Seq(Jobs) /\ IsInjective(queue'[b])
             /\ ToSet(queue'[b]) = waiting(b)
  <2>1. CASE b = a
    BY <1>2, <1>3, <1>5, <2>1
  <2>2. CASE b # a
    <3>1. queue'[b] = Live(b)
      BY <1>3, <2>2
    <3>2. j \notin Queued(b)
      BY <1>2, <1>4, <2>2
    <3>3. QED
      BY <1>1, <1>4, <3>1, <3>2, LiveJobs
  <2>3. QED
    BY <2>1, <2>2
<1>7. queue' \in [Apps -> Seq(Jobs)]
  BY <1>3, <1>6
<1>8. /\ others \in Seq(Apps) /\ IsInjective(others)
      /\ ToSet(others) = {b \in Apps : queue[b] # << >> /\ Live(b) # << >> /\ b # a}
  <2>1. /\ LiveRotation \in Seq(Apps) /\ IsInjective(LiveRotation)
        /\ ToSet(LiveRotation) = {b \in ToSet(rotation) : Live(b) # << >>}
    BY <1>1, LiveRotationApps DEF RotationIndex
  <2>2. ToSet(rotation) = {b \in Apps : queue[b] # << >>}
    BY <1>1 DEF RotationIndex
  <2>3. QED
    BY <2>1, <2>2, KeepType, KeepElements, KeepInjective
<1>9. \A b \in Apps : Live(b) # << >> => queue[b] # << >>
  <2> SUFFICES ASSUME NEW b \in Apps, Live(b) # << >> PROVE queue[b] # << >>
    OBVIOUS
  <2>1. Queued(b) # {}
    BY <1>1, LiveJobs
  <2>2. QED
    BY <1>1, <2>1, SequenceElements DEF Queued, TypeOK
<1>10. \A b \in Apps : queue'[b] # << >> <=> IF b = a THEN left # << >> ELSE Live(b) # << >>
  BY <1>3
<1>11. /\ rotation' \in Seq(Apps) /\ IsInjective(rotation')
       /\ ToSet(rotation') = {b \in Apps : queue'[b] # << >>}
  <2> HIDE DEF left, others, a, j
  <2>1. CASE left = << >>
    BY <1>3, <1>8, <1>9, <1>10, <2>1
  <2>2. CASE left # << >>
    <3>1. rotation' = Append(others, a) /\ a \notin ToSet(others)
      BY <1>3, <1>8, <2>2
    <3>2. /\ rotation' \in Seq(Apps) /\ IsInjective(rotation')
          /\ ToSet(rotation') = ToSet(others) \cup {a}
      BY <1>2, <1>8, <3>1, AppendElements
    <3>3. QED
      BY <1>2, <1>8, <1>9, <1>10, <2>2, <3>2
  <2>3. QED
    BY <2>1, <2>2
<1>12. ASSUME NEW b \in Apps
       PROVE  waiting(b) = {i \in Jobs : AppOf[i] = b /\ st'[i] = "queued"}
  <2>1. ASSUME NEW i \in Jobs
        PROVE  st'[i] = "queued" <=> i # j /\ st[i] = "queued" /\ ttl[i] > 0
    <3>1. ttl[i] = 0 \/ ttl[i] > 0
      BY <1>1, ClockBounds DEF TypeOK
    <3>2. ~(ttl[i] = 0 /\ ttl[i] > 0)
      OBVIOUS
    <3>3. QED
      BY <1>3, <3>1, <3>2 DEF Expired
  <2>2. QED
    BY <1>4, <2>1
<1>13. QED
  BY <1>6, <1>7, <1>11, <1>12 DEF RotationIndex, Queued

\* A step that moves no worker in or out of the part of _run outside of the
\* lock, and no job in or out of its hands, keeps the keys and the hands.
LEMMA PoolUntouched ==
    ASSUME Index, held' = held, active' = active,
           \A w \in Workers :
              /\ pc'[w] \in Holding <=> pc[w] \in Holding
              /\ pc'[w] \in {"check", "execute"} <=> pc[w] \in {"check", "execute"},
           \A j \in Jobs : st'[j] = "held" <=> st[j] = "held"
    PROVE  KeyExclusive' /\ HeldByOne'
<1>1. KeyExclusive /\ HeldByOne
  BY DEF Index, IndexesAgree
<1>2. {w \in Workers : pc'[w] \in Holding} = {w \in Workers : pc[w] \in Holding}
  OBVIOUS
<1>3. KeyExclusive'
  BY <1>1, <1>2 DEF KeyExclusive
<1>4. HeldByOne'
  BY <1>1 DEF HeldByOne
<1>5. QED
  BY <1>3, <1>4

\* The same after a notify_all.
LEMMA PoolNotified ==
    ASSUME Index, NotifyAll, held' = held, active' = active,
           \A j \in Jobs : st'[j] = "held" <=> st[j] = "held"
    PROVE  KeyExclusive' /\ HeldByOne'
<1>1. \A w \in Workers :
         /\ pc'[w] \in Holding <=> pc[w] \in Holding
         /\ pc'[w] \in {"check", "execute"} <=> pc[w] \in {"check", "execute"}
  BY NotifyAllWakes DEF Index, Holding
<1>2. QED
  BY <1>1, PoolUntouched

-----------------------------------------------------------------------------
(* The callers. *)

\* submit.
LEMMA SubmitKeeps ==
    ASSUME Index, NEW j \in Jobs, Submit(j)
    PROVE  Index'
<1> DEFINE a == AppOf[j]
<1>1. TypeOK /\ RotationIndex
  BY DEF Index, IndexesAgree
<1>2. /\ a \in Apps /\ st[j] = "free"
      /\ queue' = [queue EXCEPT ![a] = Append(queue[a], j)]
      /\ rotation' = IF queue[a] = << >> THEN Append(rotation, a) ELSE rotation
      /\ st' = [st EXCEPT ![j] = "queued"]
      /\ NotifyAll
      /\ held' = held /\ active' = active /\ stopping' = stopping /\ cool' = cool
  BY JobAttributes DEF Submit
<1>3. \A b \in Apps : /\ queue[b] \in Seq(Jobs) /\ IsInjective(queue[b])
                      /\ Queued(b) = {i \in Jobs : AppOf[i] = b /\ st[i] = "queued"}
  BY <1>1 DEF RotationIndex, TypeOK
<1>4. /\ rotation \in Seq(Apps) /\ IsInjective(rotation)
      /\ ToSet(rotation) = {b \in Apps : queue[b] # << >>}
  BY <1>1 DEF RotationIndex, TypeOK
<1>5. /\ queue'[a] \in Seq(Jobs) /\ queue'[a] # << >> /\ IsInjective(queue'[a])
      /\ ToSet(queue'[a]) = Queued(a) \cup {j}
  <2>1. j \notin Queued(a)
    BY <1>2, <1>3
  <2>2. queue'[a] = Append(queue[a], j)
    BY <1>1, <1>2 DEF TypeOK
  <2>3. QED
    BY <1>2, <1>3, <2>1, <2>2, AppendElements DEF Queued
<1>6. \A b \in Apps \ {a} : queue'[b] = queue[b]
  BY <1>1, <1>2 DEF TypeOK
<1>7. queue' \in [Apps -> Seq(Jobs)]
  BY <1>1, <1>2, <1>5 DEF TypeOK
<1>8. /\ rotation' \in Seq(Apps) /\ IsInjective(rotation')
      /\ ToSet(rotation') = {b \in Apps : queue'[b] # << >>}
  <2>1. CASE queue[a] = << >>
    <3>1. rotation' = Append(rotation, a) /\ a \notin ToSet(rotation)
      BY <1>2, <1>4, <2>1
    <3>2. /\ rotation' \in Seq(Apps) /\ IsInjective(rotation')
          /\ ToSet(rotation') = ToSet(rotation) \cup {a}
      BY <1>2, <1>4, <3>1, AppendElements
    <3>3. QED
      BY <1>2, <1>4, <1>5, <1>6, <3>2
  <2>2. CASE queue[a] # << >>
    BY <1>2, <1>4, <1>5, <1>6, <2>2
  <2>3. QED
    BY <2>1, <2>2
<1>9. RotationIndex'
  <2>1. ASSUME NEW b \in Apps
        PROVE  ToSet(queue'[b]) = {i \in Jobs : AppOf[i] = b /\ st'[i] = "queued"}
    BY <1>1, <1>2, <1>3, <1>5, <1>6 DEF TypeOK, Queued
  <2>2. \A b \in Apps : IsInjective(queue'[b])
    BY <1>3, <1>5, <1>6
  <2>3. QED
    BY <1>8, <2>1, <2>2 DEF RotationIndex, Queued
<1>10. KeyExclusive' /\ HeldByOne'
  <2>1. \A i \in Jobs : st'[i] = "held" <=> st[i] = "held"
    BY <1>1, <1>2 DEF TypeOK
  <2>2. QED
    BY <1>2, <2>1, PoolNotified
<1>11. TypeOK'
  <2>1. age' \in [Jobs -> 0 .. AgeCap] /\ ttl' \in [Jobs -> 0 .. Far]
    <3>1. PICK t \in Ttls : ttl' = [ttl EXCEPT ![j] = t]
      BY DEF Submit
    <3>2. t \in 0 .. Far
      BY Bounds DEF Far
    <3>3. age' = [age EXCEPT ![j] = 0] /\ 0 \in 0 .. AgeCap
      BY ClockBounds DEF Submit
    <3>4. QED
      BY <1>1, <3>1, <3>2, <3>3 DEF TypeOK
  <2>2. st' \in [Jobs -> {"free", "queued", "held"} \cup Outcomes]
    BY <1>1, <1>2 DEF TypeOK
  <2>3. QED
    BY <1>1, <1>2, <1>7, <1>8, <2>1, <2>2, NotifyAllWakes DEF TypeOK
<1>12. QED
  BY <1>9, <1>10, <1>11 DEF Index, IndexesAgree

\* cancel_client.
LEMMA CancelKeeps ==
    ASSUME Index, NEW c \in Clients, CancelClient(c)
    PROVE  Index'
<1> DEFINE mine == {j \in Jobs : ClientOf[j] = c /\ st[j] = "queued"}
           kept == [a \in Apps |-> Keep(queue[a], Jobs \ mine)]
<1>1. TypeOK /\ RotationIndex
  BY DEF Index, IndexesAgree
<1>2. /\ queue' = kept /\ rotation' = Keep(rotation, {a \in Apps : kept[a] # << >>})
      /\ st' = [j \in Jobs |-> IF j \in mine THEN "error" ELSE st[j]]
      /\ Forget(mine) /\ NotifyAll
      /\ UNCHANGED <<active, stopping, held, cool>>
  BY DEF CancelClient
<1>3. \A j \in Jobs : /\ st'[j] = "queued" <=> st[j] = "queued" /\ j \in Jobs \ mine
                      /\ st'[j] = "held" <=> st[j] = "held"
  BY <1>2
<1>4. /\ queue' \in [Apps -> Seq(Jobs)] /\ rotation' \in Seq(Apps)
      /\ RotationIndex'
  <2> HIDE DEF mine
  <2>1. QED
    BY <1>1, <1>2, <1>3, Requeue
<1>5. KeyExclusive' /\ HeldByOne'
  BY <1>2, <1>3, PoolNotified
<1>6. TypeOK'
  <2>1. st' \in [Jobs -> {"free", "queued", "held"} \cup Outcomes]
    BY <1>1, <1>2 DEF TypeOK, Outcomes
  <2>2. age' \in [Jobs -> 0 .. AgeCap] /\ ttl' \in [Jobs -> 0 .. Far]
    BY <1>1, <1>2, ForgetTypes
  <2>3. QED
    BY <1>1, <1>2, <1>4, <2>1, <2>2, NotifyAllWakes DEF TypeOK
<1>7. QED
  BY <1>4, <1>5, <1>6 DEF Index, IndexesAgree

\* close, its locked half.
LEMMA CloseKeeps ==
    ASSUME Index, Close
    PROVE  Index'
<1>1. TypeOK /\ RotationIndex
  BY DEF Index, IndexesAgree
<1>2. /\ queue' = [a \in Apps |-> << >>] /\ rotation' = << >>
      /\ st' = [j \in Jobs |-> IF st[j] = "queued" THEN "error" ELSE st[j]]
      /\ Forget({j \in Jobs : st[j] = "queued"}) /\ NotifyAll
      /\ stopping' = TRUE /\ UNCHANGED <<active, held, cool>>
  BY DEF Close
<1>3. \A j \in Jobs : st'[j] # "queued" /\ (st'[j] = "held" <=> st[j] = "held")
  BY <1>2
<1>4. ToSet(<< >>) = {} /\ IsInjective(<< >>)
  BY DEF ToSet, IsInjective
<1>5. RotationIndex'
  BY <1>2, <1>3, <1>4 DEF RotationIndex, Queued
<1>6. KeyExclusive' /\ HeldByOne'
  BY <1>2, <1>3, PoolNotified
<1>7. TypeOK'
  <2>1. st' \in [Jobs -> {"free", "queued", "held"} \cup Outcomes]
    BY <1>1, <1>2 DEF TypeOK, Outcomes
  <2>2. age' \in [Jobs -> 0 .. AgeCap] /\ ttl' \in [Jobs -> 0 .. Far]
    BY <1>1, <1>2, ForgetTypes
  <2>3. queue' \in [Apps -> Seq(Jobs)] /\ rotation' \in Seq(Apps)
    BY <1>2
  <2>4. QED
    BY <1>1, <1>2, <2>1, <2>2, <2>3, NotifyAllWakes DEF TypeOK
<1>8. QED
  BY <1>5, <1>6, <1>7 DEF Index, IndexesAgree

\* The caller takes an outcome.
LEMMA CollectKeeps ==
    ASSUME Index, NEW j \in Jobs, Collect(j)
    PROVE  Index'
<1>1. TypeOK /\ RotationIndex
  BY DEF Index, IndexesAgree
<1>2. /\ st[j] \in Outcomes /\ st' = [st EXCEPT ![j] = "free"]
      /\ UNCHANGED <<queue, rotation, active, stopping, pc, held, timer, age, ttl, cool>>
  BY DEF Collect, poolVars, clocks
<1>3. \A i \in Jobs : /\ st'[i] = "held" <=> st[i] = "held"
                      /\ st'[i] = "queued" <=> st[i] = "queued"
  BY <1>1, <1>2 DEF TypeOK, Outcomes
<1>4. RotationIndex'
  BY <1>1, <1>2, <1>3 DEF RotationIndex, Queued
<1>5. KeyExclusive' /\ HeldByOne'
  BY <1>2, <1>3, PoolUntouched
<1>6. TypeOK'
  BY <1>1, <1>2 DEF TypeOK
<1>7. QED
  BY <1>4, <1>5, <1>6 DEF Index, IndexesAgree

-----------------------------------------------------------------------------
(* The worker loop. *)

\* A job is before its deadline, or expired.
LEMMA Deadlines ==
    ASSUME TypeOK, NEW j \in Jobs
    PROVE  ttl[j] > 0 <=> ttl[j] # 0
BY ClockBounds DEF TypeOK

\* A pass that selects a job.
LEMMA PickKeeps ==
    ASSUME Index, NEW w \in Workers, Pick(w)
    PROVE  Index'
<1> DEFINE j == Candidate(Winner)
<1>1. TypeOK /\ KeyExclusive /\ HeldByOne
  BY DEF Index, IndexesAgree
<1>2. j \in Jobs /\ st[j] = "queued" /\ KeyOf[j] \in Keys \ active /\ j # NoJob
  BY Selected, JobAttributes DEF Pick
<1>3. /\ pc[w] = "scan"
      /\ active' = active \cup {KeyOf[j]}
      /\ held' = [held EXCEPT ![w] = j]
      /\ pc' = [pc EXCEPT ![w] = "check"]
      /\ st' = [i \in Jobs |-> IF i = j THEN "held"
                               ELSE IF i \in Expired THEN "error" ELSE st[i]]
      /\ Forget(Expired) /\ UNCHANGED <<stopping, timer, cool>>
  BY DEF Pick
<1>4. /\ held'[w] = j /\ pc'[w] = "check"
      /\ \A v \in Workers \ {w} : held'[v] = held[v] /\ pc'[v] = pc[v]
  BY <1>1, <1>3 DEF TypeOK
<1>5. pc[w] \notin Holding
  BY <1>3 DEF Holding
<1>6. KeyExclusive'
  <2> DEFINE busy == {v \in Workers : pc[v] \in Holding}
  <2>1. {v \in Workers : pc'[v] \in Holding} = busy \cup {w}
    BY <1>4 DEF Holding
  <2>2. \A v \in busy : v # w /\ KeyOf[held[v]] \in active /\ held'[v] = held[v]
    BY <1>1, <1>4, <1>5 DEF KeyExclusive
  <2>3. active' = {KeyOf[held'[v]] : v \in busy \cup {w}}
    BY <1>1, <1>3, <1>4, <2>2 DEF KeyExclusive
  <2>4. \A u, v \in busy \cup {w} : u # v => KeyOf[held'[u]] # KeyOf[held'[v]]
    BY <1>1, <1>2, <1>4, <2>2 DEF KeyExclusive
  <2>5. QED
    BY <2>1, <2>3, <2>4 DEF KeyExclusive
<1>7. HeldByOne'
  <2>1. \A v \in Workers : held'[v] # NoJob <=> pc'[v] \in Holding
    BY <1>1, <1>2, <1>4 DEF HeldByOne, Holding
  <2>2. ASSUME NEW i \in Jobs
        PROVE  st'[i] = "held" <=> i = j \/ st[i] = "held"
    BY <1>3 DEF Expired
  <2>3. ASSUME NEW i \in Jobs
        PROVE  (\E v \in Workers : pc'[v] \in {"check", "execute"} /\ held'[v] = i)
               <=> \/ i = j
                   \/ \E v \in Workers : pc[v] \in {"check", "execute"} /\ held[v] = i
    BY <1>3, <1>4
  <2>4. QED
    BY <1>1, <2>1, <2>2, <2>3 DEF HeldByOne
<1>8. TypeOK'
  <2>1. st' \in [Jobs -> {"free", "queued", "held"} \cup Outcomes]
    BY <1>1, <1>3 DEF TypeOK, Outcomes
  <2>2. age' \in [Jobs -> 0 .. AgeCap] /\ ttl' \in [Jobs -> 0 .. Far]
    BY <1>1, <1>3, ForgetTypes
  <2>3. queue' \in [Apps -> Seq(Jobs)] /\ rotation' \in Seq(Apps)
    BY PickReindexes
  <2>4. /\ active' \subseteq Keys
        /\ pc' \in [Workers -> {"scan", "wait", "exit"} \cup Holding]
        /\ held' \in [Workers -> Jobs \cup {NoJob}]
    BY <1>1, <1>2, <1>3 DEF TypeOK, Holding
  <2>5. QED
    BY <1>1, <1>3, <2>1, <2>2, <2>3, <2>4 DEF TypeOK
<1>9. QED
  BY <1>6, <1>7, <1>8, PickReindexes DEF Index, IndexesAgree

\* A pass that selects none.
LEMMA WaitKeeps ==
    ASSUME Index, NEW w \in Workers, Wait(w)
    PROVE  Index'
<1> DEFINE S == {j \in Jobs : ttl[j] > 0}
           kept == [a \in Apps |-> Keep(queue[a], S)]
<1>1. TypeOK /\ RotationIndex
  BY DEF Index, IndexesAgree
<1>2. /\ pc[w] = "scan"
      /\ queue' = [a \in Apps |-> Live(a)] /\ rotation' = LiveRotation
      /\ st' = [i \in Jobs |-> IF i \in Expired THEN "error" ELSE st[i]]
      /\ Forget(Expired)
      /\ timer' = [timer EXCEPT ![w] = WakeAt]
      /\ pc' = [pc EXCEPT ![w] = "wait"]
      /\ UNCHANGED <<active, stopping, held, cool>>
  BY DEF Wait
<1>3. \A i \in Jobs : /\ st'[i] = "queued" <=> st[i] = "queued" /\ i \in S
                      /\ st'[i] = "held" <=> st[i] = "held"
  BY <1>1, <1>2, Deadlines DEF Expired
<1>4. queue' = kept /\ rotation' = Keep(rotation, {a \in Apps : kept[a] # << >>})
  BY <1>2 DEF Live, LiveRotation
<1>5. /\ queue' \in [Apps -> Seq(Jobs)] /\ rotation' \in Seq(Apps)
      /\ RotationIndex'
  <2> HIDE DEF S
  <2>1. QED
    BY <1>1, <1>3, <1>4, Requeue
<1>6. KeyExclusive' /\ HeldByOne'
  <2>1. \A v \in Workers : pc'[v] = IF v = w THEN "wait" ELSE pc[v]
    BY <1>1, <1>2 DEF TypeOK
  <2>2. \A v \in Workers :
           /\ pc'[v] \in Holding <=> pc[v] \in Holding
           /\ pc'[v] \in {"check", "execute"} <=> pc[v] \in {"check", "execute"}
    BY <1>2, <2>1 DEF Holding
  <2>3. QED
    BY <1>2, <1>3, <2>2, PoolUntouched
<1>7. TypeOK'
  <2>1. st' \in [Jobs -> {"free", "queued", "held"} \cup Outcomes]
    BY <1>1, <1>2 DEF TypeOK, Outcomes
  <2>2. age' \in [Jobs -> 0 .. AgeCap] /\ ttl' \in [Jobs -> 0 .. Far]
    BY <1>1, <1>2, ForgetTypes
  <2>3. timer' \in [Workers -> 0 .. Far]
    BY <1>1, <1>2, WakeAtIsEarliest DEF TypeOK
  <2>4. pc' \in [Workers -> {"scan", "wait", "exit"} \cup Holding]
    BY <1>1, <1>2 DEF TypeOK, Holding
  <2>5. QED
    BY <1>1, <1>2, <1>5, <2>1, <2>2, <2>3, <2>4 DEF TypeOK
<1>8. QED
  BY <1>5, <1>6, <1>7 DEF Index, IndexesAgree

\* The end of the loop and of a wait, and the passing of time.
LEMMA IdleKeeps ==
    ASSUME Index, NEW w \in Workers, Exit(w) \/ Timeout(w)
    PROVE  Index'
<1>1. TypeOK /\ RotationIndex
  BY DEF Index, IndexesAgree
<1>2. /\ pc[w] \in {"scan", "wait"}
      /\ pc' = [pc EXCEPT ![w] = "exit"] \/ pc' = [pc EXCEPT ![w] = "scan"]
      /\ timer' = timer \/ timer' = [timer EXCEPT ![w] = Far]
      /\ UNCHANGED <<queue, rotation, active, stopping, held, st, age, ttl, cool>>
  BY DEF Exit, Timeout, clocks
<1>3. \A v \in Workers :
         /\ pc'[v] \in Holding <=> pc[v] \in Holding
         /\ pc'[v] \in {"check", "execute"} <=> pc[v] \in {"check", "execute"}
  BY <1>1, <1>2 DEF Holding, TypeOK
<1>4. KeyExclusive' /\ HeldByOne'
  BY <1>2, <1>3, PoolUntouched
<1>5. RotationIndex'
  BY <1>1, <1>2 DEF RotationIndex, Queued
<1>6. TypeOK'
  <2>1. timer' \in [Workers -> 0 .. Far]
    <3>1. timer \in [Workers -> 0 .. Far] /\ Far \in 0 .. Far
      BY <1>1, ClockBounds DEF TypeOK
    <3>2. QED
      BY <1>2, <3>1
  <2>2. pc' \in [Workers -> {"scan", "wait", "exit"} \cup Holding]
    BY <1>1, <1>2 DEF TypeOK
  <2>3. QED
    BY <1>1, <1>2, <2>1, <2>2 DEF TypeOK
<1>7. QED
  BY <1>4, <1>5, <1>6 DEF Index, IndexesAgree

\* A unit of time.
LEMMA TickKeeps ==
    ASSUME Index, Tick
    PROVE  Index'
<1>1. TypeOK /\ RotationIndex
  BY DEF Index, IndexesAgree
<1>2. UNCHANGED <<queue, rotation, active, stopping, pc, held, st>>
  BY DEF Tick
<1>3. KeyExclusive' /\ HeldByOne'
  BY <1>2, PoolUntouched
<1>4. RotationIndex'
  BY <1>1, <1>2 DEF RotationIndex, Queued
<1>5. TypeOK'
  <2>1. age' \in [Jobs -> 0 .. AgeCap]
    BY <1>1, ClockBounds DEF TypeOK, Tick, Least
  <2>2. ttl' \in [Jobs -> 0 .. Far] /\ cool' \in [Keys -> 0 .. Horizon]
        /\ timer' \in [Workers -> 0 .. Far]
    BY <1>1, ClockBounds DEF TypeOK, Tick
  <2>3. QED
    BY <1>1, <1>2, <2>1, <2>2 DEF TypeOK
<1>6. QED
  BY <1>3, <1>4, <1>5 DEF Index, IndexesAgree

\* What a worker outside of the lock holds: a job, alone, with its key.
LEMMA InHands ==
    ASSUME Index, NEW w \in Workers, pc[w] \in Holding
    PROVE  /\ held[w] \in Jobs /\ KeyOf[held[w]] \in active
           /\ pc[w] # "release" => st[held[w]] = "held"
           /\ \A v \in Workers \ {w} :
                 pc[v] \in Holding => /\ held[v] # held[w]
                                      /\ KeyOf[held[v]] # KeyOf[held[w]]
<1>1. TypeOK /\ KeyExclusive /\ HeldByOne
  BY DEF Index, IndexesAgree
<1>2. held[w] \in Jobs
  BY <1>1 DEF TypeOK, HeldByOne
<1>3. KeyOf[held[w]] \in active
  BY <1>1 DEF KeyExclusive
<1>4. pc[w] # "release" => st[held[w]] = "held"
  BY <1>1, <1>2 DEF HeldByOne, Holding
<1>5. \A v \in Workers \ {w} :
         pc[v] \in Holding => KeyOf[held[v]] # KeyOf[held[w]]
  BY <1>1 DEF KeyExclusive
<1>6. QED
  BY <1>2, <1>3, <1>4, <1>5

\* A worker that gives its job an outcome goes on to give the key back.
LEMMA FinishKeeps ==
    ASSUME Index, NEW w \in Workers, pc[w] \in {"check", "execute"},
           NEW o \in Outcomes,
           st' = [st EXCEPT ![held[w]] = o],
           pc' = [pc EXCEPT ![w] = "release"],
           Forget({held[w]}),
           cool' \in [Keys -> 0 .. Horizon],
           UNCHANGED <<queue, rotation, active, stopping, held, timer>>
    PROVE  Index'
<1>1. TypeOK /\ KeyExclusive /\ RotationIndex /\ HeldByOne
  BY DEF Index, IndexesAgree
<1>2. pc[w] \in Holding /\ held[w] \in Jobs /\ st[held[w]] = "held"
  BY InHands DEF Holding
<1>3. \A i \in Jobs : st'[i] = IF i = held[w] THEN o ELSE st[i]
  BY <1>1 DEF TypeOK
<1>4. \A v \in Workers : pc'[v] = IF v = w THEN "release" ELSE pc[v]
  BY <1>1 DEF TypeOK
<1>5. RotationIndex'
  <2>1. \A i \in Jobs : st'[i] = "queued" <=> st[i] = "queued"
    BY <1>2, <1>3 DEF Outcomes
  <2>2. QED
    BY <1>1, <2>1 DEF RotationIndex, Queued
<1>6. KeyExclusive'
  <2>1. {v \in Workers : pc'[v] \in Holding} = {v \in Workers : pc[v] \in Holding}
    BY <1>2, <1>4 DEF Holding
  <2>2. QED
    BY <1>1, <2>1 DEF KeyExclusive
<1>7. HeldByOne'
  <2>1. \A v \in Workers : held'[v] # NoJob <=> pc'[v] \in Holding
    BY <1>1, <1>2, <1>4 DEF HeldByOne, Holding
  <2>2. ASSUME NEW i \in Jobs
        PROVE  st'[i] = "held" <=> i # held[w] /\ st[i] = "held"
    BY <1>3 DEF Outcomes
  <2>3. ASSUME NEW i \in Jobs
        PROVE  (\E v \in Workers : pc'[v] \in {"check", "execute"} /\ held'[v] = i)
               <=> /\ i # held[w]
                   /\ \E v \in Workers : pc[v] \in {"check", "execute"} /\ held[v] = i
    <3>1. \A v \in Workers \ {w} : pc[v] \in {"check", "execute"} => held[v] # held[w]
      BY <1>2, InHands DEF Holding
    <3>2. QED
      BY <1>4, <3>1
  <2>4. QED
    BY <1>1, <2>1, <2>2, <2>3 DEF HeldByOne
<1>8. TypeOK'
  <2>1. st' \in [Jobs -> {"free", "queued", "held"} \cup Outcomes]
    BY <1>1 DEF TypeOK
  <2>2. age' \in [Jobs -> 0 .. AgeCap] /\ ttl' \in [Jobs -> 0 .. Far]
    BY <1>1, ForgetTypes
  <2>3. pc' \in [Workers -> {"scan", "wait", "exit"} \cup Holding]
    BY <1>1 DEF TypeOK, Holding
  <2>4. QED
    BY <1>1, <2>1, <2>2, <2>3 DEF TypeOK
<1>9. QED
  BY <1>5, <1>6, <1>7, <1>8 DEF Index, IndexesAgree

\* The deadline is looked at once more.
LEMMA CheckKeeps ==
    ASSUME Index, NEW w \in Workers, Check(w)
    PROVE  Index'
<1>1. CASE ttl[held[w]] = 0
  <2>1. "error" \in Outcomes
    BY DEF Outcomes
  <2>2. cool' \in [Keys -> 0 .. Horizon]
    BY DEF Check, Index, TypeOK
  <2>3. /\ pc[w] \in {"check", "execute"}
        /\ st' = [st EXCEPT ![held[w]] = "error"]
        /\ pc' = [pc EXCEPT ![w] = "release"]
        /\ Forget({held[w]})
        /\ UNCHANGED <<queue, rotation, active, stopping, held, timer>>
    BY <1>1 DEF Check
  <2>4. QED
    BY <2>1, <2>2, <2>3, FinishKeeps
<1>2. CASE ttl[held[w]] # 0
  <2>1. TypeOK /\ RotationIndex
    BY DEF Index, IndexesAgree
  <2>2. /\ pc[w] = "check" /\ pc' = [pc EXCEPT ![w] = "execute"]
        /\ UNCHANGED <<queue, rotation, active, stopping, held, timer, st, age, ttl, cool>>
    BY <1>2 DEF Check
  <2>3. \A v \in Workers :
           /\ pc'[v] \in Holding <=> pc[v] \in Holding
           /\ pc'[v] \in {"check", "execute"} <=> pc[v] \in {"check", "execute"}
    BY <2>1, <2>2 DEF Holding, TypeOK
  <2>4. KeyExclusive' /\ HeldByOne'
    BY <2>2, <2>3, PoolUntouched
  <2>5. RotationIndex'
    BY <2>1, <2>2 DEF RotationIndex, Queued
  <2>6. TypeOK'
    BY <2>1, <2>2 DEF TypeOK, Holding
  <2>7. QED
    BY <2>4, <2>5, <2>6 DEF Index, IndexesAgree
<1>3. QED
  BY <1>1, <1>2

\* job.execute() returned or raised.
LEMMA ExecuteKeeps ==
    ASSUME Index, NEW w \in Workers, Execute(w)
    PROVE  Index'
<1>1. PICK o \in Outcomes : st' = [st EXCEPT ![held[w]] = o]
  BY DEF Execute, Outcomes
<1>2. cool' \in [Keys -> 0 .. Horizon]
  <2>1. cool \in [Keys -> 0 .. Horizon] /\ Interval \in 0 .. Horizon
    BY Bounds DEF Index, TypeOK
  <2>2. cool' = cool \/ cool' = [cool EXCEPT ![KeyOf[held[w]]] = Interval]
    BY DEF Execute
  <2>3. QED
    BY <2>1, <2>2
<1>3. /\ pc[w] \in {"check", "execute"}
      /\ pc' = [pc EXCEPT ![w] = "release"]
      /\ Forget({held[w]})
      /\ UNCHANGED <<queue, rotation, active, stopping, held, timer>>
  BY DEF Execute
<1>4. QED
  BY <1>1, <1>2, <1>3, FinishKeeps

\* The key is given back.
LEMMA ReleaseKeeps ==
    ASSUME Index, NEW w \in Workers, Release(w)
    PROVE  Index'
<1>1. TypeOK /\ KeyExclusive /\ RotationIndex /\ HeldByOne
  BY DEF Index, IndexesAgree
<1>2. /\ pc[w] = "release"
      /\ active' = active \ {KeyOf[held[w]]}
      /\ held' = [held EXCEPT ![w] = NoJob]
      /\ pc' = [v \in Workers |-> IF v = w \/ pc[v] = "wait" THEN "scan" ELSE pc[v]]
      /\ timer' = [v \in Workers |-> Far]
      /\ UNCHANGED <<queue, rotation, stopping, st, age, ttl, cool>>
  BY DEF Release, clocks
<1>3. pc[w] \in Holding /\ held[w] \in Jobs
  BY <1>2, InHands DEF Holding
<1>4. /\ held'[w] = NoJob /\ pc'[w] = "scan"
      /\ \A v \in Workers \ {w} :
            /\ held'[v] = held[v]
            /\ pc[v] = "wait" => pc'[v] = "scan"
            /\ pc[v] # "wait" => pc'[v] = pc[v]
  BY <1>1, <1>2 DEF TypeOK
<1>5. RotationIndex'
  BY <1>1, <1>2 DEF RotationIndex, Queued
<1>6. KeyExclusive'
  <2> DEFINE busy == {v \in Workers : pc[v] \in Holding}
  <2>1. {v \in Workers : pc'[v] \in Holding} = busy \ {w}
    BY <1>4 DEF Holding
  <2>2. \A v \in busy \ {w} : KeyOf[held[v]] # KeyOf[held[w]] /\ held'[v] = held[v]
    BY <1>3, <1>4, InHands
  <2>3. active' = {KeyOf[held'[v]] : v \in busy \ {w}}
    BY <1>1, <1>2, <1>3, <2>2 DEF KeyExclusive
  <2>4. \A u, v \in busy \ {w} : u # v => KeyOf[held'[u]] # KeyOf[held'[v]]
    BY <1>1, <2>2 DEF KeyExclusive
  <2>5. QED
    BY <2>1, <2>3, <2>4 DEF KeyExclusive
<1>7. HeldByOne'
  <2>1. \A v \in Workers : held'[v] # NoJob <=> pc'[v] \in Holding
    BY <1>1, <1>4 DEF HeldByOne, Holding
  <2>2. ASSUME NEW i \in Jobs
        PROVE  (\E v \in Workers : pc'[v] \in {"check", "execute"} /\ held'[v] = i)
               <=> (\E v \in Workers : pc[v] \in {"check", "execute"} /\ held[v] = i)
    BY <1>2, <1>4
  <2>3. QED
    BY <1>1, <1>2, <2>1, <2>2 DEF HeldByOne
<1>8. TypeOK'
  <2>1. /\ active' \subseteq Keys
        /\ pc' \in [Workers -> {"scan", "wait", "exit"} \cup Holding]
        /\ held' \in [Workers -> Jobs \cup {NoJob}]
    BY <1>1, <1>2 DEF TypeOK
  <2>2. timer' \in [Workers -> 0 .. Far]
    BY <1>2, ClockBounds
  <2>3. QED
    BY <1>1, <1>2, <2>1, <2>2 DEF TypeOK
<1>9. QED
  BY <1>5, <1>6, <1>7, <1>8 DEF Index, IndexesAgree

-----------------------------------------------------------------------------
(* Types and indexes. *)

\* At the start nothing is queued, held or active.
LEMMA InitIndex == Init => Index
<1> SUFFICES ASSUME Init PROVE Index
  OBVIOUS
<1>1. ToSet(<< >>) = {} /\ IsInjective(<< >>)
  BY DEF ToSet, IsInjective
<1>2. TypeOK
  <2>1. age \in [Jobs -> 0 .. AgeCap]
    BY ClockBounds DEF Init
  <2>2. ttl \in [Jobs -> 0 .. Far] /\ timer \in [Workers -> 0 .. Far]
    BY ClockBounds DEF Init
  <2>3. cool \in [Keys -> 0 .. Horizon]
    BY ClockBounds DEF Init
  <2>4. queue \in [Apps -> Seq(Jobs)] /\ rotation \in Seq(Apps)
    BY DEF Init
  <2>5. /\ pc \in [Workers -> {"scan", "wait", "exit"} \cup Holding]
        /\ held \in [Workers -> Jobs \cup {NoJob}]
        /\ st \in [Jobs -> {"free", "queued", "held"} \cup Outcomes]
    BY DEF Init
  <2>6. active \subseteq Keys /\ stopping \in BOOLEAN
    BY DEF Init
  <2>7. QED
    BY <2>1, <2>2, <2>3, <2>4, <2>5, <2>6 DEF TypeOK
<1>3. KeyExclusive /\ HeldByOne
  BY JobAttributes DEF Init, KeyExclusive, HeldByOne, Holding
<1>4. RotationIndex
  BY <1>1 DEF Init, RotationIndex, Queued
<1>5. QED
  BY <1>2, <1>3, <1>4 DEF Index, IndexesAgree

\* Every step keeps them.
LEMMA NextIndex == Index /\ [Next]_vars => Index'
<1> SUFFICES ASSUME Index, [Next]_vars PROVE Index'
  OBVIOUS
<1>1. CASE CallerStep
  BY <1>1, SubmitKeeps, CollectKeeps, CancelKeeps, CloseKeeps DEF CallerStep
<1>2. CASE Tick
  BY <1>2, TickKeeps
<1>3. ASSUME NEW w \in Workers, WorkerStep(w)
      PROVE  Index'
  BY <1>3, IdleKeeps, PickKeeps, WaitKeeps, CheckKeeps, ExecuteKeeps, ReleaseKeeps
     DEF WorkerStep
<1>4. CASE UNCHANGED vars
  BY <1>4 DEF vars, Index, IndexesAgree, TypeOK, KeyExclusive, HeldByOne,
              RotationIndex, Queued
<1>5. QED
  BY <1>1, <1>2, <1>3, <1>4 DEF Next

\* Every variable keeps its shape, for any sets and bounds; in particular the
\* CHOOSE of a pass always finds its maximum.
THEOREM Typed == Spec => []TypeOK
<1>1. Index => TypeOK
  BY DEF Index
<1>2. QED
  BY InitIndex, NextIndex, <1>1, PTL DEF Spec

\* The queues, the rotation, the active keys and the hands of the workers
\* agree with the states of the jobs in every reachable state.
THEOREM IndexesAlwaysAgree == Spec => []IndexesAgree
<1>1. Index => IndexesAgree
  BY DEF Index
<1>2. QED
  BY InitIndex, NextIndex, <1>1, PTL DEF Spec

-----------------------------------------------------------------------------
(* Outcomes. *)

\* Where the state of a job may go in a step.
LEMMA StateOfJob ==
    ASSUME Index, [Next]_vars, NEW j \in Jobs
    PROVE  /\ st[j] \in Outcomes => st'[j] \in {st[j], "free"}
           /\ \A w \in Workers :
                 pc'[w] = "execute" /\ held'[w] = j => st'[j] = "held"
<1>1. Index'
  BY NextIndex
<1>2. \A w \in Workers : pc'[w] = "execute" /\ held'[w] = j => st'[j] = "held"
  BY <1>1 DEF Index, IndexesAgree, HeldByOne
<1> DEFINE Goes == st[j] \in Outcomes => st'[j] \in {st[j], "free"}
<1>3. ASSUME NEW i \in Jobs, Submit(i) \/ Collect(i)
      PROVE  Goes
  BY <1>3 DEF Index, TypeOK, Submit, Collect, Outcomes
<1>4. ASSUME NEW c \in Clients, CancelClient(c)
      PROVE  Goes
  BY <1>4 DEF CancelClient, Outcomes
<1>5. ASSUME Close
      PROVE  Goes
  BY <1>5 DEF Close, Outcomes
<1>6. ASSUME Tick \/ UNCHANGED vars
      PROVE  Goes
  BY <1>6 DEF Tick, vars
<1>7. ASSUME NEW w \in Workers, Exit(w) \/ Timeout(w) \/ Release(w)
      PROVE  Goes
  BY <1>7 DEF Exit, Timeout, Release
<1>8. ASSUME NEW w \in Workers, Pick(w) \/ Wait(w)
      PROVE  Goes
  <2>1. st[j] \in Outcomes => st[j] # "queued"
    BY DEF Outcomes
  <2>2. CASE Pick(w)
    <3>1. st[Candidate(Winner)] = "queued"
      BY <2>2, Selected DEF Pick
    <3>2. QED
      BY <2>1, <2>2, <3>1 DEF Pick, Expired
  <2>3. CASE Wait(w)
    BY <2>1, <2>3 DEF Wait, Expired
  <2>4. QED
    BY <1>8, <2>2, <2>3
<1>9. ASSUME NEW w \in Workers, Check(w) \/ Execute(w)
      PROVE  Goes
  <2>1. pc[w] \in Holding /\ pc[w] # "release"
    BY <1>9 DEF Check, Execute, Holding
  <2>2. held[w] \in Jobs /\ st[held[w]] = "held"
    BY <2>1, InHands
  <2>3. \/ st' = st
        \/ \E o \in Outcomes : st' = [st EXCEPT ![held[w]] = o]
    BY <1>9 DEF Check, Execute, Outcomes
  <2>4. QED
    BY <2>2, <2>3 DEF Index, TypeOK, Outcomes
<1>10. Goes
  BY <1>3, <1>4, <1>5, <1>6, <1>7, <1>8, <1>9 DEF Next, CallerStep, WorkerStep
<1>11. QED
  BY <1>2, <1>10

\* finish() has the first word and the last one: an outcome stays until it is
\* collected, and a job with an outcome is never executed.
THEOREM FinishesOnce == Spec => FinishedOnce
<1> DEFINE Step(j) == /\ st[j] \in Outcomes => st'[j] \in {st[j], "free"}
                      /\ \A w \in Workers :
                            pc'[w] = "execute" /\ held'[w] = j => st'[j] = "held"
<1>1. Index /\ [Next]_vars => \A j \in Jobs : Step(j)
  BY StateOfJob
<1>2. Index /\ [Next]_vars => [\A j \in Jobs : Step(j)]_vars
  BY <1>1
<1> HIDE DEF Step
<1>3. Spec => [][\A j \in Jobs : Step(j)]_vars
  BY InitIndex, NextIndex, <1>2, PTL DEF Spec
<1>4. QED
  BY <1>3 DEF FinishedOnce, Step

-----------------------------------------------------------------------------
(* Wakeups. *)

\* A pass that selects nothing has seen every queued job, so that what it
\* waits for comes no later than it wakes.
LEMMA PassSeesAll ==
    ASSUME Index, Contenders = {}, NEW j \in Jobs, st[j] = "queued", ttl[j] > 0
    PROVE  /\ ttl[j] >= WakeAt
           /\ KeyOf[j] \notin active => cool[KeyOf[j]] >= WakeAt /\ cool[KeyOf[j]] > 0
<1> DEFINE a == AppOf[j]
           live == UNION {ToSet(Live(b)) : b \in ToSet(rotation)}
<1>1. TypeOK /\ RotationIndex
  BY DEF Index, IndexesAgree
<1>2. a \in Apps /\ j \in Queued(a)
  BY <1>1, JobAttributes DEF RotationIndex
<1>3. a \in ToSet(rotation)
  <2>1. queue[a] # << >>
    BY <1>1, <1>2, SequenceElements DEF Queued, TypeOK
  <2>2. QED
    BY <1>1, <1>2, <2>1 DEF RotationIndex
<1>4. j \in ToSet(Live(a))
  BY <1>1, <1>2, LiveJobs
<1>5. j \in live
  BY <1>3, <1>4
<1>6. ttl[j] \in WakeTimes
  BY <1>5 DEF WakeTimes
<1>7. KeyOf[j] \notin active => cool[KeyOf[j]] \in WakeTimes
  BY <1>5 DEF WakeTimes
<1>8. KeyOf[j] \notin active => cool[KeyOf[j]] # 0
  BY <1>3, <1>4 DEF Contenders, Runnable
<1>9. cool[KeyOf[j]] \in Nat /\ ttl[j] \in Nat /\ WakeAt \in Nat
  <2>1. \A n \in 0 .. Far : n \in Nat
    BY ClockBounds
  <2>2. ttl[j] \in 0 .. Far /\ WakeAt \in 0 .. Far
    BY <1>1, WakeAtIsEarliest DEF TypeOK
  <2>3. cool[KeyOf[j]] \in 0 .. Horizon
    BY <1>1, JobAttributes DEF TypeOK
  <2>4. QED
    BY <2>1, <2>2, <2>3
<1>10. QED
  BY <1>1, <1>6, <1>7, <1>8, <1>9, WakeAtIsEarliest

\* A step that queues nothing, frees no key and moves no clock back, and puts
\* nobody to sleep, leaves the sleepers right.
LEMMA SleepersUndisturbed ==
    ASSUME Index, NoLostWakeup, stopping' = stopping,
           \A w \in Workers : pc'[w] = "wait" => pc[w] = "wait" /\ timer'[w] = timer[w],
           \A j \in Jobs : st'[j] = "queued" =>
                              st[j] = "queued" /\ ttl'[j] = ttl[j],
           active \subseteq active',
           \A k \in Keys : k \notin active' => cool'[k] = cool[k]
    PROVE  NoLostWakeup'
<1> SUFFICES ASSUME NEW w \in Workers, pc'[w] = "wait", timer'[w] > 0,
                    NEW j \in Jobs, st'[j] = "queued"
             PROVE  /\ ttl'[j] >= timer'[w]
                    /\ KeyOf[j] \notin active' =>
                          cool'[KeyOf[j]] >= timer'[w] /\ cool'[KeyOf[j]] > 0
  BY DEF NoLostWakeup
<1>1. KeyOf[j] \in Keys
  BY JobAttributes
<1>2. pc[w] = "wait" /\ timer'[w] = timer[w] /\ st[j] = "queued" /\ ttl'[j] = ttl[j]
  OBVIOUS
<1>3. /\ ttl[j] >= timer[w]
      /\ KeyOf[j] \notin active => cool[KeyOf[j]] >= timer[w] /\ cool[KeyOf[j]] > 0
  BY <1>2 DEF NoLostWakeup
<1>4. QED
  BY <1>1, <1>2, <1>3

\* A step that notifies everybody leaves no sleeper.
LEMMA NobodySleeps ==
    ASSUME \A w \in Workers : pc'[w] # "wait"
    PROVE  NoLostWakeup'
BY DEF NoLostWakeup

\* A unit of time brings every sleeper and what it waits for as much closer.
LEMMA TickWakes ==
    ASSUME Index, NoLostWakeup, Tick
    PROVE  NoLostWakeup'
<1> SUFFICES ASSUME NEW w \in Workers, pc'[w] = "wait"
             PROVE  /\ ~stopping'
                    /\ timer'[w] > 0 =>
                          \A j \in Jobs : st'[j] = "queued" =>
                             /\ ttl'[j] >= timer'[w]
                             /\ KeyOf[j] \notin active' =>
                                   cool'[KeyOf[j]] >= timer'[w] /\ cool'[KeyOf[j]] > 0
  BY DEF NoLostWakeup
<1>1. /\ UNCHANGED <<queue, rotation, active, stopping, pc, held, st>>
      /\ timer'[w] = Countdown(timer[w])
      /\ \A j \in Jobs : /\ ttl'[j] = Countdown(ttl[j])
                         /\ cool'[KeyOf[j]] = Countdown(cool[KeyOf[j]])
  BY JobAttributes DEF Tick
<1>2. ~stopping'
  BY <1>1 DEF NoLostWakeup
<1>3. ASSUME timer'[w] > 0, NEW j \in Jobs, st'[j] = "queued"
      PROVE  /\ ttl'[j] >= timer'[w]
             /\ KeyOf[j] \notin active' =>
                   cool'[KeyOf[j]] >= timer'[w] /\ cool'[KeyOf[j]] > 0
  <2>1. /\ timer[w] \in 0 .. Far /\ ttl[j] \in 0 .. Far
        /\ cool[KeyOf[j]] \in 0 .. Horizon
    BY JobAttributes DEF Index, TypeOK
  <2>2. timer[w] > 0
    BY <1>1, <1>3, <2>1, ClockBounds DEF Countdown
  <2>3. /\ ttl[j] >= timer[w]
        /\ KeyOf[j] \notin active => cool[KeyOf[j]] >= timer[w] /\ cool[KeyOf[j]] > 0
    BY <1>1, <1>3, <2>2 DEF NoLostWakeup
  <2>4. ttl'[j] >= timer'[w]
    BY <1>1, <2>1, <2>2, <2>3, ClockBounds DEF Countdown
  <2>5. KeyOf[j] \notin active => cool'[KeyOf[j]] >= timer'[w] /\ cool'[KeyOf[j]] > 0
    BY <1>1, <1>3, <2>1, <2>2, <2>3, ClockBounds DEF Countdown
  <2>6. QED
    BY <1>1, <2>4, <2>5
<1>4. QED
  BY <1>2, <1>3

\* A pass without a result.
LEMMA WaitWakes ==
    ASSUME Index, NoLostWakeup, NEW w \in Workers, Wait(w)
    PROVE  NoLostWakeup'
<1>1. TypeOK
  BY DEF Index
<1>2. /\ ~stopping /\ stopping' = stopping /\ Contenders = {}
      /\ active' = active /\ cool' = cool /\ pc[w] = "scan"
      /\ Forget(Expired)
  BY DEF Wait
<1>3. \A v \in Workers : /\ pc'[v] = IF v = w THEN "wait" ELSE pc[v]
                         /\ timer'[v] = IF v = w THEN WakeAt ELSE timer[v]
  BY <1>1 DEF Wait, TypeOK
<1>4. \A j \in Jobs : st'[j] = "queued" =>
         st[j] = "queued" /\ ttl[j] > 0 /\ ttl'[j] = ttl[j]
  BY <1>1, Deadlines DEF Wait, Expired, Forget
<1>5. ASSUME NEW v \in Workers, pc'[v] = "wait", NEW j \in Jobs, st'[j] = "queued",
             timer'[v] > 0
      PROVE  /\ ttl'[j] >= timer'[v]
             /\ KeyOf[j] \notin active' =>
                   cool'[KeyOf[j]] >= timer'[v] /\ cool'[KeyOf[j]] > 0
  <2>1. CASE v = w
    BY <1>2, <1>3, <1>4, <1>5, <2>1, PassSeesAll
  <2>2. CASE v # w
    BY <1>2, <1>3, <1>4, <1>5, <2>2 DEF NoLostWakeup
  <2>3. QED
    BY <2>1, <2>2
<1>6. QED
  BY <1>2, <1>5 DEF NoLostWakeup

\* Every step of the callers and of the workers.
LEMMA NextWakes == Index /\ NoLostWakeup /\ [Next]_vars => NoLostWakeup'
<1> SUFFICES ASSUME Index, NoLostWakeup, [Next]_vars PROVE NoLostWakeup'
  OBVIOUS
<1>1. TypeOK
  BY DEF Index
<1>2. ASSUME NotifyAll
      PROVE  NoLostWakeup'
  BY <1>1, <1>2, NotifyAllWakes, NobodySleeps
<1>3. ASSUME NEW j \in Jobs, Collect(j)
      PROVE  NoLostWakeup'
  <2>1. \A i \in Jobs : st'[i] = "queued" => st[i] = "queued"
    BY <1>1, <1>3 DEF Collect, TypeOK
  <2>2. UNCHANGED <<stopping, active, pc, timer, ttl, cool>>
    BY <1>3 DEF Collect, poolVars, clocks
  <2>3. QED
    BY <2>1, <2>2, SleepersUndisturbed
<1>4. CASE CallerStep
  BY <1>2, <1>3, <1>4 DEF CallerStep, Submit, CancelClient, Close
<1>5. ASSUME NEW w \in Workers, Exit(w) \/ Timeout(w)
      PROVE  NoLostWakeup'
  <2>1. \A v \in Workers : pc'[v] = "wait" => pc[v] = "wait" /\ timer'[v] = timer[v]
    BY <1>1, <1>5 DEF Exit, Timeout, TypeOK
  <2>2. UNCHANGED <<stopping, active, st, ttl, cool>>
    BY <1>5 DEF Exit, Timeout, clocks
  <2>3. QED
    BY <2>1, <2>2, SleepersUndisturbed
<1>6. ASSUME NEW w \in Workers, Pick(w)
      PROVE  NoLostWakeup'
  <2>1. /\ \A v \in Workers : pc'[v] = "wait" => pc[v] = "wait" /\ timer'[v] = timer[v]
        /\ active \subseteq active' /\ stopping' = stopping /\ cool' = cool
    BY <1>1, <1>6 DEF Pick, TypeOK
  <2>2. \A j \in Jobs : st'[j] = "queued" => st[j] = "queued" /\ ttl'[j] = ttl[j]
    BY <1>6 DEF Pick, Forget, Expired
  <2>3. QED
    BY <2>1, <2>2, SleepersUndisturbed
<1>7. ASSUME NEW w \in Workers, Check(w) \/ Execute(w)
      PROVE  NoLostWakeup'
  <2>1. pc[w] \in Holding /\ pc[w] # "release"
    BY <1>7 DEF Check, Execute, Holding
  <2>2. held[w] \in Jobs /\ st[held[w]] = "held" /\ KeyOf[held[w]] \in active
    BY <2>1, InHands
  <2>3. /\ \A v \in Workers : pc'[v] = "wait" => pc[v] = "wait" /\ timer'[v] = timer[v]
        /\ active' = active /\ stopping' = stopping
    BY <1>1, <1>7 DEF Check, Execute, TypeOK
  <2>4. \A k \in Keys : k \notin active' => cool'[k] = cool[k]
    BY <1>1, <1>7, <2>2, <2>3 DEF Check, Execute, TypeOK
  <2>5. \A j \in Jobs : st'[j] = "queued" => st[j] = "queued" /\ ttl'[j] = ttl[j]
    BY <1>1, <1>7, <2>2 DEF Check, Execute, TypeOK, Forget
  <2>6. QED
    BY <2>3, <2>4, <2>5, SleepersUndisturbed
<1>8. ASSUME NEW w \in Workers, Release(w)
      PROVE  NoLostWakeup'
  <2>1. \A v \in Workers : pc'[v] # "wait"
    BY <1>8 DEF Release
  <2>2. QED
    BY <2>1, NobodySleeps
<1>9. CASE UNCHANGED vars
  BY <1>9 DEF vars, NoLostWakeup
<1>10. QED
  BY <1>4, <1>5, <1>6, <1>7, <1>8, <1>9, TickWakes, WaitWakes DEF Next, WorkerStep

\* Whatever the callers do and however long a run takes, no worker sleeps
\* through a job it could run or has to expire.
THEOREM NoWakeupLost == Spec => []NoLostWakeup
<1>1. Init => NoLostWakeup
  BY DEF Init, NoLostWakeup
<1>2. QED
  BY InitIndex, NextIndex, <1>1, NextWakes, PTL DEF Spec
=============================================================================
