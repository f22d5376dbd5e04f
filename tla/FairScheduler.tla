--------------------------- MODULE FairScheduler ---------------------------
(***************************************************************************)
(* The shared inference scheduler, market/inferenced/scheduler.py: bounded *)
(* per-application queues, a rotation of the applications that have work,  *)
(* one condition variable, and a pool of worker threads that each run one  *)
(* model context at a time.                                                *)
(*                                                                         *)
(* Every method that takes the condition's lock is one action.  A worker   *)
(* leaves the lock between choosing a job and giving its key back, so that *)
(* part of _run is several actions: Check, Execute, Release.               *)
(*                                                                         *)
(* Time is relative.  age[j] counts ticks since job j was queued and stops *)
(* where aging stops counting; ttl[j] counts down to j's deadline; cool[k] *)
(* counts down to the instant model k may run again (ready_at); timer[w]   *)
(* is what is left of the timeout worker w passed to wait().  Far stands   *)
(* for an instant beyond the horizon, and for wait(timeout=None).          *)
(***************************************************************************)
EXTENDS Integers, FiniteSets, SequencesExt, Filtering

CONSTANTS
    Jobs,        \* request slots; a slot is reused once its result is collected
    NoJob,       \* what an idle worker holds
    Apps,        \* fairness ids: one per admitted application generation
    Clients,     \* Unix connections
    Keys,        \* concurrency keys: model cache entries
    Workers,     \* max_concurrent_models worker threads
    AppOf, ClientOf, KeyOf,  \* what a request of this slot belongs to
    PriorityOf,  \* the job's priority
    MaxPending,  \* max_pending_per_client
    AgingCap,    \* 100 in the source: the most points a job gains by waiting
    AgingRate,   \* points a job gains per tick
    Ttls,        \* the timeouts requests come with, in ticks
    Interval,    \* 1/max_fps in ticks, 0 for no frame-rate limit
    Horizon      \* largest countdown that is represented

Far == Horizon + 1

ASSUME JobAttributes ==
    /\ NoJob \notin Jobs
    /\ AppOf \in [Jobs -> Apps]
    /\ ClientOf \in [Jobs -> Clients]
    /\ KeyOf \in [Jobs -> Keys]
    /\ PriorityOf \in [Jobs -> Nat]

ASSUME Bounds ==
    /\ MaxPending \in Nat \ {0}
    /\ AgingCap \in Nat
    /\ AgingRate \in Nat \ {0}
    /\ Horizon \in Nat
    /\ Ttls \subseteq 1..Horizon+1
    /\ Interval \in 0..Horizon

VARIABLES
    queue,     \* _queues; an absent entry is the empty sequence
    rotation,  \* _rotation
    active,    \* _active_keys
    stopping,  \* _stopping
    pc, held,  \* where each worker is in _run, and the job it picked
    timer,     \* what is left of a waiting worker's timeout
    st,        \* life of a job slot
    age, ttl,  \* relative clocks of a job
    cool       \* relative clock of a model

vars == <<queue, rotation, active, stopping, pc, held, timer, st, age, ttl, cool>>
poolVars == <<pc, held, timer>>
clocks == <<age, ttl, cool>>

\* finish(result=...) or finish(error=...).
Outcomes == {"result", "error"}
Holding == {"check", "execute", "release"}

\* Aging saturates at this age; larger ages are not told apart.
AgeCap == (AgingCap + AgingRate - 1) \div AgingRate

Least(a, b) == IF a < b THEN a ELSE b
\* Mutant: the remaining time of a wait is not clamped at zero.
UnclampedCountdown(n) == IF n = Far THEN n ELSE n - 1

Countdown(n) == IF n \in {0, Far} THEN n ELSE n - 1

----------------------------------------------------------------------------
(* What one pass of _select_locked computes.                               *)

Queued(a) == ToSet(queue[a])
Live(a) == Keep(queue[a], {j \in Jobs : ttl[j] > 0})
Expired == {j \in Jobs : st[j] = "queued" /\ ttl[j] = 0}
LiveRotation == Keep(rotation, {a \in Apps : Live(a) # << >>})

\* Mutant: the pass forgets the keys that other workers hold.
RunnableThoughActive(a) == {j \in ToSet(Live(a)) : cool[KeyOf[j]] = 0}

Runnable(a) ==
    {j \in ToSet(Live(a)) : KeyOf[j] \notin active /\ cool[KeyOf[j]] = 0}

Position(s, x) == CHOOSE i \in DOMAIN s : s[i] = x

\* Within one application priority wins, then submission order.
Before(a, i, j) ==
    \/ PriorityOf[i] > PriorityOf[j]
    \/ PriorityOf[i] = PriorityOf[j] /\ Position(queue[a], i) <= Position(queue[a], j)
Candidate(a) ==
    CHOOSE i \in Runnable(a) : \A j \in Runnable(a) : Before(a, i, j)

Score(j) == PriorityOf[j] + Least(AgingCap, age[j] * AgingRate)

Contenders == {a \in ToSet(rotation) : Runnable(a) # {}}

\* Across applications the aged score wins, then the place in the rotation.
Beats(a, b) ==
    LET x == Score(Candidate(a))
        y == Score(Candidate(b))
    IN  \/ x > y
        \/ x = y /\ Position(rotation, a) <= Position(rotation, b)
Winner == CHOOSE a \in Contenders : \A b \in Contenders : Beats(a, b)

\* The instants that can change what a pass with no result has seen: the
\* deadline of every live job, and the end of the cool-down of a free model.
WakeTimes ==
    LET live == UNION {ToSet(Live(a)) : a \in ToSet(rotation)}
    IN  {ttl[j] : j \in live}
        \cup {cool[KeyOf[j]] : j \in {i \in live : KeyOf[i] \notin active}}
Earliest(S) == CHOOSE t \in S : \A u \in S : t <= u
\* Mutant: a pass without a result computes no time to wake at.
WakeNever == Far

WakeAt == IF WakeTimes = {} THEN Far ELSE Earliest(WakeTimes)

\* Mutant: the condition is not notified.
NotifyNobody == UNCHANGED <<pc, timer>>

\* notify_all: every waiting thread goes back to compete for the lock.
NotifyAll ==
    /\ pc' = [w \in Workers |-> IF pc[w] = "wait" THEN "scan" ELSE pc[w]]
    /\ timer' = [w \in Workers |-> Far]

\* The clocks of a job matter until it has an outcome.
Forget(S) ==
    /\ age' = [j \in Jobs |-> IF j \in S THEN 0 ELSE age[j]]
    /\ ttl' = [j \in Jobs |-> IF j \in S THEN Far ELSE ttl[j]]

----------------------------------------------------------------------------
Init ==
    /\ queue = [a \in Apps |-> << >>]
    /\ rotation = << >>
    /\ active = {}
    /\ stopping = FALSE
    /\ pc = [w \in Workers |-> "scan"]
    /\ held = [w \in Workers |-> NoJob]
    /\ timer = [w \in Workers |-> Far]
    /\ st = [j \in Jobs |-> "free"]
    /\ age = [j \in Jobs |-> 0]
    /\ ttl = [j \in Jobs |-> Far]
    /\ cool = [k \in Keys |-> 0]

\* submit: a queue at its bound raises QueueFullError and changes nothing.
Submit(j) ==
    LET a == AppOf[j] IN
    /\ ~stopping
    /\ st[j] = "free"
    /\ Len(queue[a]) < MaxPending
    /\ queue' = [queue EXCEPT ![a] = Append(@, j)]
    /\ rotation' = IF queue[a] = << >> THEN Append(rotation, a) ELSE rotation
    /\ st' = [st EXCEPT ![j] = "queued"]
    /\ age' = [age EXCEPT ![j] = 0]
    /\ \E t \in Ttls : ttl' = [ttl EXCEPT ![j] = t]
    /\ NotifyAll
    /\ UNCHANGED <<active, stopping, held, cool>>

\* Mutant: the client's running jobs are finished too.
CancelFinishesHeld(c) ==
    LET mine == {j \in Jobs : ClientOf[j] = c /\ st[j] \in {"queued", "held"}}
        kept == [a \in Apps |-> Keep(queue[a], Jobs \ mine)]
    IN  /\ queue' = kept
        /\ rotation' = Keep(rotation, {a \in Apps : kept[a] # << >>})
        /\ st' = [j \in Jobs |-> IF j \in mine THEN "error" ELSE st[j]]
        /\ Forget(mine)
        /\ NotifyAll
        /\ UNCHANGED <<active, stopping, held, cool>>

\* cancel_client: only queued jobs of the client are finished; one that a
\* worker already holds runs on.
CancelClient(c) ==
    LET mine == {j \in Jobs : ClientOf[j] = c /\ st[j] = "queued"}
        kept == [a \in Apps |-> Keep(queue[a], Jobs \ mine)]
    IN  /\ queue' = kept
        /\ rotation' = Keep(rotation, {a \in Apps : kept[a] # << >>})
        /\ st' = [j \in Jobs |-> IF j \in mine THEN "error" ELSE st[j]]
        /\ Forget(mine)
        /\ NotifyAll
        /\ UNCHANGED <<active, stopping, held, cool>>

\* Mutant: close() tells nobody.
CloseSilently ==
    /\ ~stopping
    /\ stopping' = TRUE
    /\ st' = [j \in Jobs |-> IF st[j] = "queued" THEN "error" ELSE st[j]]
    /\ Forget({j \in Jobs : st[j] = "queued"})
    /\ queue' = [a \in Apps |-> << >>]
    /\ rotation' = << >>
    /\ UNCHANGED <<active, held, cool, pc, timer>>

\* close: its first, locked half.  The join that follows only waits.
Close ==
    /\ ~stopping
    /\ stopping' = TRUE
    /\ st' = [j \in Jobs |-> IF st[j] = "queued" THEN "error" ELSE st[j]]
    /\ Forget({j \in Jobs : st[j] = "queued"})
    /\ queue' = [a \in Apps |-> << >>]
    /\ rotation' = << >>
    /\ NotifyAll
    /\ UNCHANGED <<active, held, cool>>

\* The caller of result() takes the outcome; the slot may be used again.
Collect(j) ==
    /\ st[j] \in Outcomes
    /\ st' = [st EXCEPT ![j] = "free"]
    /\ UNCHANGED <<queue, rotation, active, stopping, poolVars, clocks>>

----------------------------------------------------------------------------
(* The worker loop _run.                                                   *)

Exit(w) ==
    /\ pc[w] = "scan"
    /\ stopping
    /\ pc' = [pc EXCEPT ![w] = "exit"]
    /\ UNCHANGED <<queue, rotation, active, stopping, held, timer, st, clocks>>

\* A pass that finds a job: expired ones are finished on the way, the job's
\* key becomes active and its application moves behind its peers.
Pick(w) ==
    /\ pc[w] = "scan"
    /\ ~stopping
    /\ Contenders # {}
    /\ \E a \in {Winner} : \E j \in {Candidate(a)} :
          LET left == Keep(Live(a), Jobs \ {j})
              others == Keep(LiveRotation, Apps \ {a})
          IN  /\ queue' = [b \in Apps |-> IF b = a THEN left ELSE Live(b)]
              /\ rotation' = IF left = << >> THEN others ELSE Append(others, a)
              /\ active' = active \cup {KeyOf[j]}
              /\ held' = [held EXCEPT ![w] = j]
              /\ st' = [i \in Jobs |-> IF i = j THEN "held"
                                       ELSE IF i \in Expired THEN "error" ELSE st[i]]
    /\ Forget(Expired)
    /\ pc' = [pc EXCEPT ![w] = "check"]
    /\ UNCHANGED <<stopping, timer, cool>>

\* A pass that finds none: the thread waits, for at most WakeAt.
Wait(w) ==
    /\ pc[w] = "scan"
    /\ ~stopping
    /\ Contenders = {}
    /\ queue' = [a \in Apps |-> Live(a)]
    /\ rotation' = LiveRotation
    /\ st' = [i \in Jobs |-> IF i \in Expired THEN "error" ELSE st[i]]
    /\ Forget(Expired)
    /\ timer' = [timer EXCEPT ![w] = WakeAt]
    /\ pc' = [pc EXCEPT ![w] = "wait"]
    /\ UNCHANGED <<active, stopping, held, cool>>

Timeout(w) ==
    /\ pc[w] = "wait"
    /\ timer[w] = 0
    /\ pc' = [pc EXCEPT ![w] = "scan"]
    /\ timer' = [timer EXCEPT ![w] = Far]
    /\ UNCHANGED <<queue, rotation, active, stopping, held, st, clocks>>

\* Outside the lock: the deadline is looked at once more.
Check(w) ==
    /\ pc[w] = "check"
    /\ IF ttl[held[w]] = 0
       THEN /\ st' = [st EXCEPT ![held[w]] = "error"]
            /\ pc' = [pc EXCEPT ![w] = "release"]
            /\ Forget({held[w]})
       ELSE /\ pc' = [pc EXCEPT ![w] = "execute"]
            /\ UNCHANGED <<st, age, ttl>>
    /\ UNCHANGED <<queue, rotation, active, stopping, held, timer, cool>>

\* job.execute() returned or raised; finish() wakes the caller while the key
\* is still active.  A success starts the model's frame interval.
Execute(w) ==
    /\ pc[w] = "execute"
    /\ \/ /\ st' = [st EXCEPT ![held[w]] = "result"]
          /\ cool' = [cool EXCEPT ![KeyOf[held[w]]] = Interval]
       \/ /\ st' = [st EXCEPT ![held[w]] = "error"]
          /\ UNCHANGED cool
    /\ pc' = [pc EXCEPT ![w] = "release"]
    /\ Forget({held[w]})
    /\ UNCHANGED <<queue, rotation, active, stopping, held, timer>>

\* The finally block: the key is freed and every waiter told.
Release(w) ==
    /\ pc[w] = "release"
    /\ active' = active \ {KeyOf[held[w]]}
    /\ held' = [held EXCEPT ![w] = NoJob]
    /\ pc' = [v \in Workers |-> IF v = w \/ pc[v] = "wait" THEN "scan" ELSE pc[v]]
    /\ timer' = [v \in Workers |-> Far]
    /\ UNCHANGED <<queue, rotation, stopping, st, clocks>>

\* One unit of time passes for every clock.
Tick ==
    /\ age' = [j \in Jobs |-> IF st[j] = "queued" THEN Least(AgeCap, age[j] + 1) ELSE age[j]]
    /\ ttl' = [j \in Jobs |-> Countdown(ttl[j])]
    /\ cool' = [k \in Keys |-> Countdown(cool[k])]
    /\ timer' = [w \in Workers |-> Countdown(timer[w])]
    /\ UNCHANGED <<queue, rotation, active, stopping, pc, held, st>>

WorkerStep(w) ==
    \/ Exit(w) \/ Pick(w) \/ Wait(w) \/ Timeout(w)
    \/ Check(w) \/ Execute(w) \/ Release(w)

CallerStep ==
    \/ \E j \in Jobs : Submit(j) \/ Collect(j)
    \/ \E c \in Clients : CancelClient(c)
    \/ Close

Next == CallerStep \/ Tick \/ \E w \in Workers : WorkerStep(w)

Spec == Init /\ [][Next]_vars

\* Threads that can take a step do, and time passes.  Nothing is assumed of
\* the callers.  Fairness of Execute says that a native run returns.
Fairness == WF_vars(Tick) /\ \A w \in Workers : WF_vars(WorkerStep(w))
FairSpec == Spec /\ Fairness
----------------------------------------------------------------------------
(* Type and safety.                                                        *)

\* Every variable has the shape of the attribute of FairScheduler it models.
TypeOK ==
    /\ queue \in [Apps -> Seq(Jobs)]
    /\ rotation \in Seq(Apps)
    /\ active \subseteq Keys
    /\ stopping \in BOOLEAN
    /\ pc \in [Workers -> {"scan", "wait", "exit"} \cup Holding]
    /\ held \in [Workers -> Jobs \cup {NoJob}]
    /\ timer \in [Workers -> 0..Far]
    /\ st \in [Jobs -> {"free", "queued", "held"} \cup Outcomes]
    /\ age \in [Jobs -> 0..AgeCap]
    /\ ttl \in [Jobs -> 0..Far]
    /\ cool \in [Keys -> 0..Horizon]

\* "A context occupies at most one worker": two workers that are between
\* picking a job and giving its key back never hold the same key, and
\* _active_keys is exactly the set of keys being held, so remove() in the
\* finally block of _run cannot raise and no key stays blocked for ever.
KeyExclusive ==
    LET busy == {w \in Workers : pc[w] \in Holding}
    IN  /\ active = {KeyOf[held[w]] : w \in busy}
        /\ \A v, w \in busy : v # w => KeyOf[held[v]] # KeyOf[held[w]]

\* submit, cancel_client, close and _select_locked keep two structures in
\* step: the rotation lists exactly the applications that have queued jobs,
\* each once, and a queue holds exactly the app's jobs that wait.
RotationIndex ==
    /\ IsInjective(rotation)
    /\ ToSet(rotation) = {a \in Apps : queue[a] # << >>}
    /\ \A a \in Apps :
          /\ IsInjective(queue[a])
          /\ Queued(a) = {j \in Jobs : AppOf[j] = a /\ st[j] = "queued"}

\* A job is out of its queue and without an outcome exactly while one worker
\* is on the way to execute it, so _run never loses or doubles a job, and an
\* idle worker holds none.
HeldByOne ==
    /\ \A w \in Workers : held[w] # NoJob <=> pc[w] \in Holding
    /\ \A j \in Jobs :
          st[j] = "held" <=> \E w \in Workers : pc[w] \in {"check", "execute"} /\ held[w] = j

\* What the indexes of the scheduler say of its jobs is true, in every order
\* of selection, cancellation, expiry and close.
IndexesAgree == KeyExclusive /\ RotationIndex /\ HeldByOne

\* A worker that sleeps has been told, or will wake by its own timer no later
\* than the first instant something can change: no queued job is runnable or
\* expired behind the back of a worker whose timer has not run out.
NoLostWakeup ==
    \A w \in Workers : pc[w] = "wait" =>
        /\ ~stopping
        /\ timer[w] > 0 =>
              \A j \in Jobs : st[j] = "queued" =>
                 /\ ttl[j] >= timer[w]
                 /\ KeyOf[j] \notin active =>
                       cool[KeyOf[j]] >= timer[w] /\ cool[KeyOf[j]] > 0

\* A job is finished once: an outcome stays until the caller collects it, so
\* cancellation, expiry, close and execution never overwrite one another, and
\* a job that was cancelled, expired or stopped in its queue never runs.
FinishedOnce ==
    [][\A j \in Jobs :
          /\ st[j] \in Outcomes => st'[j] \in {st[j], "free"}
          /\ \A w \in Workers :
                pc'[w] = "execute" /\ held'[w] = j => st'[j] = "held"]_vars

----------------------------------------------------------------------------
(* Liveness.                                                               *)

\* Every request that was accepted gets an outcome: from a run, its deadline,
\* a cancellation or close().
EveryJobFinishes == \A j \in Jobs : st[j] \in {"queued", "held"} ~> st[j] \in Outcomes

\* close() ends the pool: every worker leaves its loop once its native run
\* returns, and nothing stays queued.
CloseDrains ==
    stopping ~> /\ \A w \in Workers : pc[w] = "exit"
                /\ \A j \in Jobs : st[j] \notin {"queued", "held"}
=============================================================================
