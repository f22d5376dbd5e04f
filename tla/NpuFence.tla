------------------------------ MODULE NpuFence ------------------------------
(***************************************************************************)
(* Everything that stands between a thread of the inference daemon and the *)
(* NPU driver:                                                             *)
(*   - the writer-preferring gate inside the process,                      *)
(*     NativeOperationGate (_concurrency.py): native inference reads,      *)
(*     driver maintenance and garbage collection write;                    *)
(*   - the kernel lock on npu-scheduler.lock shared with rkipc,            *)
(*     NpuDriverCoordinator (driver_lock.py): inference takes it shared,   *)
(*     maintenance exclusively, and a failed teardown keeps it until the   *)
(*     process dies;                                                       *)
(*   - the order in which RknnBackend (server.py) takes them, and when it  *)
(*     collects the reference cycles RKNNLite leaves behind                *)
(*     (DeferredCycleCollector, _memory.py).                               *)
(*                                                                         *)
(* Workers run inferences; Connections load, release, open and close       *)
(* shared IO; the Poller is the accept loop, which collects when nothing   *)
(* runs.  rkipc is external: it holds the kernel lock exclusively while it *)
(* uses the NPU.                                                           *)
(***************************************************************************)
EXTENDS Integers

CONSTANTS
    Workers, Connections, Pollers,
    Collects,   \* the values _needs_collection takes on the contexts a thread
                \* works on: FALSE for those of the ctypes runtime
    Nobody, Ipc, Retained  \* holders of a lock that are not threads

Threads == Workers \cup Connections \cup Pollers

ASSUME ThreadKinds ==
    /\ Workers \cap Connections = {}
    /\ Workers \cap Pollers = {}
    /\ Connections \cap Pollers = {}
    /\ Threads \cap {Nobody, Ipc, Retained} = {}
    /\ Nobody # Ipc /\ Nobody # Retained /\ Ipc # Retained
    /\ Collects \in [Threads -> SUBSET BOOLEAN]

VARIABLES
    pc,       \* where each thread is in its operation
    needs,    \* _needs_collection of the handle a thread works on
    readers, waiting, writer, depth,  \* NativeOperationGate
    asleep,   \* threads in the gate's condition wait
    due,      \* DeferredCycleCollector._due is set
    shared,   \* threads whose descriptor holds the flock shared
    exclusive,\* whose descriptor holds the flock exclusively
    local,    \* NpuDriverCoordinator._local
    fault     \* NpuDriverCoordinator._quarantine_reason is set

gate == <<readers, waiting, writer, depth, asleep>>
flock == <<shared, exclusive>>
vars == <<pc, needs, gate, due, flock, local, fault>>

\* idle, then for a worker: wantGc, gc, wantRead, reading, infer, leave;
\* for a connection: wantWrite, hold, lock, maintain, cleanup, gcNested,
\* leaveWrite; for the poller: gc.
PC == {"idle", "wantGc", "gc", "wantRead", "reading", "infer", "leave",
       "wantWrite", "hold", "lock", "maintain", "cleanup", "gcNested", "leaveWrite"}

Goto(t, label) == pc' = [pc EXCEPT ![t] = label]

Init ==
    /\ pc = [t \in Threads |-> "idle"]
    /\ needs = [t \in Threads |-> FALSE]
    /\ readers = {} /\ waiting = {} /\ writer = Nobody /\ depth = 0 /\ asleep = {}
    /\ due = FALSE
    /\ shared = {} /\ exclusive = Nobody
    /\ local = Nobody
    /\ fault = FALSE

----------------------------------------------------------------------------
(* The gate.  A waiter whose condition fails goes to sleep; notify_all     *)
(* wakes every sleeper.                                                    *)

\* Mutants: a reader looks only for waiting writers, or only for the owner.
MayReadUnlessWaiting == waiting = {}
MayReadUnlessOwned == writer = Nobody

MayRead == writer = Nobody /\ waiting = {}
MayWrite == writer = Nobody /\ readers = {}
NotifyAll == asleep' = {}

Sleep(t) ==
    /\ t \notin asleep
    /\ \/ pc[t] = "wantRead" /\ ~MayRead
       \/ pc[t] \in {"wantGc", "wantWrite"} /\ ~MayWrite
    /\ asleep' = asleep \cup {t}
    /\ UNCHANGED <<pc, needs, readers, waiting, writer, depth, due, flock, local, fault>>

\* exclusive(), entry of another thread than the owner.
AskWrite(t) ==
    /\ waiting' = waiting \cup {t}
    /\ UNCHANGED <<readers, writer, depth, asleep>>

GrantWrite(t) ==
    /\ t \notin asleep
    /\ MayWrite
    /\ writer' = t
    /\ depth' = 1
    /\ waiting' = waiting \ {t}
    /\ NotifyAll
    /\ UNCHANGED readers

\* Mutant: the nested section gives the gate away.
LeaveWriteAtOnce ==
    /\ depth' = depth - 1
    /\ writer' = Nobody
    /\ NotifyAll
    /\ UNCHANGED <<readers, waiting>>

LeaveWrite ==
    /\ depth' = depth - 1
    /\ IF depth = 1 THEN writer' = Nobody /\ NotifyAll ELSE UNCHANGED <<writer, asleep>>
    /\ UNCHANGED <<readers, waiting>>

----------------------------------------------------------------------------
(* RknnBackend.infer and infer_shared_io, on a worker.                     *)

\* collect_pending(wait=True): with force when the handle needs collection,
\* else only when half a second has passed since the request (the choice).
BeginInfer(w) ==
    /\ pc[w] = "idle"
    /\ \E n \in Collects[w] :
          /\ needs' = [needs EXCEPT ![w] = n]
          /\ \/ /\ due
                /\ Goto(w, "wantGc")
                /\ AskWrite(w)
             \/ /\ ~due \/ ~n
                /\ Goto(w, "wantRead")
                /\ UNCHANGED gate
    /\ UNCHANGED <<due, flock, local, fault>>

EnterGc(w) ==
    /\ pc[w] = "wantGc"
    /\ GrantWrite(w)
    /\ Goto(w, "gc")
    /\ UNCHANGED <<needs, due, flock, local, fault>>

\* collect() forgets the request first, so one that arrives during the run
\* is kept; someone else may already have served it, and without force a
\* request younger than the delay is left for later.  A collection that
\* raises asks again and ends the operation.
Collect(t) ==
    LET onward == IF t \in Workers THEN "wantRead" ELSE "idle" IN
    /\ pc[t] = "gc"
    /\ \/ due' = FALSE /\ Goto(t, onward)
       \/ ~needs[t] /\ UNCHANGED due /\ Goto(t, onward)
       \/ due /\ UNCHANGED due /\ Goto(t, "idle")
    /\ LeaveWrite
    /\ UNCHANGED <<needs, flock, local, fault>>

EnterRead(w) ==
    /\ pc[w] = "wantRead"
    /\ w \notin asleep
    /\ MayRead
    /\ readers' = readers \cup {w}
    /\ Goto(w, "reading")
    /\ UNCHANGED <<needs, waiting, writer, depth, asleep, due, flock, local, fault>>

\* inference(): the fault is checked before and after the shared lock is
\* taken, and _validate_admission still before the native call.
LockShared(w) ==
    /\ pc[w] = "reading"
    /\ ~fault
    /\ exclusive = Nobody
    /\ shared' = shared \cup {w}
    /\ Goto(w, "infer")
    /\ UNCHANGED <<needs, gate, due, exclusive, local, fault>>

\* A fault, an admission that is refused, or a timeout while the lock is held.
RefuseInfer(w) ==
    /\ pc[w] = "reading"
    /\ Goto(w, "leave")
    /\ UNCHANGED <<needs, gate, due, flock, local, fault>>

\* The native call returned or raised: its own descriptor is unlocked.
EndInfer(w) ==
    /\ pc[w] = "infer"
    /\ shared' = shared \ {w}
    /\ Goto(w, "leave")
    /\ UNCHANGED <<needs, gate, due, exclusive, local, fault>>

LeaveRead(w) ==
    /\ pc[w] = "leave"
    /\ due' = (due \/ needs[w])
    /\ readers' = readers \ {w}
    /\ NotifyAll
    /\ Goto(w, "idle")
    /\ UNCHANGED <<needs, waiting, writer, depth, flock, local, fault>>

----------------------------------------------------------------------------
(* RknnBackend.load, release, open_shared_io and close_shared_io, on a     *)
(* connection.  hold() and what it protects are inside the gate.           *)

BeginMaintain(c) ==
    /\ pc[c] = "idle"
    /\ \E n \in Collects[c] : needs' = [needs EXCEPT ![c] = n]
    /\ Goto(c, "wantWrite")
    /\ AskWrite(c)
    /\ UNCHANGED <<due, flock, local, fault>>

EnterWrite(c) ==
    /\ pc[c] = "wantWrite"
    /\ GrantWrite(c)
    /\ Goto(c, "hold")
    /\ UNCHANGED <<needs, due, flock, local, fault>>

\* hold(): a quarantined driver raises, a busy local mutex times out.
Hold(c) ==
    /\ pc[c] = "hold"
    /\ IF fault \/ local # Nobody
       THEN Goto(c, "cleanup") /\ UNCHANGED local
       ELSE local' = c /\ Goto(c, "lock")
    /\ UNCHANGED <<needs, gate, due, flock, fault>>

LockExclusive(c) ==
    /\ pc[c] = "lock"
    /\ exclusive = Nobody /\ shared = {}
    /\ exclusive' = c
    /\ Goto(c, "maintain")
    /\ UNCHANGED <<needs, gate, due, shared, local, fault>>

\* Mutant: a blocking flock, without a deadline, behind rkipc.
LockTimeoutNever(c) ==
    /\ pc[c] = "lock"
    /\ exclusive \notin {Nobody, Ipc} /\ shared = {}
    /\ local' = Nobody
    /\ Goto(c, "cleanup")
    /\ UNCHANGED <<needs, gate, due, flock, fault>>

LockTimeout(c) ==
    /\ pc[c] = "lock"
    /\ ~(exclusive = Nobody /\ shared = {})
    /\ local' = Nobody
    /\ Goto(c, "cleanup")
    /\ UNCHANGED <<needs, gate, due, flock, fault>>

\* The native calls succeeded, or failed and were rolled back.
EndMaintain(c) ==
    /\ pc[c] = "maintain"
    /\ exclusive' = Nobody
    /\ local' = Nobody
    /\ Goto(c, "cleanup")
    /\ UNCHANGED <<needs, gate, due, shared, fault>>

\* Mutant: hold() unlocks although the teardown failed.
QuarantineUnlocks(c) ==
    /\ pc[c] = "maintain"
    /\ exclusive' = Nobody
    /\ local' = Nobody
    /\ fault' = TRUE
    /\ Goto(c, "cleanup")
    /\ UNCHANGED <<needs, gate, due, shared>>

\* retain_fail_closed: a release or a rollback failed.  hold() then keeps
\* the descriptor and the mutex.
Quarantine(c) ==
    /\ pc[c] = "maintain"
    /\ exclusive' = Retained
    /\ local' = Retained
    /\ fault' = TRUE
    /\ Goto(c, "cleanup")
    /\ UNCHANGED <<needs, gate, due, shared>>

\* The finally block: request a collection and run it as the gate's owner.
Cleanup(c) ==
    /\ pc[c] = "cleanup"
    /\ IF needs[c]
       THEN /\ due' = TRUE
            /\ depth' = depth + 1
            /\ Goto(c, "gcNested")
       ELSE /\ Goto(c, "leaveWrite")
            /\ UNCHANGED <<due, depth>>
    /\ UNCHANGED <<needs, readers, waiting, writer, asleep, flock, local, fault>>

CollectNested(c) ==
    /\ pc[c] = "gcNested"
    /\ due' \in {FALSE, due}
    /\ Goto(c, "leaveWrite")
    /\ LeaveWrite
    /\ UNCHANGED <<needs, flock, local, fault>>

EndWrite(c) ==
    /\ pc[c] = "leaveWrite"
    /\ Goto(c, "idle")
    /\ LeaveWrite
    /\ UNCHANGED <<needs, due, flock, local, fault>>

----------------------------------------------------------------------------
\* Mutant: the accept loop collects without asking for idle models.
PollBesideReaders(p) ==
    /\ pc[p] = "idle"
    /\ due
    /\ writer = Nobody
    /\ writer' = p
    /\ depth' = 1
    /\ NotifyAll
    /\ Goto(p, "gc")
    /\ UNCHANGED <<needs, readers, waiting, due, flock, local, fault>>

\* The accept loop: collect_pending() without waiting for running models.
Poll(p) ==
    /\ pc[p] = "idle"
    /\ due
    /\ MayWrite
    /\ writer' = p
    /\ depth' = 1
    /\ NotifyAll
    /\ Goto(p, "gc")
    /\ UNCHANGED <<needs, readers, waiting, due, flock, local, fault>>

IpcLock ==
    /\ exclusive = Nobody /\ shared = {}
    /\ exclusive' = Ipc
    /\ UNCHANGED <<pc, needs, gate, due, shared, local, fault>>

IpcUnlock ==
    /\ exclusive = Ipc
    /\ exclusive' = Nobody
    /\ UNCHANGED <<pc, needs, gate, due, shared, local, fault>>

\* The daemon dies anywhere and is started again: the kernel drops its locks.
Restart ==
    /\ pc' = [t \in Threads |-> "idle"]
    /\ needs' = [t \in Threads |-> FALSE]
    /\ readers' = {} /\ waiting' = {} /\ writer' = Nobody /\ depth' = 0 /\ asleep' = {}
    /\ due' = FALSE
    /\ shared' = {}
    /\ exclusive' = IF exclusive = Ipc THEN Ipc ELSE Nobody
    /\ local' = Nobody
    /\ fault' = FALSE

WorkerStep(w) ==
    \/ EnterGc(w) \/ Collect(w) \/ EnterRead(w) \/ LockShared(w)
    \/ RefuseInfer(w) \/ EndInfer(w) \/ LeaveRead(w)

ConnectionStep(c) ==
    \/ EnterWrite(c) \/ Hold(c) \/ LockExclusive(c) \/ LockTimeout(c)
    \/ EndMaintain(c) \/ Quarantine(c) \/ Cleanup(c) \/ CollectNested(c) \/ EndWrite(c)

Next ==
    \/ \E w \in Workers : BeginInfer(w) \/ WorkerStep(w)
    \/ \E c \in Connections : BeginMaintain(c) \/ ConnectionStep(c)
    \/ \E p \in Pollers : Poll(p) \/ Collect(p)
    \/ \E t \in Threads : Sleep(t)
    \/ IpcLock \/ IpcUnlock \/ Restart

Spec == Init /\ [][Next]_vars

\* A thread that can move does; rkipc and the callers may stop at any time.
FairSpec ==
    /\ Spec
    /\ \A w \in Workers : WF_vars(WorkerStep(w))
    /\ \A c \in Connections : WF_vars(ConnectionStep(c))
    /\ \A p \in Pollers : WF_vars(Collect(p))

----------------------------------------------------------------------------
\* Every variable has the shape of the attribute it models.
TypeOK ==
    /\ pc \in [Threads -> PC]
    /\ needs \in [Threads -> BOOLEAN]
    /\ readers \subseteq Workers
    /\ waiting \subseteq Threads
    /\ writer \in Threads \cup {Nobody}
    /\ depth \in 0..2
    /\ asleep \subseteq Threads
    /\ due \in BOOLEAN
    /\ shared \subseteq Workers
    /\ exclusive \in Connections \cup {Nobody, Ipc, Retained}
    /\ local \in Connections \cup {Nobody, Retained}
    /\ fault \in BOOLEAN

At(labels) == {t \in Threads : pc[t] \in labels}
Inferring == At({"infer"})
Maintaining == At({"maintain"})
Collecting == At({"gc", "gcNested"})

\* "Independent contexts may infer concurrently under shared kernel fences.
\* Load/release use an exclusive fence, also honored by rkipc", and GC runs
\* with no native call in the process: maintenance, collection, rkipc and the
\* set of running inferences never overlap.
NativeExclusive ==
    /\ \A t, u \in Maintaining \cup Collecting : t = u
    /\ Maintaining \cup Collecting # {} => Inferring = {}
    /\ exclusive = Ipc => Inferring \cup Maintaining = {}

\* "No further driver call can start in this process" after an unsafe
\* teardown: the quarantine comes with both locks kept, and nobody, rkipc
\* included, is inside the driver until the process has died.
QuarantineSealed ==
    fault => /\ exclusive = Retained /\ local = Retained
             /\ Inferring \cup Maintaining = {}

\* The labels between taking and leaving each side of the gate.
ReadLabels == {"reading", "infer", "leave"}
WriteLabels == {"gc", "hold", "lock", "maintain", "cleanup", "gcNested", "leaveWrite"}

\* The gate's counters say where the threads are: no reader, owner, depth or
\* waiting writer is left behind by an error path.
GateBooks ==
    /\ \A t \in Threads :
          /\ t \in readers <=> pc[t] \in ReadLabels
          /\ t \in waiting <=> pc[t] \in {"wantGc", "wantWrite"}
          /\ writer = t <=> pc[t] \in WriteLabels
    /\ depth = IF writer = Nobody THEN 0 ELSE IF pc[writer] = "gcNested" THEN 2 ELSE 1
    /\ writer # Nobody => readers = {}

\* The kernel lock and the mutex in the coordinator likewise: a descriptor
\* that is not the quarantined one never outlives its operation.
LockBooks ==
    /\ \A t \in Threads :
          /\ t \in shared <=> pc[t] = "infer"
          /\ exclusive = t <=> pc[t] = "maintain"
          /\ local = t <=> pc[t] \in {"lock", "maintain"}
    /\ shared # {} => exclusive = Nobody
    /\ fault <=> exclusive = Retained
    /\ fault <=> local = Retained

\* The inductive invariant behind NativeExclusive and QuarantineSealed.
IInv == TypeOK /\ GateBooks /\ LockBooks

\* What the fence promises, with its states read off the program counters.
Abstract == INSTANCE NativeExclusion WITH
    inferring <- Inferring,
    maintaining <- Maintaining,
    collecting <- Collecting,
    ipc <- (exclusive = Ipc),
    sealed <- fault

\* The fence implements the abstract exclusion specification.
ImplementsExclusion == Abstract!Spec

\* "A waiting writer prevents new readers from extending the busy period
\* indefinitely", so a due collection cannot be starved by busy models: when
\* a worker waits to collect, some thread collects or the daemon dies.
CollectionNotStarved == \A w \in Workers : pc[w] = "wantGc" ~> Collecting # {} \/ pc[w] = "idle"

\* No deadlock between gate, mutex and kernel lock: maintenance that got the
\* gate gives it back, in a quarantined process too.
MaintenanceEnds ==
    \A c \in Connections : pc[c] = "hold" ~> pc[c] = "idle"
=============================================================================
