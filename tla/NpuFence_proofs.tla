--------------------------- MODULE NpuFence_proofs ---------------------------
(***************************************************************************)
(* The driver fence, for any number of workers, connections and pollers:   *)
(* its books stay consistent (IInv is inductive), so native operations     *)
(* exclude each other as they must, a quarantined driver is never entered, *)
(* and the fence implements the abstract specification NativeExclusion.    *)
(***************************************************************************)
EXTENDS NpuFence, TLAPS

\* The initial state satisfies the inductive invariant.
LEMMA InitIInv == Init => IInv
<1> SUFFICES ASSUME Init PROVE IInv
  OBVIOUS
<1>1. TypeOK
  <2>1. /\ pc \in [Threads -> PC] /\ needs \in [Threads -> BOOLEAN]
        /\ depth \in 0..2
    BY DEF Init, PC
  <2>2. /\ due \in BOOLEAN /\ fault \in BOOLEAN
    BY Zenon DEF Init
  <2>3. /\ readers \subseteq Workers /\ waiting \subseteq Threads
        /\ asleep \subseteq Threads /\ shared \subseteq Workers
        /\ writer = Nobody /\ exclusive = Nobody /\ local = Nobody
    BY DEF Init
  <2>4. QED
    BY <2>1, <2>2, <2>3 DEF TypeOK
<1>2. GateBooks
  BY ThreadKinds DEF Init, GateBooks, ReadLabels, WriteLabels, Threads
<1>3. LockBooks
  <2>1. /\ shared = {} /\ exclusive = Nobody /\ local = Nobody /\ fault = FALSE
        /\ \A t \in Threads : pc[t] = "idle" /\ t # Nobody
    BY ThreadKinds DEF Init
  <2>2. exclusive # Retained /\ local # Retained
    BY <2>1, ThreadKinds
  <2>3. \A t \in Threads : /\ t \in shared <=> pc[t] = "infer"
                           /\ exclusive = t <=> pc[t] = "maintain"
                           /\ local = t <=> pc[t] \in {"lock", "maintain"}
    BY <2>1
  <2>4. QED
    BY <2>1, <2>2, <2>3, Zenon DEF LockBooks
<1>4. QED
  BY <1>1, <1>2, <1>3 DEF IInv

\* The operations of a worker keep the books.
LEMMA WorkerIInv ==
    ASSUME IInv, NEW w \in Workers, BeginInfer(w) \/ WorkerStep(w)
    PROVE  IInv'
<1> USE ThreadKinds DEF IInv, TypeOK, GateBooks, LockBooks, ReadLabels, WriteLabels,
                        PC, Threads, Goto, gate, flock
<1>1. CASE BeginInfer(w)
  BY <1>1 DEF BeginInfer, AskWrite
<1>2. CASE EnterGc(w)
  BY <1>2 DEF EnterGc, GrantWrite, MayWrite, NotifyAll
<1>3. CASE Collect(w)
  <2>1. writer = w /\ depth = 1 /\ w \in Threads
    BY <1>3 DEF Collect
  <2>2. PICK next \in {"wantRead", "idle"} : pc' = [pc EXCEPT ![w] = next]
    BY <1>3 DEF Collect
  <2>3. /\ depth' = 0 /\ writer' = Nobody /\ asleep' = {}
        /\ UNCHANGED <<readers, waiting, needs, shared, exclusive, local, fault>>
    BY <1>3, <2>1 DEF Collect, LeaveWrite, NotifyAll
  <2>4. due' \in BOOLEAN
    BY <1>3 DEF Collect
  <2>5. QED
    BY <2>1, <2>2, <2>3, <2>4
<1>4. CASE EnterRead(w)
  BY <1>4 DEF EnterRead, MayRead
<1>5. CASE LockShared(w)
  BY <1>5 DEF LockShared
<1>6. CASE RefuseInfer(w)
  BY <1>6 DEF RefuseInfer
<1>7. CASE EndInfer(w)
  BY <1>7 DEF EndInfer
<1>8. CASE LeaveRead(w)
  BY <1>8 DEF LeaveRead, NotifyAll
<1>9. QED
  BY <1>1, <1>2, <1>3, <1>4, <1>5, <1>6, <1>7, <1>8 DEF WorkerStep

\* The operations of a connection keep the books, quarantine included.
LEMMA ConnectionIInv ==
    ASSUME IInv, NEW c \in Connections, BeginMaintain(c) \/ ConnectionStep(c)
    PROVE  IInv'
<1> USE ThreadKinds DEF IInv, TypeOK, GateBooks, LockBooks, ReadLabels, WriteLabels,
                        PC, Threads, Goto, gate, flock
<1>1. CASE BeginMaintain(c)
  BY <1>1 DEF BeginMaintain, AskWrite
<1>2. CASE EnterWrite(c)
  BY <1>2 DEF EnterWrite, GrantWrite, MayWrite, NotifyAll
<1>3. CASE Hold(c)
  BY <1>3 DEF Hold
<1>4. CASE LockExclusive(c)
  BY <1>4 DEF LockExclusive
<1>5. CASE LockTimeout(c)
  BY <1>5 DEF LockTimeout
<1>6. CASE EndMaintain(c)
  BY <1>6 DEF EndMaintain
<1>7. CASE Quarantine(c)
  BY <1>7 DEF Quarantine
<1>8. CASE Cleanup(c)
  <2>1. writer = c /\ depth = 1
    BY <1>8 DEF Cleanup
  <2>2. UNCHANGED <<needs, readers, waiting, writer, asleep, shared, exclusive, local, fault>>
    BY <1>8 DEF Cleanup
  <2>3. due' \in BOOLEAN
    BY <1>8 DEF Cleanup
  <2>4. \/ depth' = 2 /\ pc' = [pc EXCEPT ![c] = "gcNested"]
        \/ depth' = 1 /\ pc' = [pc EXCEPT ![c] = "leaveWrite"]
    BY <1>8, <2>1 DEF Cleanup
  <2>5. QED
    BY <1>8, <2>1, <2>2, <2>3, <2>4 DEF Cleanup
<1>9. CASE CollectNested(c)
  <2>1. writer = c /\ depth = 2
    BY <1>9 DEF CollectNested
  <2>2. /\ depth' = 1 /\ pc' = [pc EXCEPT ![c] = "leaveWrite"]
        /\ UNCHANGED <<needs, readers, waiting, writer, asleep, shared, exclusive, local, fault>>
    BY <1>9, <2>1 DEF CollectNested, LeaveWrite
  <2>3. due' \in BOOLEAN
    BY <1>9, Zenon DEF CollectNested
  <2>4. QED
    BY <1>9, <2>1, <2>2, <2>3 DEF CollectNested
<1>10. CASE EndWrite(c)
  BY <1>10 DEF EndWrite, LeaveWrite, NotifyAll
<1>11. QED
  BY <1>1, <1>2, <1>3, <1>4, <1>5, <1>6, <1>7, <1>8, <1>9, <1>10 DEF ConnectionStep

\* The accept loop, a sleeping waiter, rkipc and the death of the daemon.
LEMMA OtherIInv ==
    ASSUME IInv,
           \/ \E p \in Pollers : Poll(p) \/ Collect(p)
           \/ \E t \in Threads : Sleep(t)
           \/ IpcLock \/ IpcUnlock \/ Restart
    PROVE  IInv'
<1> USE ThreadKinds DEF IInv, TypeOK, GateBooks, LockBooks, ReadLabels, WriteLabels,
                        PC, Threads, Goto, gate, flock
<1>1. ASSUME NEW p \in Pollers, Poll(p) PROVE IInv'
  BY <1>1 DEF Poll, MayWrite, NotifyAll
<1>2. ASSUME NEW p \in Pollers, Collect(p) PROVE IInv'
  <2>1. writer = p /\ depth = 1 /\ p \in Threads
    BY <1>2 DEF Collect
  <2>2. pc' = [pc EXCEPT ![p] = "idle"]
    BY <1>2 DEF Collect
  <2>3. /\ depth' = 0 /\ writer' = Nobody /\ asleep' = {}
        /\ UNCHANGED <<readers, waiting, needs, shared, exclusive, local, fault>>
    BY <1>2, <2>1 DEF Collect, LeaveWrite, NotifyAll
  <2>4. due' \in BOOLEAN
    BY <1>2 DEF Collect
  <2>5. QED
    BY <2>1, <2>2, <2>3, <2>4
<1>3. ASSUME NEW t \in Threads, Sleep(t) PROVE IInv'
  BY <1>3 DEF Sleep
<1>4. CASE IpcLock
  BY <1>4 DEF IpcLock
<1>5. CASE IpcUnlock
  BY <1>5 DEF IpcUnlock
<1>6. CASE Restart
  <2>1. TypeOK'
    <3>1. /\ pc' \in [Threads -> PC] /\ needs' \in [Threads -> BOOLEAN]
          /\ readers' = {} /\ waiting' = {} /\ asleep' = {} /\ shared' = {}
          /\ writer' = Nobody /\ local' = Nobody /\ depth' = 0
          /\ exclusive' \in {Nobody, Ipc}
      BY <1>6 DEF Restart
    <3>2. due' \in BOOLEAN /\ fault' \in BOOLEAN
      BY <1>6, Zenon DEF Restart
    <3>3. QED
      BY <3>1, <3>2 DEF TypeOK
  <2>2. GateBooks'
    BY <1>6 DEF Restart, GateBooks
  <2>3. LockBooks'
    <3>1. /\ shared' = {} /\ local' = Nobody /\ exclusive' \in {Nobody, Ipc}
          /\ \A t \in Threads : pc'[t] = "idle" /\ t \notin {Nobody, Ipc}
          /\ Retained \notin {Nobody, Ipc}
      BY <1>6 DEF Restart
    <3>2. /\ exclusive' # Retained /\ local' # Retained
          /\ \A t \in Threads : exclusive' # t /\ local' # t
      BY <3>1
    <3>3. ~fault'
      BY <1>6, Zenon DEF Restart
    <3>4. QED
      BY <3>1, <3>2, <3>3 DEF LockBooks
  <2>4. QED
    BY <2>1, <2>2, <2>3 DEF IInv
<1>7. QED
  BY <1>1, <1>2, <1>3, <1>4, <1>5, <1>6

\* IInv is inductive.
LEMMA NextIInv == IInv /\ [Next]_vars => IInv'
<1> SUFFICES ASSUME IInv, [Next]_vars PROVE IInv'
  OBVIOUS
<1>1. CASE \E w \in Workers : BeginInfer(w) \/ WorkerStep(w)
  BY <1>1, WorkerIInv
<1>2. CASE \E c \in Connections : BeginMaintain(c) \/ ConnectionStep(c)
  BY <1>2, ConnectionIInv
<1>3. CASE \/ \E p \in Pollers : Poll(p) \/ Collect(p)
           \/ \E t \in Threads : Sleep(t)
           \/ IpcLock \/ IpcUnlock \/ Restart
  BY <1>3, OtherIInv
<1>4. CASE UNCHANGED vars
  BY <1>4 DEF vars, gate, flock, IInv, TypeOK, GateBooks, LockBooks
<1>5. QED
  BY <1>1, <1>2, <1>3, <1>4 DEF Next

\* The gate, the kernel lock and the coordinator's mutex always agree with
\* where the threads are.
THEOREM Consistent == Spec => []IInv
<1>1. QED
  BY InitIInv, NextIInv, PTL DEF Spec

\* Maintenance, garbage collection, rkipc and the running inferences never
\* overlap.
THEOREM Exclusion == Spec => []NativeExclusive
<1>1. IInv => NativeExclusive
  <2> SUFFICES ASSUME IInv PROVE NativeExclusive
    OBVIOUS
  <2> USE DEF IInv, GateBooks, LockBooks, At, Inferring, Maintaining, Collecting
  <2>1. \A t \in Maintaining \cup Collecting : writer = t /\ t \in Threads
    BY DEF WriteLabels
  <2>2. \A t \in Inferring : t \in readers
    BY DEF ReadLabels
  <2>3. Maintaining \cup Collecting # {} => Inferring = {}
    BY <2>1, <2>2, ThreadKinds
  <2>4. exclusive = Ipc => Inferring \cup Maintaining = {}
    BY ThreadKinds
  <2>5. QED
    BY <2>1, <2>3, <2>4 DEF NativeExclusive
<1>2. QED
  BY <1>1, Consistent, PTL

\* After an unsafe teardown nobody is in the driver until the daemon dies.
THEOREM Sealed == Spec => []QuarantineSealed
<1>1. IInv => QuarantineSealed
  <2> SUFFICES ASSUME IInv, fault PROVE QuarantineSealed
    BY DEF QuarantineSealed
  <2>1. exclusive = Retained /\ local = Retained
    BY DEF IInv, LockBooks
  <2>2. Inferring \cup Maintaining = {}
    BY <2>1, ThreadKinds DEF IInv, LockBooks, At, Inferring, Maintaining
  <2>3. QED
    BY <2>1, <2>2, Zenon DEF QuarantineSealed
<1>2. QED
  BY <1>1, Consistent, PTL

\* A step that leaves alone who is inside the driver is an abstract stutter.
LEMMA SameActivity ==
    ASSUME Inferring' = Inferring, Maintaining' = Maintaining,
           Collecting' = Collecting, (exclusive = Ipc)' = (exclusive = Ipc),
           fault' = fault
    PROVE  [Abstract!Next]_(Abstract!vars)
  BY Zenon DEF Abstract!vars

\* Every step of the fence is a step of NativeExclusion or changes nothing
\* there.
LEMMA StepRefines == IInv /\ [Next]_vars => [Abstract!Next]_(Abstract!vars)
<1> SUFFICES ASSUME IInv, [Next]_vars PROVE [Abstract!Next]_(Abstract!vars)
  OBVIOUS
<1> USE ThreadKinds DEF IInv, TypeOK, GateBooks, LockBooks, ReadLabels, WriteLabels,
                        Goto, At, Inferring, Maintaining, Collecting, gate, flock
<1>a. ASSUME NEW t \in Threads,
             BeginInfer(t) \/ EnterRead(t) \/ RefuseInfer(t) \/ LeaveRead(t)
             \/ BeginMaintain(t) \/ EnterWrite(t) \/ Hold(t) \/ LockTimeout(t)
             \/ EndWrite(t) \/ Sleep(t)
      PROVE  [Abstract!Next]_(Abstract!vars)
  <2>1. /\ exclusive' = exclusive /\ fault' = fault
        /\ \A u \in Threads : \A l \in {"infer", "maintain", "gc", "gcNested"} :
              pc'[u] = l <=> pc[u] = l
    BY <1>a DEF BeginInfer, EnterRead, RefuseInfer, LeaveRead, BeginMaintain,
                EnterWrite, Hold, LockTimeout, EndWrite, Sleep
  <2>2. /\ Inferring' = Inferring /\ Maintaining' = Maintaining
        /\ Collecting' = Collecting
    BY <2>1
  <2>3. QED
    BY <2>1, <2>2, SameActivity
<1>b. ASSUME NEW t \in Threads, LockShared(t) PROVE Abstract!StartInference(t)
  <2>1. /\ Inferring' = Inferring \cup {t} /\ Maintaining' = Maintaining
        /\ Collecting' = Collecting
    BY <1>b DEF LockShared
  <2>2. Maintaining = {} /\ Collecting = {} /\ exclusive # Ipc
    BY <1>b DEF LockShared
  <2>3. ~fault /\ fault' = fault /\ exclusive' = exclusive
    BY <1>b, Zenon DEF LockShared
  <2>4. QED
    BY <2>1, <2>2, <2>3, Zenon DEF Abstract!StartInference, Abstract!DriverOpen
<1>c. ASSUME NEW t \in Threads, EndInfer(t) PROVE Abstract!EndInference(t)
  <2>1. /\ Inferring' = Inferring \ {t} /\ Maintaining' = Maintaining
        /\ Collecting' = Collecting
    BY <1>c DEF EndInfer
  <2>2. fault' = fault /\ exclusive' = exclusive
    BY <1>c DEF EndInfer
  <2>3. QED
    BY <2>1, <2>2, Zenon DEF Abstract!EndInference
<1>d. ASSUME NEW t \in Threads, EnterGc(t) \/ Poll(t) \/ Cleanup(t)
      PROVE  Abstract!StartCollection(t) \/ [Abstract!Next]_(Abstract!vars)
  <2>1. /\ Inferring' = Inferring /\ Maintaining' = Maintaining
        /\ fault' = fault /\ exclusive' = exclusive
    BY <1>d DEF EnterGc, Poll, Cleanup
  <2>2. CASE Cleanup(t) /\ ~needs[t]
    <3>1. Collecting' = Collecting
      BY <2>2 DEF Cleanup
    <3>2. QED
      BY <2>1, <3>1, SameActivity
  <2>3. CASE EnterGc(t) \/ Poll(t) \/ (Cleanup(t) /\ needs[t])
    <3>1. Collecting' = Collecting \cup {t}
      BY <2>3 DEF EnterGc, Poll, Cleanup
    <3>2. Inferring = {} /\ Maintaining = {} /\ Collecting = {}
      BY <2>3 DEF EnterGc, GrantWrite, Poll, MayWrite, Cleanup
    <3>3. QED
      BY <2>1, <3>1, <3>2, Zenon DEF Abstract!StartCollection
  <2>4. QED
    BY <1>d, <2>2, <2>3
<1>e. ASSUME NEW t \in Threads, Collect(t) \/ CollectNested(t)
      PROVE  Abstract!EndCollection(t)
  <2>1. /\ Inferring' = Inferring /\ Maintaining' = Maintaining
        /\ Collecting' = Collecting \ {t}
    BY <1>e DEF Collect, CollectNested
  <2>2. fault' = fault /\ exclusive' = exclusive
    BY <1>e DEF Collect, CollectNested
  <2>3. QED
    BY <2>1, <2>2, Zenon DEF Abstract!EndCollection
<1>f. ASSUME NEW t \in Threads, LockExclusive(t) PROVE Abstract!StartMaintenance(t)
  <2>1. /\ Inferring' = Inferring /\ Collecting' = Collecting
        /\ Inferring = {} /\ Maintaining = {} /\ Collecting = {}
    BY <1>f DEF LockExclusive
  <2>2. Maintaining' = {t}
    BY <1>f, <2>1 DEF LockExclusive
  <2>3. /\ exclusive # Ipc /\ exclusive' # Ipc
    BY <1>f DEF LockExclusive, Threads
  <2>4. exclusive # Retained /\ fault' = fault
    BY <1>f DEF LockExclusive
  <2>5. ~fault
    BY <2>4, Zenon
  <2>6. QED
    BY <2>1, <2>2, <2>3, <2>4, <2>5, Zenon
    DEF Abstract!StartMaintenance, Abstract!DriverOpen
<1>g. ASSUME NEW t \in Threads, EndMaintain(t) PROVE Abstract!EndMaintenance(t)
  <2>1. /\ Inferring' = Inferring /\ Collecting' = Collecting
        /\ Maintaining' = Maintaining \ {t}
    BY <1>g DEF EndMaintain
  <2>2. exclusive # Ipc /\ exclusive' # Ipc /\ fault' = fault
    BY <1>g DEF EndMaintain
  <2>3. QED
    BY <2>1, <2>2, Zenon DEF Abstract!EndMaintenance
<1>h. ASSUME NEW t \in Threads, Quarantine(t) PROVE Abstract!SealDriver(t)
  <2>1. /\ Inferring' = Inferring /\ Collecting' = Collecting
        /\ Maintaining = {t} /\ Maintaining' = {}
    BY <1>h DEF Quarantine
  <2>2. exclusive # Ipc /\ exclusive' # Ipc
    BY <1>h DEF Quarantine
  <2>3. fault' = TRUE
    BY <1>h, Zenon DEF Quarantine
  <2>4. QED
    BY <2>1, <2>2, <2>3, Zenon DEF Abstract!SealDriver
<1>i. CASE IpcLock
  <2>1. /\ Inferring' = Inferring /\ Collecting' = Collecting
        /\ Maintaining' = Maintaining /\ Inferring = {} /\ Maintaining = {}
    BY <1>i DEF IpcLock
  <2>2. exclusive # Ipc /\ exclusive' = Ipc /\ fault' = fault /\ exclusive # Retained
    BY <1>i DEF IpcLock
  <2>3. Abstract!IpcStart
    BY <2>1, <2>2, Zenon DEF Abstract!IpcStart, Abstract!DriverOpen
  <2>4. QED
    BY <2>3 DEF Abstract!Next
<1>j. CASE IpcUnlock
  <2>1. /\ Inferring' = Inferring /\ Collecting' = Collecting
        /\ Maintaining' = Maintaining /\ exclusive' # Ipc /\ fault' = fault
    BY <1>j DEF IpcUnlock
  <2>2. Abstract!IpcEnd
    BY <2>1, Zenon DEF Abstract!IpcEnd
  <2>3. QED
    BY <2>2 DEF Abstract!Next
<1>k. CASE Restart
  <2>1. /\ Inferring' = {} /\ Maintaining' = {} /\ Collecting' = {}
    BY <1>k DEF Restart
  <2>2. (exclusive = Ipc)' = (exclusive = Ipc)
    BY <1>k DEF Restart
  <2>3. fault' = FALSE
    BY <1>k, Zenon DEF Restart
  <2>4. Abstract!Die
    BY <2>1, <2>2, <2>3, Zenon DEF Abstract!Die
  <2>5. QED
    BY <2>4 DEF Abstract!Next
<1>l. CASE UNCHANGED vars
  <2>1. pc' = pc /\ exclusive' = exclusive /\ fault' = fault
    BY <1>l DEF vars
  <2>2. QED
    BY <2>1, SameActivity
<1>q. QED
  BY <1>a, <1>b, <1>c, <1>d, <1>e, <1>f, <1>g, <1>h, <1>i, <1>j, <1>k, <1>l
  DEF Next, WorkerStep, ConnectionStep, Threads, Abstract!Next

\* The gate, the kernel lock and the quarantine together implement the
\* exclusion that the daemon promises.
THEOREM Implements == Spec => ImplementsExclusion
<1>1. Init => Abstract!Init
  <2> SUFFICES ASSUME Init PROVE Abstract!Init
    OBVIOUS
  <2>1. Inferring = {} /\ Maintaining = {} /\ Collecting = {} /\ exclusive # Ipc
    BY ThreadKinds DEF Init, At, Inferring, Maintaining, Collecting
  <2>2. fault = FALSE
    BY Zenon DEF Init
  <2>3. QED
    BY <2>1, <2>2, Zenon DEF Abstract!Init
<1>2. QED
  BY <1>1, StepRefines, Consistent, PTL DEF Spec, Abstract!Spec, ImplementsExclusion
=============================================================================
