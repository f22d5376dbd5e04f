----------------------- MODULE InferenceService_proofs -----------------------
(***************************************************************************)
(* InferenceService for any numbers of connections, workers, models,       *)
(* handles, channels and jobs: a native call has its context and its       *)
(* channel for itself, a revoked or closing client does not get in, and    *)
(* nothing is leaked or forgotten, and the memory in use stays inside the  *)
(* budget of the service and the limit of each application generation.     *)
(***************************************************************************)
EXTENDS InferenceService, Functions, FiniteSetTheorems, TLAPS

-----------------------------------------------------------------------------
(* Where a thread may stand. *)

Loading == {"loadNative", "loadCommit"}
Opening == {"openLock", "openOp", "openNative"}
Unloading == {"unloadOp", "unloadIo", "unloadRelease"}
Ending == {"unloadLock", "dropNext", "dropEnd"} \cup Unloading
ClientPlaces == {"gone", "hello", "idle", "leave", "loadLock", "await"}
                \cup Loading \cup Opening \cup Ending
CloserPlaces == {"serving", "closing", "dropEach", "closeRelease", "closed"} \cup Ending

(* The places where a thread owns the lifecycle lock, and those where it   *)
(* also owns the operation lock of its model.                              *)
Driving == {"loadNative", "loadCommit", "openOp", "openNative", "closeRelease"} \cup Unloading
Operating == {"openNative", "unloadIo", "unloadRelease"}

(* The end of close() has cleared the cache and still owes a release.      *)
Cleared == pc[Closer] \in {"closeRelease", "closed"}
Owed(h) == pc[Closer] = "closeRelease" /\ h \in todo[Closer]

PlaceOf(t) ==
    /\ todo[t] \subseteq (IF pc[t] = "closeRelease" THEN Handles ELSE Keys)
    /\ t = Closer => /\ pc[t] \in CloserPlaces
                     /\ pc[t] \in Ending <=> dropping[t] # None
    /\ t # Closer => /\ pc[t] \in ClientPlaces
                     /\ dropping[t] \in {None, t}
                     /\ pc[t] \in {"dropNext", "dropEnd"} => dropping[t] = t
                     /\ pc[t] \notin Ending => dropping[t] = None

Places ==
    /\ pc \in [Threads -> ClientPlaces \cup CloserPlaces]
    /\ todo \in [Threads -> SUBSET (Handles \cup Keys)]
    /\ \A t \in Threads : PlaceOf(t)
    /\ stopping <=> pc[Closer] # "serving"
    /\ Cleared => snapshot = {}

LocksOf(t) ==
    /\ pc[t] \in Driving => drv = t
    /\ pc[t] \in Operating => opLock[arg[t].handle] = t

WorkerLocks ==
    \A w \in Workers : wpc[w] \in {"outer", "gate"} \cup Inside
                       => opLock[job[wjob[w]].handle] = w

Locks == (\A t \in Threads : LocksOf(t)) /\ WorkerLocks

(* What a thread knows of its local variables, while it owns the lock.     *)
LocalOf(t) ==
    LET k == arg[t].key
        h == arg[t].handle
    IN  /\ pc[t] \in {"loadLock", "openLock", "unloadLock", "loadNative", "loadCommit",
                      "openOp", "openNative"} \cup Unloading => k \in Keys
        /\ pc[t] = "loadNative" => models[k] = None
        /\ pc[t] \in {"loadCommit", "openOp", "openNative"} \cup Unloading
              => h \in Handles /\ models[k] = h
        /\ pc[t] \in {"openOp", "openNative"} => k \in aliases[t]
        /\ pc[t] \in Unloading => k \in aliases[Target(t)]
        /\ pc[t] = "unloadIo" => io[Target(t)][k] # None
        /\ pc[t] = "unloadRelease" => io[Target(t)][k] = None
        /\ pc[t] = "await" => arg[t].job \in Jobs

Locals == \A t \in Threads : LocalOf(t)

(* A job is one worker's; its caller waits for it, or has given up and     *)
(* poisoned its channel.                                                   *)
WorkOf(w) == wpc[w] # "idle" => wjob[w] \in Jobs /\ job[wjob[w]].st = "running"

JobOf(j) ==
    /\ job[j].st = "free" => job[j] = FreeJob
    /\ job[j].st # "free" => /\ job[j].client \in Clients /\ job[j].key \in Keys
                             /\ job[j].handle \in Handles
    /\ job[j].waited => pc[job[j].client] = "await" /\ arg[job[j].client].job = j
    /\ job[j].chan # None /\ ~job[j].waited => job[j].chan \in poisoned
    /\ \A c \in Clients : pc[c] = "hello" => job[j].client # c

Work ==
    /\ \A w \in Workers : WorkOf(w)
    /\ \A v, w \in Workers : wpc[v] # "idle" /\ wpc[w] # "idle" /\ wjob[v] = wjob[w] => v = w
JobsOf == \A j \in Jobs : JobOf(j)

(* A channel is one alias's and one job's.                                 *)
ChannelsOf ==
    /\ \A i, j \in Jobs : job[i].chan # None /\ job[i].chan = job[j].chan => i = j
    /\ \A j \in Jobs, c \in Clients, k \in Keys :
          job[j].chan # None /\ io[c][k] = job[j].chan => c = job[j].client /\ k = job[j].key
    /\ \A c, d \in Clients, k, l \in Keys :
          io[c][k] # None /\ io[c][k] = io[d][l] => c = d /\ k = l

(* The cache, the contexts and the reference sets.                         *)
Contexts ==
    /\ \A k \in Keys : models[k] # None => native[models[k]] = k
    /\ ~fault => \A h \in Handles : native[h] # None => models[native[h]] = h \/ Owed(h)
    /\ pc[Closer] = "closeRelease" => \A k \in Keys : models[k] = None
    /\ ~Cleared => \A c \in Clients : \A k \in aliases[c] :
                      models[k] # None /\ c \in owners[models[k]]
    /\ \A k \in Keys : models[k] # None =>
          /\ \A c \in owners[models[k]] : k \in aliases[c]
          /\ \/ owners[models[k]] # {}
             \/ \E t \in Threads : pc[t] = "loadCommit" /\ arg[t].key = k

(* The buffers of a channel are bound to the context of its alias.         *)
OwnBuffer(x) ==
    \E c \in Clients : \E k \in aliases[c] :
        io[c][k] = x /\ models[k] = buffers[x] /\ c \in owners[models[k]]

Buffers ==
    /\ ~Cleared => \A c \in Clients, k \in Keys :
                      io[c][k] # None => k \in aliases[c] /\ buffers[io[c][k]] = models[k]
    /\ ~fault => \A x \in Channels : buffers[x] # None => OwnBuffer(x) \/ Owed(buffers[x])

(* Nothing is forgotten by whoever drops a client.                         *)
DropOf(c) ==
    /\ pc[c] \in {"gone", "hello", "dropEnd"} => aliases[c] = {}
    /\ pc[c] = "dropNext" => aliases[c] \subseteq todo[c]
    /\ pc[c] \in {"unloadLock"} \cup Unloading /\ dropping[c] # None
          => aliases[c] \subseteq todo[c] \cup {arg[c].key}
    /\ pc[c] \notin {"gone", "hello"} /\ ~Shut => c \in registered

(* A request to open a channel that is still under way when close() drops  *)
(* the clients finds its alias gone.                                       *)
LateOpen(c) ==
    pc[c] \in Opening /\ Shut =>
        \/ c \in snapshot
        \/ aliases[c] = {}
        \/ c = dropping[Closer] /\ pc[Closer] = "dropNext" /\ aliases[c] \subseteq todo[Closer]
        \/ /\ c = dropping[Closer] /\ pc[Closer] \in {"unloadLock"} \cup Unloading
           /\ aliases[c] \subseteq todo[Closer] \cup {arg[Closer].key}

Dropped == ~fault => \A c \in Clients : DropOf(c) /\ LateOpen(c)

(* A worker whose job lost its authority too early will be refused.        *)
Refused ==
    \A w \in late :
        LET c == job[wjob[w]].client
        IN  /\ wpc[w] \notin {"idle", "native"}
            /\ stopping \/ c \in closing \/ (~auth[c] /\ w \in Unchecked)

(* A native call has its context and the buffers of its channel.           *)
Bound ==
    \A w \in Workers : wpc[w] = "native" =>
        /\ native[job[wjob[w]].handle] = job[wjob[w]].key
        /\ job[wjob[w]].chan # None
              => buffers[job[wjob[w]].chan] = job[wjob[w]].handle

IInv == /\ TypeOK /\ Places /\ Locks /\ Locals /\ Work /\ JobsOf /\ ChannelsOf
        /\ Contexts /\ Buffers /\ Dropped /\ Refused /\ Bound
-----------------------------------------------------------------------------
(* Steps of one thread. *)

(* A step of thread t touches the local state of no other.                 *)
Moves(t) ==
    \A u \in Threads : u # t => /\ pc'[u] = pc[u] /\ arg'[u] = arg[u]
                                /\ todo'[u] = todo[u] /\ dropping'[u] = dropping[u]

ArgRecord == [key : Keys \cup {None}, handle : Handles \cup {None}, job : Jobs \cup {None}]
JobRecord == [st : {"free", "queued", "running", "ok", "error"},
              client : Clients \cup {None}, key : Keys \cup {None},
              handle : Handles \cup {None}, chan : Channels \cup {None},
              expired : BOOLEAN, waited : BOOLEAN]

(* The jobs that workers run stay theirs.                                  *)
RunningStay ==
    \A j \in Jobs : job[j].st = "running" =>
        /\ job'[j].st = "running" /\ job'[j].client = job[j].client
        /\ job'[j].key = job[j].key /\ job'[j].handle = job[j].handle
        /\ job'[j].chan = job[j].chan

\* No job of a running worker is free, and it names a connection, a model and
\* a handle.
LEMMA RunningJob ==
    ASSUME Work, JobsOf, NEW w \in Workers, wpc[w] # "idle"
    PROVE  /\ wjob[w] \in Jobs /\ job[wjob[w]].st = "running"
           /\ job[wjob[w]].client \in Clients /\ job[wjob[w]].key \in Keys
           /\ job[wjob[w]].handle \in Handles
<1>1. wjob[w] \in Jobs /\ job[wjob[w]].st = "running"
  BY DEF Work, WorkOf
<1>2. JobOf(wjob[w])
  BY <1>1 DEF JobsOf
<1>3. QED
  BY <1>1, <1>2 DEF JobOf

\* What the invariant says of one job.
LEMMA JobFacts ==
    ASSUME IInv, NEW j \in Jobs
    PROVE  /\ JobOf(j) /\ job[j] \in JobRecord
           /\ job[j].st = "free" => job[j].client = None /\ job[j].chan = None /\ ~job[j].waited
           /\ job[j].waited \/ job[j].st # "free" => job[j].client \in Clients
<1>1. JobOf(j) /\ job[j] \in JobRecord
  BY DEF IInv, JobsOf, TypeOK, JobRecord
<1>2. FreeJob.client = None /\ FreeJob.chan = None /\ ~FreeJob.waited
  BY DEF FreeJob
<1>3. QED
  BY <1>1, <1>2 DEF JobOf

\* Locks are taken when they are free and left by their owner.
LEMMA LocksMove ==
    ASSUME IInv, NEW t \in Threads, Moves(t), RunningStay, UNCHANGED <<wpc, wjob>>,
           drv' = drv \/ drv \in {None, t},
           \A h \in Handles : opLock'[h] = opLock[h] \/ opLock[h] \in {None, t},
           LocksOf(t)'
    PROVE  Locks'
<1>1. ASSUME NEW u \in Threads, u # t
      PROVE  LocksOf(u)'
  <2>1. LocksOf(u) /\ LocalOf(u)
    BY DEF IInv, Locks, Locals
  <2>2. pc'[u] = pc[u] /\ arg'[u] = arg[u]
    BY <1>1 DEF Moves
  <2>3. u # None
    BY Names
  <2>4. pc[u] \in Driving => drv' = u
    BY <2>1, <2>3, <1>1 DEF LocksOf
  <2>5. pc[u] \in Operating => opLock'[arg[u].handle] = u
    BY <2>1, <2>3, <1>1 DEF LocksOf, LocalOf, Operating, Unloading
  <2>6. QED
    BY <2>2, <2>4, <2>5 DEF LocksOf
<1>2. WorkerLocks'
  <2> SUFFICES ASSUME NEW w \in Workers, wpc[w] \in {"outer", "gate"} \cup Inside
               PROVE  opLock'[job'[wjob[w]].handle] = w
    BY DEF WorkerLocks
  <2>1. opLock[job[wjob[w]].handle] = w
    BY DEF IInv, Locks, WorkerLocks
  <2>2. job[wjob[w]].handle \in Handles /\ job'[wjob[w]].handle = job[wjob[w]].handle
    BY RunningJob DEF IInv, Inside, RunningStay
  <2>3. w # None /\ w # t
    BY Names
  <2>4. QED
    BY <2>1, <2>2, <2>3
<1>3. QED
  BY <1>1, <1>2 DEF Locks

\* What a thread knows stays true while it owns the lifecycle lock.
LEMMA LocalsMove ==
    ASSUME IInv, NEW t \in Threads, Moves(t),
           UNCHANGED <<models, aliases, io>> \/ drv \in {None, t},
           LocalOf(t)'
    PROVE  Locals'
<1>1. ASSUME NEW u \in Threads, u # t
      PROVE  LocalOf(u)'
  <2>1. LocksOf(u) /\ LocalOf(u) /\ u # None
    BY Names DEF IInv, Locks, Locals
  <2>2. pc'[u] = pc[u] /\ arg'[u] = arg[u] /\ Target(u)' = Target(u)
    BY <1>1 DEF Moves, Target
  <2>3. CASE UNCHANGED <<models, aliases, io>>
    BY <2>1, <2>2, <2>3 DEF LocalOf
  <2>4. CASE drv \in {None, t}
    <3>1. pc[u] \notin Driving
      BY <2>1, <2>4, <1>1 DEF LocksOf
    <3>2. QED
      BY <2>1, <2>2, <3>1 DEF LocalOf, Driving, Unloading
  <2>5. QED
    BY <2>3, <2>4
<1>2. QED
  BY <1>1 DEF Locals

\* Jobs and their channels, while a thread moves that waits for none.
LEMMA JobsMove ==
    ASSUME IInv, NEW t \in Threads, Moves(t), job' = job, poisoned \subseteq poisoned',
           pc[t] # "await", pc'[t] # "hello"
    PROVE  JobsOf'
<1> SUFFICES ASSUME NEW j \in Jobs
             PROVE  JobOf(j)'
  BY DEF JobsOf
<1>1. JobOf(j) /\ (job[j].st = "free" => ~job[j].waited)
  <2>1. JobOf(j)
    BY DEF IInv, JobsOf
  <2>2. ~FreeJob.waited
    BY DEF FreeJob
  <2>3. QED
    BY <2>1, <2>2 DEF JobOf
<1>2. job[j].waited => job[j].client # t /\ job[j].client \in Threads
  BY <1>1 DEF JobOf, Threads
<1>3. \A c \in Clients : pc'[c] = "hello" => pc[c] = "hello"
  BY DEF Moves, Threads
<1>4. job[j].waited => /\ pc'[job[j].client] = pc[job[j].client]
                       /\ arg'[job[j].client] = arg[job[j].client]
  BY <1>2 DEF Moves
<1>5. QED
  BY <1>1, <1>3, <1>4 DEF JobOf

\* Nothing changes in the cache, and nobody completes a load.
LEMMA ContextsMove ==
    ASSUME IInv, NEW t \in Threads, Moves(t), UNCHANGED <<models, native, owners, aliases>>,
           fault => fault', pc[t] # "loadCommit",
           t = Closer => ~Cleared /\ ~Cleared'
    PROVE  Contexts'
<1>1. Closer \in Threads
  BY DEF Threads
<1>2. Cleared' = Cleared /\ (pc'[Closer] = "closeRelease" <=> pc[Closer] = "closeRelease")
  BY <1>1 DEF Moves, Cleared
<1>3. \A h : Owed(h) => Owed(h)'
  BY <1>1, <1>2 DEF Owed, Moves, Cleared
<1>4. \A u \in Threads : pc[u] = "loadCommit" => pc'[u] = "loadCommit" /\ arg'[u] = arg[u]
  BY DEF Moves
<1>5. Contexts
  BY DEF IInv
<1>6. QED
  BY <1>2, <1>3, <1>4, <1>5 DEF Contexts

\* Nothing changes in the channels and the cache.
LEMMA BuffersMove ==
    ASSUME IInv, NEW t \in Threads, Moves(t), UNCHANGED <<models, owners, aliases, io, buffers>>,
           fault => fault', t = Closer => ~Cleared /\ ~Cleared'
    PROVE  Buffers'
<1>1. Closer \in Threads
  BY DEF Threads
<1>2. Cleared' = Cleared
  BY <1>1 DEF Moves, Cleared
<1>3. \A h : Owed(h) => Owed(h)'
  BY <1>1 DEF Owed, Moves, Cleared
<1>4. \A x : OwnBuffer(x) => OwnBuffer(x)'
  BY DEF OwnBuffer
<1>5. Buffers
  BY DEF IInv
<1>6. QED
  BY <1>2, <1>3, <1>4, <1>5 DEF Buffers

\* The workers are not concerned.
LEMMA WorkersMove ==
    ASSUME IInv, UNCHANGED <<job, wpc, wjob, late, stopping, closing, auth>>,
           UNCHANGED <<native, buffers>> \/ GateFree
    PROVE  Work' /\ Refused' /\ Bound'
<1>1. Work /\ Refused /\ Bound
  BY DEF IInv
<1>2. Work'
  BY <1>1 DEF Work, WorkOf
<1>3. Refused'
  BY <1>1 DEF Refused, Unchecked
<1>4. Bound'
  BY <1>1 DEF Bound, GateFree, Inside
<1>5. QED
  BY <1>2, <1>3, <1>4

\* Who is dropped, when a connection's thread moves by itself.
LEMMA DroppedMove ==
    ASSUME IInv, NEW t \in Clients, Moves(t), fault => fault',
           \A c \in Clients : c # t => aliases'[c] \subseteq aliases[c],
           \A c \in Clients : c # t => (c \in registered => c \in registered'),
           snapshot' = snapshot,
           ~fault' => DropOf(t)' /\ LateOpen(t)'
    PROVE  Dropped'
<1> SUFFICES ASSUME ~fault', NEW c \in Clients, c # t
             PROVE  DropOf(c)' /\ LateOpen(c)'
  BY DEF Dropped
<1>1. DropOf(c) /\ LateOpen(c)
  BY DEF IInv, Dropped
<1>2. /\ pc'[c] = pc[c] /\ arg'[c] = arg[c] /\ todo'[c] = todo[c] /\ dropping'[c] = dropping[c]
      /\ pc'[Closer] = pc[Closer] /\ arg'[Closer] = arg[Closer]
      /\ todo'[Closer] = todo[Closer] /\ dropping'[Closer] = dropping[Closer]
      /\ aliases'[c] \subseteq aliases[c]
  BY Names DEF Moves, Threads
<1>3. Shut' = Shut
  BY <1>2 DEF Shut
<1>4. DropOf(c)'
  BY <1>1, <1>2, <1>3 DEF DropOf
<1>5. LateOpen(c)'
  BY <1>1, <1>2, <1>3 DEF LateOpen
<1>6. QED
  BY <1>4, <1>5

\* The places of all threads, when one of them moves.
LEMMA PlacesMove ==
    ASSUME IInv, NEW t \in Threads, Moves(t), NEW l \in ClientPlaces \cup CloserPlaces,
           pc' = [pc EXCEPT ![t] = l], todo' \in [Threads -> SUBSET (Handles \cup Keys)],
           PlaceOf(t)', stopping' <=> pc'[Closer] # "serving", (Cleared => snapshot = {})'
    PROVE  Places'
<1>1. Places
  BY DEF IInv
<1>2. \A u \in Threads : u # t => PlaceOf(u)'
  BY <1>1 DEF Places, PlaceOf, Moves
<1>3. QED
  BY <1>1, <1>2 DEF Places

\* A thread moves and takes or leaves its locks, and nothing else changes but
\* that a channel may be poisoned.
LEMMA ThreadMoves ==
    ASSUME IInv, NEW t \in Threads, Moves(t), TypeOK', Places', Dropped',
           UNCHANGED <<models, native, owners, aliases, io, buffers, job, wpc, wjob, late,
                       stopping, closing, auth>>,
           fault => fault', poisoned \subseteq poisoned',
           drv' = drv \/ drv \in {None, t},
           \A h \in Handles : opLock'[h] = opLock[h] \/ opLock[h] \in {None, t},
           LocksOf(t)', LocalOf(t)',
           pc[t] # "await", pc[t] # "loadCommit", pc'[t] # "hello",
           t = Closer => ~Cleared /\ ~Cleared'
    PROVE  IInv'
<1>1. Locks' /\ Locals'
  BY LocksMove, LocalsMove DEF RunningStay
<1>2. JobsOf'
  BY JobsMove
<1>3. Contexts' /\ Buffers'
  BY ContextsMove, BuffersMove
<1>4. Work' /\ Refused' /\ Bound'
  BY WorkersMove
<1>5. ChannelsOf'
  BY DEF IInv, ChannelsOf
<1>6. QED
  BY <1>1, <1>2, <1>3, <1>4, <1>5 DEF IInv

\* The same for a connection's thread that keeps its part of a drop.
LEMMA ClientMoves ==
    ASSUME IInv, NEW c \in Clients, NEW l \in ClientPlaces, TypeOK',
           pc' = [pc EXCEPT ![c] = l],
           \A u \in Threads : u # c => arg'[u] = arg[u],
           UNCHANGED <<todo, dropping, snapshot, stopping>>,
           UNCHANGED <<models, native, owners, aliases, io, buffers, job, wpc, wjob, late,
                       registered, closing, auth>>,
           fault => fault', poisoned \subseteq poisoned',
           drv' = drv \/ drv \in {None, c},
           \A h \in Handles : opLock'[h] = opLock[h] \/ opLock[h] \in {None, c},
           LocksOf(c)', LocalOf(c)',
           pc[c] # "await", pc[c] # "loadCommit", l # "hello",
           l \in {"dropNext", "dropEnd"} => dropping[c] = c,
           l \notin Ending => dropping[c] = None,
           ~fault' => DropOf(c)' /\ LateOpen(c)'
    PROVE  IInv'
<1>1. c \in Threads /\ c # Closer /\ Closer \in Threads
  BY Names DEF Threads
<1>2. Places /\ PlaceOf(c)
  BY <1>1 DEF IInv, Places
<1>3. pc'[c] = l /\ Moves(c) /\ pc'[Closer] = pc[Closer]
  BY <1>1, <1>2 DEF Moves, Places
<1>4. l # "closeRelease" /\ pc[c] # "closeRelease"
  BY <1>1, <1>2 DEF PlaceOf, ClientPlaces, Loading, Opening, Ending, Unloading
<1>5. PlaceOf(c)'
  BY <1>1, <1>2, <1>3, <1>4 DEF PlaceOf
<1>6. Places'
  BY <1>1, <1>2, <1>3, <1>5, PlacesMove DEF Places, Cleared
<1>7. Dropped'
  BY <1>3, DroppedMove
<1>8. QED
  BY <1>1, <1>3, <1>6, <1>7, ThreadMoves

\* A connection about to take its next step: what the invariant says of it.
Here(c) ==
    /\ TypeOK /\ PlaceOf(c) /\ LocksOf(c) /\ LocalOf(c) /\ c # Closer /\ c \in Threads
    /\ pc \in [Threads -> ClientPlaces \cup CloserPlaces] /\ pc[c] \in ClientPlaces
    /\ arg \in [Threads -> ArgRecord] /\ job \in [Jobs -> JobRecord]
    /\ todo \in [Threads -> SUBSET (Handles \cup Keys)]
    /\ ~fault => DropOf(c) /\ LateOpen(c)
    /\ dropping[c] \in {None, c} /\ (pc[c] \notin Ending => dropping[c] = None)

\* What the invariant says of one connection.
LEMMA HereIs ==
    ASSUME IInv, NEW c \in Clients
    PROVE  Here(c)
<1>1. c \in Threads /\ c # Closer
  BY Names DEF Threads
<1>2. QED
  BY <1>1 DEF Here, IInv, TypeOK, Places, PlaceOf, Locks, Locals, Dropped, ArgRecord, JobRecord

\* The place of a thread at rest is a connection's place.
LEMMA RestPlace == AtRest \in ClientPlaces /\ AtRest \in {"idle", "leave"}
BY DEF AtRest, ClientPlaces

\* One field of the local variables of a thread is assigned.
LEMMA ArgSets ==
    ASSUME arg \in [Threads -> ArgRecord], NEW t \in Threads
    PROVE  /\ \A k \in Keys : LET a == [arg EXCEPT ![t].key = k]
                              IN  /\ a \in [Threads -> ArgRecord] /\ a[t].key = k
                                  /\ a[t].handle = arg[t].handle /\ a[t].job = arg[t].job
                                  /\ \A u \in Threads : u # t => a[u] = arg[u]
           /\ \A h \in Handles \cup {None} :
                 LET a == [arg EXCEPT ![t].handle = h]
                 IN  /\ a \in [Threads -> ArgRecord] /\ a[t].key = arg[t].key
                     /\ a[t].handle = h /\ a[t].job = arg[t].job
                     /\ \A u \in Threads : u # t => a[u] = arg[u]
           /\ \A j \in Jobs : LET a == [arg EXCEPT ![t].job = j]
                              IN  /\ a \in [Threads -> ArgRecord] /\ a[t].key = arg[t].key
                                  /\ a[t].handle = arg[t].handle /\ a[t].job = j
                                  /\ \A u \in Threads : u # t => a[u] = arg[u]
           /\ LET a == [arg EXCEPT ![t] = NoArg]
              IN  /\ a \in [Threads -> ArgRecord]
                  /\ \A u \in Threads : u # t => a[u] = arg[u]
<1>1. NoArg \in ArgRecord
  BY DEF NoArg, ArgRecord
<1>2. arg[t] \in ArgRecord
  OBVIOUS
<1>3. QED
  BY <1>1, <1>2 DEF ArgRecord

\* A handle is remembered.
LEMMA HandleSet ==
    ASSUME arg \in [Threads -> ArgRecord], NEW t \in Threads, NEW h \in Handles \cup {None},
           arg' = [arg EXCEPT ![t].handle = h]
    PROVE  /\ arg' \in [Threads -> ArgRecord] /\ arg'[t].key = arg[t].key
           /\ arg'[t].handle = h /\ \A u \in Threads : u # t => arg'[u] = arg[u]
BY ArgSets

\* A load is requested.
LEMMA BeginLoadKeeps == ASSUME IInv, NEW c \in Clients, BeginLoad(c) PROVE IInv'
<1>1. Here(c)
  BY HereIs
<1>2. PICK k \in Keys \ aliases[c] : arg' = [arg EXCEPT ![c].key = k]
  BY DEF BeginLoad
<1>3. pc[c] = "idle" /\ pc' = [pc EXCEPT ![c] = "loadLock"] /\ ~fault /\ ~Shut
      /\ dropping[c] = None
  BY <1>1 DEF BeginLoad, Admitted, Goto, Here, Ending, Unloading
<1>4. /\ arg' \in [Threads -> ArgRecord] /\ arg'[c].key = k
      /\ \A u \in Threads : u # c => arg'[u] = arg[u]
  BY <1>1, <1>2, ArgSets DEF Here
<1>5. pc'[c] = "loadLock" /\ "loadLock" \in ClientPlaces
  BY <1>1, <1>3 DEF Here, ClientPlaces
<1>6. TypeOK'
  BY <1>1, <1>4 DEF BeginLoad, Here, TypeOK, ArgRecord, cache, channels, people, flags, work
<1>7. LocksOf(c)' /\ LocalOf(c)'
  BY <1>4, <1>5 DEF LocksOf, LocalOf, Driving, Operating, Unloading
<1>8. ~fault' => DropOf(c)' /\ LateOpen(c)'
  <2>1. c \in registered
    BY <1>1, <1>3 DEF Here, DropOf
  <2>2. QED
    BY <1>5, <2>1 DEF BeginLoad, DropOf, LateOpen, Opening, Unloading, people
<1>9. QED
  BY <1>1, <1>3, <1>4, <1>5, <1>6, <1>7, <1>8, ClientMoves
  DEF BeginLoad, cache, channels, people, flags, work

\* A channel is asked for.
LEMMA BeginOpenKeeps == ASSUME IInv, NEW c \in Clients, BeginOpen(c) PROVE IInv'
<1>1. Here(c)
  BY HereIs
<1>2. PICK k \in aliases[c] : arg' = [arg EXCEPT ![c].key = k]
  BY DEF BeginOpen
<1>3. pc[c] = "idle" /\ pc' = [pc EXCEPT ![c] = "openLock"] /\ ~fault /\ ~Shut
      /\ dropping[c] = None
  BY <1>1 DEF BeginOpen, Admitted, Goto, Here, Ending, Unloading
<1>4. k \in Keys
  BY <1>1, <1>2 DEF Here, TypeOK
<1>5. /\ arg' \in [Threads -> ArgRecord] /\ arg'[c].key = k
      /\ \A u \in Threads : u # c => arg'[u] = arg[u]
  BY <1>1, <1>2, <1>4, ArgSets DEF Here
<1>6. pc'[c] = "openLock" /\ "openLock" \in ClientPlaces
  BY <1>1, <1>3 DEF Here, ClientPlaces, Opening
<1>7. TypeOK'
  BY <1>1, <1>5 DEF BeginOpen, Here, TypeOK, ArgRecord, cache, channels, people, flags, work
<1>8. LocksOf(c)' /\ LocalOf(c)'
  BY <1>4, <1>5, <1>6 DEF LocksOf, LocalOf, Driving, Operating, Unloading
<1>9. ~fault' => DropOf(c)' /\ LateOpen(c)'
  <2>1. c \in registered /\ pc'[Closer] = pc[Closer]
    BY <1>1, <1>3 DEF Here, DropOf
  <2>2. QED
    BY <1>3, <1>6, <2>1 DEF BeginOpen, DropOf, LateOpen, Shut, Unloading, people
<1>10. QED
  BY <1>1, <1>3, <1>5, <1>6, <1>7, <1>8, <1>9, ClientMoves
  DEF BeginOpen, cache, channels, people, flags, work

\* An unload is asked for.
LEMMA BeginUnloadKeeps == ASSUME IInv, NEW c \in Clients, BeginUnload(c) PROVE IInv'
<1>1. Here(c)
  BY HereIs
<1>2. PICK k \in aliases[c] : arg' = [arg EXCEPT ![c].key = k]
  BY DEF BeginUnload
<1>3. pc[c] = "idle" /\ pc' = [pc EXCEPT ![c] = "unloadLock"] /\ ~fault /\ ~Shut
      /\ dropping[c] = None
  BY <1>1 DEF BeginUnload, Goto, Here, Ending, Unloading
<1>4. k \in Keys
  BY <1>1, <1>2 DEF Here, TypeOK
<1>5. /\ arg' \in [Threads -> ArgRecord] /\ arg'[c].key = k
      /\ \A u \in Threads : u # c => arg'[u] = arg[u]
  BY <1>1, <1>2, <1>4, ArgSets DEF Here
<1>6. pc'[c] = "unloadLock" /\ "unloadLock" \in ClientPlaces
  BY <1>1, <1>3 DEF Here, ClientPlaces, Ending
<1>7. TypeOK'
  BY <1>1, <1>5 DEF BeginUnload, Here, TypeOK, ArgRecord, cache, channels, people, flags, work
<1>8. LocksOf(c)' /\ LocalOf(c)'
  BY <1>4, <1>5, <1>6 DEF LocksOf, LocalOf, Driving, Operating, Unloading
<1>9. ~fault' => DropOf(c)' /\ LateOpen(c)'
  <2>1. c \in registered /\ pc'[Closer] = pc[Closer]
    BY <1>1, <1>3 DEF Here, DropOf
  <2>2. QED
    BY <1>3, <1>6, <2>1 DEF BeginUnload, DropOf, LateOpen, Opening, Unloading, people
<1>10. QED
  BY <1>1, <1>3, <1>5, <1>6, <1>7, <1>8, <1>9, ClientMoves
  DEF BeginUnload, cache, channels, people, flags, work

\* A request is over: its thread has no duties.
LEMMA GoesToRest ==
    ASSUME IInv, NEW c \in Clients, pc' = [pc EXCEPT ![c] = AtRest],
           pc[c] \notin {"gone", "hello"}, registered' = registered, fault => fault'
    PROVE  /\ pc'[c] \in {"idle", "leave"} /\ LocksOf(c)' /\ LocalOf(c)'
           /\ ~fault' => DropOf(c)' /\ LateOpen(c)'
<1>1. Here(c)
  BY HereIs
<1>2. pc'[c] \in {"idle", "leave"} /\ pc'[Closer] = pc[Closer]
  BY <1>1, RestPlace DEF Here
<1>3. LocksOf(c)' /\ LocalOf(c)'
  BY <1>2 DEF LocksOf, LocalOf, Driving, Operating, Unloading
<1>4. ~fault' => DropOf(c)' /\ LateOpen(c)'
  BY <1>1, <1>2 DEF Here, DropOf, LateOpen, Opening, Unloading, Shut
<1>5. QED
  BY <1>2, <1>3, <1>4

\* The lifecycle lock is taken for a load, or the budgets refuse it.
LEMMA LoadLockKeeps == ASSUME IInv, NEW c \in Clients, LoadLock(c) PROVE IInv'
<1> DEFINE k == arg[c].key
           l == IF models[k] = None THEN "loadNative" ELSE "loadCommit"
<1>1. Here(c) /\ pc[c] = "loadLock" /\ drv = None /\ dropping[c] = None
  BY HereIs DEF LoadLock, Here, Ending, Unloading
<1>2. k \in Keys /\ models[k] \in Handles \cup {None}
  BY <1>1 DEF Here, LocalOf, TypeOK
<1>3. CASE LoadFits(c, k)
  <2>1. /\ drv' = c /\ arg' = [arg EXCEPT ![c].handle = models[k]]
        /\ pc' = [pc EXCEPT ![c] = l]
    BY <1>3 DEF LoadLock, Goto
  <2>2. /\ arg' \in [Threads -> ArgRecord] /\ arg'[c].key = k /\ arg'[c].handle = models[k]
        /\ \A u \in Threads : u # c => arg'[u] = arg[u]
    BY <1>1, <1>2, <2>1, HandleSet DEF Here
  <2>3. pc'[c] = l /\ l \in ClientPlaces /\ l \in Loading /\ pc'[Closer] = pc[Closer]
    BY <1>1, <2>1 DEF Here, ClientPlaces, Loading
  <2>4. TypeOK'
    BY <1>1, <2>1, <2>2 DEF LoadLock, Here, TypeOK, ArgRecord, cache, channels, people, flags, work
  <2>5. LocksOf(c)' /\ LocalOf(c)'
    BY <1>2, <2>1, <2>2, <2>3 DEF LoadLock, LocksOf, LocalOf, Operating, Unloading, Loading, cache
  <2>6. ~fault' => DropOf(c)' /\ LateOpen(c)'
    BY <1>1, <2>3 DEF LoadLock, Here, DropOf, LateOpen, Shut, Opening, Unloading, Loading,
                      people, flags
  <2>7. l \notin Ending /\ l # "hello" /\ l \notin {"dropNext", "dropEnd"}
    BY DEF Ending, Unloading
  <2>8. /\ UNCHANGED <<cache, opLock, aliases, channels, people, flags, work, todo, dropping,
                        snapshot>>
    BY DEF LoadLock
  <2> HIDE DEF l, k
  <2>9. QED
    BY <1>1, <2>1, <2>2, <2>3, <2>4, <2>5, <2>6, <2>7, <2>8, ClientMoves
    DEF cache, channels, people, flags, work
<1>4. CASE ~LoadFits(c, k)
  <2>1. /\ drv' = drv /\ arg' = [arg EXCEPT ![c] = NoArg]
        /\ pc' = [pc EXCEPT ![c] = AtRest]
    BY <1>4 DEF LoadLock, Goto
  <2>2. /\ arg' \in [Threads -> ArgRecord] /\ \A u \in Threads : u # c => arg'[u] = arg[u]
    BY <1>1, <2>1, ArgSets DEF Here
  <2>3. TypeOK'
    BY <1>1, <2>1, <2>2 DEF LoadLock, Here, TypeOK, ArgRecord, cache, channels, people, flags, work
  <2>4. AtRest \notin Ending /\ AtRest # "hello"
    BY RestPlace DEF Ending, Unloading
  <2>5. QED
    BY <1>1, <2>1, <2>2, <2>3, <2>4, ClientMoves, GoesToRest, RestPlace
    DEF LoadLock, cache, channels, people, flags, work
<1>5. QED
  BY <1>3, <1>4

\* The lifecycle lock is taken to open a channel.
LEMMA OpenLockKeeps == ASSUME IInv, NEW c \in Clients, OpenLock(c) PROVE IInv'
<1> DEFINE k == arg[c].key
           h == models[k]
<1>1. Here(c) /\ pc[c] = "openLock" /\ drv = None /\ dropping[c] = None
  BY HereIs DEF OpenLock, Here, Ending, Unloading
<1>2. k \in Keys /\ h \in Handles \cup {None}
  BY <1>1 DEF Here, LocalOf, TypeOK
<1>3. CASE h # None /\ k \in aliases[c]
  <2>1. /\ drv' = c /\ arg' = [arg EXCEPT ![c].handle = h] /\ pc' = [pc EXCEPT ![c] = "openOp"]
    BY <1>3 DEF OpenLock, Goto
  <2>2. /\ arg' \in [Threads -> ArgRecord] /\ arg'[c].key = k /\ arg'[c].handle = h
        /\ \A u \in Threads : u # c => arg'[u] = arg[u]
    BY <1>1, <1>2, <2>1, HandleSet DEF Here
  <2>3. pc'[c] = "openOp" /\ "openOp" \in ClientPlaces /\ pc'[Closer] = pc[Closer]
    BY <1>1, <2>1 DEF Here, ClientPlaces, Opening
  <2>4. TypeOK'
    BY <1>1, <2>1, <2>2 DEF OpenLock, Here, TypeOK, ArgRecord, cache, channels, people, flags, work
  <2>5. LocksOf(c)' /\ LocalOf(c)'
    BY <1>2, <1>3, <2>1, <2>2, <2>3
    DEF OpenLock, LocksOf, LocalOf, Operating, Unloading, Opening, cache
  <2>6. ~fault' => DropOf(c)' /\ LateOpen(c)'
    <3>1. todo' = todo /\ dropping' = dropping /\ snapshot' = snapshot /\ arg'[Closer] = arg[Closer]
      BY <1>1, <2>2, Names DEF OpenLock, Threads
    <3>2. QED
      BY <1>1, <2>3, <3>1 DEF OpenLock, Here, DropOf, LateOpen, Shut, Opening, Unloading, people,
                              flags
  <2>7. "openOp" \notin Ending
    BY DEF Ending, Unloading
  <2> HIDE DEF h, k
  <2>8. QED
    BY <1>1, <2>1, <2>2, <2>3, <2>4, <2>5, <2>6, <2>7, ClientMoves
    DEF OpenLock, cache, channels, people, flags, work
<1>4. CASE h = None \/ k \notin aliases[c]
  <2>1. /\ drv' = drv /\ arg' = [arg EXCEPT ![c] = NoArg]
        /\ pc' = [pc EXCEPT ![c] = AtRest]
    BY <1>4 DEF OpenLock, Goto
  <2>2. /\ arg' \in [Threads -> ArgRecord] /\ \A u \in Threads : u # c => arg'[u] = arg[u]
    BY <1>1, <2>1, ArgSets DEF Here
  <2>3. TypeOK'
    BY <1>1, <2>1, <2>2 DEF OpenLock, Here, TypeOK, ArgRecord, cache, channels, people, flags, work
  <2>4. AtRest \notin Ending /\ AtRest # "hello"
    BY RestPlace DEF Ending, Unloading
  <2>5. QED
    BY <1>1, <2>1, <2>2, <2>3, <2>4, ClientMoves, GoesToRest, RestPlace
    DEF OpenLock, cache, channels, people, flags, work
<1>5. QED
  BY <1>3, <1>4

\* The operation lock of the model is taken to open a channel.
LEMMA OpenOpKeeps == ASSUME IInv, NEW c \in Clients, OpenOp(c) PROVE IInv'
<1> DEFINE h == arg[c].handle
<1>1. Here(c) /\ pc[c] = "openOp" /\ opLock[h] = None /\ dropping[c] = None
  BY HereIs DEF OpenOp, Here, Ending, Unloading
<1>2. h \in Handles /\ drv = c
  BY <1>1 DEF Here, LocalOf, LocksOf, Driving
<1>3. opLock' = [opLock EXCEPT ![h] = c] /\ pc' = [pc EXCEPT ![c] = "openNative"]
  BY DEF OpenOp, Goto
<1>4. opLock'[h] = c /\ \A g \in Handles : g # h => opLock'[g] = opLock[g]
  BY <1>1, <1>2, <1>3 DEF Here, TypeOK
<1>5. pc'[c] = "openNative" /\ "openNative" \in ClientPlaces /\ pc'[Closer] = pc[Closer]
  BY <1>1, <1>3 DEF Here, ClientPlaces, Opening
<1>6. TypeOK'
  <2>1. opLock' \in [Handles -> Threads \cup Workers \cup {None}]
    BY <1>1, <1>3 DEF Here, TypeOK
  <2>2. QED
    BY <1>1, <2>1 DEF OpenOp, Here, TypeOK, cache, channels, people, flags, work
<1>7. LocksOf(c)' /\ LocalOf(c)'
  BY <1>1, <1>2, <1>4, <1>5
  DEF OpenOp, Here, LocksOf, LocalOf, Operating, Unloading, Opening, cache
<1>8. ~fault' => DropOf(c)' /\ LateOpen(c)'
  BY <1>1, <1>5 DEF OpenOp, Here, DropOf, LateOpen, Shut, Opening, Unloading, people, flags
<1>9. "openNative" \notin Ending
  BY DEF Ending, Unloading
<1> HIDE DEF h
<1>10. QED
  BY <1>1, <1>3, <1>4, <1>5, <1>6, <1>7, <1>8, <1>9, ClientMoves
  DEF OpenOp, cache, channels, people, flags, work

\* A request that is refused before it is queued poisons its channel.
LEMMA InferRefusedKeeps == ASSUME IInv, NEW c \in Clients, InferRefused(c) PROVE IInv'
<1>1. Here(c) /\ pc[c] = "idle" /\ dropping[c] = None /\ pc' = [pc EXCEPT ![c] = AtRest]
  BY HereIs DEF InferRefused, Admitted, Here, Ending, Unloading, Goto
<1>2. poisoned \subseteq poisoned' /\ poisoned' \subseteq Channels
  <2>1. PICK k \in Keys : /\ io[c][k] \notin poisoned \cup {None}
                          /\ poisoned' = poisoned \cup {io[c][k]}
    BY DEF InferRefused
  <2>2. io[c][k] \in Channels
    BY <1>1, <2>1 DEF Here, TypeOK
  <2>3. QED
    BY <1>1, <2>1, <2>2 DEF Here, TypeOK
<1>3. TypeOK'
  BY <1>1, <1>2 DEF InferRefused, Here, TypeOK, cache, people, flags, work
<1>4. AtRest \notin Ending /\ AtRest # "hello"
  BY RestPlace DEF Ending, Unloading
<1>5. QED
  BY <1>1, <1>2, <1>3, <1>4, ClientMoves, GoesToRest, RestPlace
  DEF InferRefused, cache, people, flags, work
\* The workers go on with the jobs they run.
LEMMA WorkersStay ==
    ASSUME IInv, RunningStay, UNCHANGED <<wpc, wjob>>
    PROVE  /\ Work'
           /\ \A w \in Workers : wpc[w] # "idle" =>
                 job'[wjob[w]].client = job[wjob[w]].client
           /\ UNCHANGED <<native, buffers>> \/ GateFree => Bound'
<1>1. Work /\ Bound
  BY DEF IInv
<1>2. \A w \in Workers : wpc[w] # "idle" => wjob[w] \in Jobs /\ job[wjob[w]].st = "running"
  BY <1>1 DEF Work, WorkOf
<1>3. Work'
  BY <1>1, <1>2 DEF Work, WorkOf, RunningStay
<1>4. \A w \in Workers : wpc[w] # "idle" =>
         /\ job'[wjob[w]].client = job[wjob[w]].client /\ job'[wjob[w]].key = job[wjob[w]].key
         /\ job'[wjob[w]].handle = job[wjob[w]].handle /\ job'[wjob[w]].chan = job[wjob[w]].chan
  BY <1>2 DEF RunningStay
<1>5. UNCHANGED <<native, buffers>> \/ GateFree => Bound'
  BY <1>1, <1>4 DEF Bound, GateFree, Inside
<1>6. QED
  BY <1>3, <1>4, <1>5

\* Nobody's authority changes.
LEMMA RefusedStay ==
    ASSUME IInv, RunningStay, UNCHANGED <<wpc, wjob, late, stopping, closing, auth>>
    PROVE  Refused'
<1>1. Refused /\ late \subseteq Workers
  BY DEF IInv, TypeOK
<1>2. \A w \in late : job'[wjob[w]].client = job[wjob[w]].client
  BY <1>1, WorkersStay DEF Refused
<1>3. QED
  BY <1>1, <1>2 DEF Refused, Unchecked

\* A step of a thread, put together.
LEMMA Composes ==
    ASSUME IInv, NEW t \in Threads, Moves(t), RunningStay, UNCHANGED <<wpc, wjob>>,
           drv' = drv \/ drv \in {None, t},
           \A h \in Handles : opLock'[h] = opLock[h] \/ opLock[h] \in {None, t},
           LocksOf(t)', LocalOf(t)',
           UNCHANGED <<models, aliases, io>> \/ drv \in {None, t},
           UNCHANGED <<native, buffers>> \/ GateFree,
           TypeOK', Places', JobsOf', ChannelsOf', Contexts', Buffers', Dropped', Refused'
    PROVE  IInv'
<1>1. Locks' /\ Locals'
  BY LocksMove, LocalsMove
<1>2. Work' /\ Bound'
  BY WorkersStay
<1>3. QED
  BY <1>1, <1>2 DEF IInv

\* The places, when a connection's thread moves and keeps its part of a drop.
LEMMA ClientPlace ==
    ASSUME IInv, NEW c \in Clients, NEW l \in ClientPlaces, pc' = [pc EXCEPT ![c] = l],
           UNCHANGED <<todo, dropping, snapshot, stopping>>,
           l \in {"dropNext", "dropEnd"} => dropping[c] = c,
           l \notin Ending => dropping[c] = None
    PROVE  /\ Places' /\ pc'[c] = l /\ pc'[Closer] = pc[Closer]
           /\ (\A u \in Threads : u # c => arg'[u] = arg[u]) => Moves(c)
<1>1. c \in Threads /\ c # Closer /\ Closer \in Threads
  BY Names DEF Threads
<1>2. Places /\ PlaceOf(c)
  BY <1>1 DEF IInv, Places
<1>3. pc'[c] = l /\ pc'[Closer] = pc[Closer] /\ \A u \in Threads : u # c => pc'[u] = pc[u]
  BY <1>1, <1>2 DEF Places
<1>4. l # "closeRelease" /\ pc[c] # "closeRelease"
  BY <1>1, <1>2 DEF PlaceOf, ClientPlaces, Loading, Opening, Ending, Unloading
<1>5. PlaceOf(c)'
  BY <1>1, <1>2, <1>3, <1>4 DEF PlaceOf
<1>6. \A u \in Threads : PlaceOf(u)'
  BY <1>2, <1>3, <1>5 DEF Places, PlaceOf
<1>7. Places'
  BY <1>1, <1>2, <1>3, <1>6 DEF Places, Cleared
<1>8. QED
  BY <1>3, <1>7 DEF Moves

\* A connection is accepted.
LEMMA AcceptKeeps == ASSUME IInv, NEW c \in Clients, Accept(c) PROVE IInv'
<1>1. Here(c) /\ pc[c] = "gone" /\ dropping[c] = None
  BY HereIs DEF Accept, Here, Ending, Unloading
<1>2. pc' = [pc EXCEPT ![c] = "hello"] /\ "hello" \in ClientPlaces /\ "hello" \notin Ending
  BY DEF Accept, Goto, ClientPlaces, Ending, Unloading
<1>3. UNCHANGED <<cache, opLock, aliases, channels, people, drv, flags, work,
                  arg, todo, dropping, snapshot>>
  BY DEF Accept
<1>4. Places' /\ pc'[c] = "hello" /\ pc'[Closer] = pc[Closer] /\ Moves(c)
  BY <1>1, <1>2, <1>3, ClientPlace DEF flags
<1>5. TypeOK'
  BY <1>1, <1>3 DEF Here, TypeOK, cache, channels, people, flags, work
<1>6. LocksOf(c)' /\ LocalOf(c)'
  BY <1>4 DEF LocksOf, LocalOf, Driving, Operating, Unloading
<1>7. JobsOf'
  <2> SUFFICES ASSUME NEW j \in Jobs
               PROVE  JobOf(j)'
    BY DEF JobsOf
  <2>1. JobOf(j) /\ (job[j].waited => job[j].client \in Clients)
    BY JobFacts
  <2>0. job[j].client # c
    BY DEF Accept
  <2>2. job' = job /\ poisoned' = poisoned /\ arg' = arg
    BY <1>3 DEF work, channels
  <2>3. \A d \in Clients : d # c => pc'[d] = pc[d]
    BY <1>4 DEF Moves, Threads
  <2>4. QED
    BY <2>0, <2>1, <2>2, <2>3 DEF JobOf
<1>8. Dropped'
  <2>1. DropOf(c)' /\ LateOpen(c)'
    BY <1>3, <1>4 DEF DropOf, LateOpen, Accept, Opening, Unloading, people
  <2>2. QED
    BY <1>3, <1>4, <2>1, DroppedMove DEF people, flags
<1>9. Contexts' /\ Buffers'
  BY <1>1, <1>3, <1>4, ContextsMove, BuffersMove DEF Here, cache, channels, flags
<1>10. Refused'
  BY <1>3, RefusedStay DEF RunningStay, work, flags, people
<1>11. ChannelsOf'
  BY <1>3 DEF IInv, ChannelsOf, work, channels
<1>12. QED
  BY <1>1, <1>3, <1>4, <1>5, <1>6, <1>7, <1>8, <1>9, <1>10, <1>11, Composes
  DEF Here, RunningStay, cache, channels, work
\* A connection is registered with the record its peer was launched under, or
\* it is turned away.
LEMMA HelloKeeps == ASSUME IInv, NEW c \in Clients, Hello(c) PROVE IInv'
<1> DEFINE l == pc'[c]
<1>1. Here(c) /\ pc[c] = "hello" /\ dropping[c] = None
  BY HereIs DEF Hello, Here, Ending, Unloading
<1>2. UNCHANGED <<cache, opLock, aliases, channels, drv, flags, work, arg, todo, dropping, snapshot>>
  BY DEF Hello
<1>3. /\ pc' = [pc EXCEPT ![c] = l] /\ l \in {"idle", "leave", "gone"}
      /\ l = "gone" => UNCHANGED people
      /\ l # "gone" => c \in registered'
  BY <1>1, RestPlace DEF Hello, Goto, Here
<1>4. /\ \A d \in Clients : d # c => auth'[d] = auth[d] /\ (d \in closing => d \in closing')
      /\ registered \subseteq registered'
      /\ registered' \subseteq Clients /\ closing' \subseteq Clients
      /\ auth' \in [Clients -> BOOLEAN]
  BY <1>1 DEF Hello, people, Here, TypeOK
<1>5. l \in ClientPlaces /\ l \notin Ending
  BY <1>3 DEF ClientPlaces, Ending, Unloading
<1>6. Places' /\ pc'[Closer] = pc[Closer] /\ Moves(c)
  BY <1>1, <1>2, <1>3, <1>5, ClientPlace DEF flags
<1>7. TypeOK'
  BY <1>1, <1>2, <1>4 DEF Here, TypeOK, cache, channels, flags, work
<1>8. LocksOf(c)' /\ LocalOf(c)'
  BY <1>3 DEF LocksOf, LocalOf, Driving, Operating, Unloading
<1>9. Dropped'
  <2>1. ~fault' => DropOf(c)' /\ LateOpen(c)'
    BY <1>1, <1>2, <1>3 DEF DropOf, LateOpen, Opening, Unloading, flags, Here
  <2>2. QED
    BY <1>2, <1>4, <1>6, <2>1, DroppedMove DEF flags
<1>10. Contexts' /\ Buffers' /\ JobsOf'
  BY <1>1, <1>2, <1>3, <1>6, ContextsMove, BuffersMove, JobsMove
  DEF Here, cache, channels, flags, work
<1>11. Refused'
  <2>1. UNCHANGED <<late, job, wpc, wjob, stopping>>
    BY <1>2 DEF work, flags
  <2>2. \A w \in late : /\ job[wjob[w]].client \in Clients /\ job[wjob[w]].client # c
    <3> SUFFICES ASSUME NEW w \in late
                 PROVE  job[wjob[w]].client \in Clients /\ job[wjob[w]].client # c
      OBVIOUS
    <3>1. w \in Workers /\ wpc[w] # "idle"
      BY DEF IInv, Refused, TypeOK
    <3>2. wjob[w] \in Jobs /\ job[wjob[w]].client \in Clients
      BY <3>1, RunningJob DEF IInv
    <3>3. QED
      BY <1>1, <3>2, JobFacts DEF JobOf
  <2>3. Refused
    BY DEF IInv
  <2>4. QED
    BY <1>4, <2>1, <2>2, <2>3 DEF Refused, Unchecked
<1>12. ChannelsOf'
  BY <1>2 DEF IInv, ChannelsOf, work, channels
<1> HIDE DEF l
<1>13. QED
  BY <1>1, <1>2, <1>6, <1>7, <1>8, <1>9, <1>10, <1>11, <1>12, Composes
  DEF Here, RunningStay, cache, channels, work

\* Jobs that are finished, or forgotten, or stay.
LEMMA JobsShrink ==
    ASSUME IInv, \A j \in Jobs : job[j].chan \in poisoned => job[j].chan \in poisoned',
           \A d \in Clients : pc[d] = "await" => pc'[d] = "await" /\ arg'[d] = arg[d],
           \A d \in Clients : pc'[d] = "hello" => pc[d] = "hello",
           \A j \in Jobs : \/ job'[j] = FreeJob
                           \/ job'[j] = job[j]
                           \/ /\ job[j].st # "free" /\ job'[j].st # "free"
                              /\ job'[j].client = job[j].client /\ job'[j].key = job[j].key
                              /\ job'[j].handle = job[j].handle /\ job'[j].chan = job[j].chan
                              /\ job'[j].waited = job[j].waited
    PROVE  JobsOf'
<1> SUFFICES ASSUME NEW j \in Jobs
             PROVE  JobOf(j)'
  BY DEF JobsOf
<1>1. /\ JobOf(j) /\ (job[j].waited => job[j].client \in Clients)
  BY JobFacts
<1>2. FreeJob.client = None /\ FreeJob.chan = None /\ ~FreeJob.waited /\ FreeJob.st = "free"
      /\ None \notin Clients
  BY Names DEF FreeJob, Threads
<1>3. CASE job'[j] = FreeJob
  BY <1>2, <1>3 DEF JobOf
<1>4. CASE job'[j] # FreeJob
  BY <1>1, <1>4 DEF JobOf
<1>5. QED
  BY <1>3, <1>4

\* The channels of the jobs that are left.
LEMMA ChannelsShrink ==
    ASSUME IInv, io' = io,
           \A j \in Jobs : \/ job'[j].chan = None
                           \/ /\ job'[j].client = job[j].client /\ job'[j].key = job[j].key
                              /\ job'[j].chan = job[j].chan
    PROVE  ChannelsOf'
BY DEF IInv, ChannelsOf
\* A request becomes a job, with the model and the channel it looked up.
LEMMA InferKeeps == ASSUME IInv, NEW c \in Clients, Infer(c) PROVE IInv'
<1>1. Here(c) /\ pc[c] = "idle" /\ dropping[c] = None /\ ~fault /\ ~Shut
  BY HereIs DEF Infer, Admitted, Here, Ending, Unloading
<1>2. /\ pc' = [pc EXCEPT ![c] = "await"] /\ "await" \in ClientPlaces /\ "await" \notin Ending
      /\ UNCHANGED <<cache, opLock, aliases, channels, people, drv, flags,
                     wpc, wjob, late, todo, dropping, snapshot>>
  BY DEF Infer, Goto, ClientPlaces, Ending, Unloading
<1>20. PICK k \in aliases[c], j \in Jobs :
       /\ models[k] # None /\ job[j] = FreeJob
       /\ \E x \in {None} \cup ({io[c][k]} \ poisoned) :
             job' = [job EXCEPT ![j] =
                       [st |-> "queued", client |-> c, key |-> k, handle |-> models[k],
                        chan |-> x, expired |-> FALSE, waited |-> TRUE]]
       /\ arg' = [arg EXCEPT ![c].job = j]
  BY DEF Infer
<1>21. PICK x \in {None} \cup ({io[c][k]} \ poisoned) :
       job' = [job EXCEPT ![j] =
                 [st |-> "queued", client |-> c, key |-> k, handle |-> models[k],
                  chan |-> x, expired |-> FALSE, waited |-> TRUE]]
  BY <1>20
<1>3. /\ models[k] # None /\ job[j] = FreeJob
      /\ job' = [job EXCEPT ![j] =
                   [st |-> "queued", client |-> c, key |-> k, handle |-> models[k],
                    chan |-> x, expired |-> FALSE, waited |-> TRUE]]
      /\ arg' = [arg EXCEPT ![c].job = j]
  BY <1>20, <1>21
<1>4. k \in Keys /\ models[k] \in Handles /\ x \in Channels \cup {None}
  <2>1. k \in Keys
    BY <1>1, <1>3 DEF Here, TypeOK
  <2>2. models[k] \in Handles /\ io[c][k] \in Channels \cup {None}
    BY <1>1, <1>3, <2>1 DEF Here, TypeOK
  <2>3. QED
    BY <2>1, <2>2
<1>5. /\ arg' \in [Threads -> ArgRecord] /\ arg'[c].job = j
      /\ \A u \in Threads : u # c => arg'[u] = arg[u]
  BY <1>1, <1>3, ArgSets DEF Here
<1>6. /\ job'[j].st = "queued" /\ job'[j].client = c /\ job'[j].key = k
      /\ job'[j].handle = models[k] /\ job'[j].chan = x
      /\ job[j].st = "free" /\ job[j].chan = None
      /\ \A i \in Jobs : i # j => job'[i] = job[i]
  BY <1>1, <1>3 DEF Here, FreeJob
<1>7. job' \in [Jobs -> JobRecord]
  BY <1>1, <1>3, <1>4 DEF Here, JobRecord
<1>8. Places' /\ pc'[c] = "await" /\ pc'[Closer] = pc[Closer] /\ Moves(c)
  BY <1>1, <1>2, <1>5, ClientPlace DEF flags
<1>9. TypeOK'
  BY <1>1, <1>2, <1>5, <1>7
  DEF Here, TypeOK, cache, channels, people, flags, ArgRecord, JobRecord
<1>10. LocksOf(c)' /\ LocalOf(c)'
  BY <1>5, <1>8 DEF LocksOf, LocalOf, Driving, Operating, Unloading
<1>11. JobsOf'
  <2> SUFFICES ASSUME NEW i \in Jobs
               PROVE  JobOf(i)'
    BY DEF JobsOf
  <2>1. poisoned' = poisoned /\ \A d \in Clients : pc'[d] = "hello" => pc[d] = "hello"
    BY <1>2, <1>8 DEF channels, Moves, Threads
  <2>2. CASE i = j
    BY <1>4, <1>5, <1>6, <1>8, <2>2, <1>3 DEF JobOf
  <2>3. CASE i # j
    <3>1. JobOf(i) /\ job'[i] = job[i] /\ (job[i].waited => job[i].client \in Clients)
      BY <1>6, <2>3, JobFacts
    <3>2. job[i].waited => /\ pc'[job[i].client] = pc[job[i].client]
                           /\ arg'[job[i].client] = arg[job[i].client]
      BY <1>1, <1>8, <3>1 DEF JobOf, Moves, Threads
    <3>3. QED
      BY <2>1, <3>1, <3>2 DEF JobOf
  <2>4. QED
    BY <2>2, <2>3
<1>12. ChannelsOf'
  <2>1. io' = io /\ ChannelsOf /\ (x # None => x = io[c][k] /\ x \notin poisoned)
    BY <1>2, <1>3 DEF channels, IInv
  <2>2. \A i \in Jobs : x # None => job[i].chan # x
    <3> SUFFICES ASSUME NEW i \in Jobs, x # None, job[i].chan = x
                 PROVE  FALSE
      OBVIOUS
    <3>1. job[i].client = c
      BY <1>4, <2>1 DEF ChannelsOf
    <3>2. job[i].waited /\ JobOf(i)
      BY <2>1, JobFacts DEF JobOf
    <3>3. QED
      BY <1>1, <3>1, <3>2 DEF JobOf
  <2>3. \A i, h \in Jobs : job'[i].chan # None /\ job'[i].chan = job'[h].chan => i = h
    BY <1>6, <2>1, <2>2 DEF ChannelsOf
  <2>4. \A i \in Jobs, d \in Clients, l \in Keys :
           job'[i].chan # None /\ io[d][l] = job'[i].chan => d = job'[i].client /\ l = job'[i].key
    BY <1>4, <1>6, <2>1 DEF ChannelsOf
  <2>5. QED
    BY <2>1, <2>3, <2>4 DEF ChannelsOf
<1>13. Dropped'
  <2>1. DropOf(c)' /\ LateOpen(c)'
    <3>1. c \in registered
      BY <1>1 DEF Here, DropOf
    <3>2. QED
      BY <1>2, <1>8, <3>1 DEF DropOf, LateOpen, Opening, Unloading, people
  <2>2. QED
    BY <1>2, <1>8, <2>1, DroppedMove DEF people, flags
<1>14. Contexts' /\ Buffers'
  BY <1>1, <1>2, <1>8, ContextsMove, BuffersMove DEF Here, cache, channels, flags
<1>15. RunningStay
  BY <1>6 DEF RunningStay
<1>16. Refused'
  BY <1>2, <1>15, RefusedStay DEF flags, people
<1>17. QED
  BY <1>1, <1>2, <1>8, <1>9, <1>10, <1>11, <1>12, <1>13, <1>14, <1>15, <1>16, Composes
  DEF Here, cache, channels

\* One field of a job is assigned.
LEMMA JobFields ==
    ASSUME NEW r \in JobRecord
    PROVE  /\ \A b \in BOOLEAN : LET q == [r EXCEPT !.waited = b]
                                IN  /\ q \in JobRecord /\ q.st = r.st /\ q.client = r.client
                                    /\ q.key = r.key /\ q.handle = r.handle /\ q.chan = r.chan
                                    /\ q.waited = b
           /\ \A b \in BOOLEAN : LET q == [r EXCEPT !.expired = b]
                                IN  /\ q \in JobRecord /\ q.st = r.st /\ q.client = r.client
                                    /\ q.key = r.key /\ q.handle = r.handle /\ q.chan = r.chan
                                    /\ q.waited = r.waited
           /\ \A o \in {"running", "ok", "error"} :
                 LET q == [r EXCEPT !.st = o]
                 IN  /\ q \in JobRecord /\ q.st = o /\ q.client = r.client
                     /\ q.key = r.key /\ q.handle = r.handle /\ q.chan = r.chan
                     /\ q.waited = r.waited
<1>1. \A b \in BOOLEAN : [r EXCEPT !.waited = b] \in JobRecord
  BY DEF JobRecord
<1>2. \A b \in BOOLEAN : [r EXCEPT !.expired = b] \in JobRecord
  BY DEF JobRecord
<1>3. \A o \in {"running", "ok", "error"} : [r EXCEPT !.st = o] \in JobRecord
  BY DEF JobRecord
<1>4. QED
  BY <1>1, <1>2, <1>3 DEF JobRecord

\* A request is answered, or its caller gives up.
LEMMA AnswerKeeps == ASSUME IInv, NEW c \in Clients, Answer(c) PROVE IInv'
<1> DEFINE j == arg[c].job
           gaveUp == job[j].st \in {"queued", "running"}
           failed == job[j].st # "ok"
           left == [job EXCEPT ![j] = IF gaveUp THEN [@ EXCEPT !.waited = FALSE] ELSE FreeJob]
<1>1. Here(c) /\ pc[c] = "await" /\ dropping[c] = None /\ j \in Jobs
  BY HereIs DEF Answer, Here, Ending, Unloading, LocalOf
<1>2. /\ pc' = [pc EXCEPT ![c] = AtRest] /\ AtRest \in ClientPlaces /\ AtRest \notin Ending
      /\ AtRest # "hello" /\ AtRest \notin {"dropNext", "dropEnd"}
      /\ arg' = [arg EXCEPT ![c] = NoArg]
      /\ UNCHANGED <<cache, opLock, aliases, io, buffers, people, drv, flags,
                     wpc, wjob, late, todo, dropping, snapshot>>
  BY RestPlace DEF Answer, Goto, Ending, Unloading
<1>3. arg' \in [Threads -> ArgRecord] /\ \A u \in Threads : u # c => arg'[u] = arg[u]
  BY <1>1, <1>2, ArgSets DEF Here
<1>4. /\ \A i \in Jobs : i # j => left[i] = job[i]
      /\ left[j] = IF gaveUp THEN [job[j] EXCEPT !.waited = FALSE] ELSE FreeJob
  BY <1>1 DEF Here
<1>5. \A i \in Jobs : job'[i] = left[i] \/ (job'[i] = FreeJob /\ left[i].st = "queued")
  BY <1>1 DEF Answer, Here
<1>6. /\ poisoned \subseteq poisoned' /\ poisoned' \subseteq Channels
      /\ failed /\ job[j].chan # None => job[j].chan \in poisoned'
  <2>1. job[j].chan \in Channels \cup {None}
    BY <1>1 DEF Here, JobRecord
  <2>2. QED
    BY <1>1, <2>1 DEF Answer, Here, TypeOK
<1>7. FreeJob.client = None /\ FreeJob.chan = None /\ ~FreeJob.waited /\ FreeJob.st = "free"
      /\ None \notin Clients /\ FreeJob \in JobRecord
  BY Names DEF FreeJob, Threads, JobRecord
<1>8. \/ left[j] = FreeJob /\ ~gaveUp
      \/ /\ gaveUp /\ left[j] \in JobRecord /\ left[j].st = job[j].st /\ left[j].client = job[j].client
         /\ left[j].key = job[j].key /\ left[j].handle = job[j].handle
         /\ left[j].chan = job[j].chan /\ ~left[j].waited
  <2>1. job[j] \in JobRecord
    BY <1>1 DEF Here
  <2>2. CASE gaveUp
    <3>1. left[j] = [job[j] EXCEPT !.waited = FALSE]
      BY <1>4, <2>2
    <3> DEFINE q == [job[j] EXCEPT !.waited = FALSE]
    <3>2. /\ q \in JobRecord /\ q.st = job[j].st /\ q.client = job[j].client
          /\ q.key = job[j].key /\ q.handle = job[j].handle /\ q.chan = job[j].chan /\ ~q.waited
      BY <2>1, JobFields
    <3> HIDE DEF q
    <3>3. QED
      BY <2>2, <3>1, <3>2 DEF q
  <2>3. CASE ~gaveUp
    BY <1>4, <2>3
  <2>4. QED
    BY <2>2, <2>3
<1> HIDE DEF left
<1>9. job' \in [Jobs -> JobRecord]
  <2>1. \A i \in Jobs : left[i] \in JobRecord
    BY <1>1, <1>4, <1>7, <1>8 DEF Here
  <2>2. \A i \in Jobs : job'[i] \in JobRecord
    BY <1>5, <1>7, <2>1
  <2>3. DOMAIN left = Jobs /\ job' = [i \in Jobs |-> job'[i]]
    BY <1>1 DEF Answer, Here, left
  <2>4. QED
    BY <2>2, <2>3
<1>10. Places' /\ pc'[c] = AtRest /\ pc'[Closer] = pc[Closer] /\ Moves(c)
  BY <1>1, <1>2, <1>3, ClientPlace DEF flags
<1>11. TypeOK'
  BY <1>1, <1>2, <1>3, <1>6, <1>9 DEF Here, TypeOK, cache, people, flags, ArgRecord, JobRecord
<1>12. RunningStay
  BY <1>4, <1>5, <1>8 DEF RunningStay
<1>13. ChannelsOf'
  BY <1>2, <1>4, <1>5, <1>7, <1>8, ChannelsShrink
<1>14. JobsOf'
  <2> SUFFICES ASSUME NEW i \in Jobs
               PROVE  JobOf(i)'
    BY DEF JobsOf
  <2>1. /\ JobOf(i) /\ (job[i].waited => job[i].client \in Clients)
        /\ (job[i].st = "free" => job[i].client = None /\ job[i].chan = None /\ ~job[i].waited)
    BY JobFacts
  <2>2. \A d \in Clients : pc'[d] = "hello" => pc[d] = "hello"
    BY <1>2, <1>10 DEF Moves, Threads
  <2>3. CASE job'[i] = FreeJob
    BY <1>7, <2>3 DEF JobOf
  <2>4. CASE i = j /\ job'[i] # FreeJob
    <3>1. job'[i] = left[j] /\ left[j] # FreeJob
      BY <1>5, <2>4
    <3>2. gaveUp => failed /\ job[j].st # "free"
      OBVIOUS
    <3>3. QED
      BY <1>6, <1>8, <2>1, <2>2, <2>4, <3>1, <3>2 DEF JobOf
  <2>5. CASE i # j /\ job'[i] # FreeJob
    <3>1. job'[i] = job[i]
      BY <1>4, <1>5, <2>5
    <3>2. job[i].waited => job[i].client # c
      BY <2>1, <2>5 DEF JobOf
    <3>3. job[i].waited => /\ pc'[job[i].client] = pc[job[i].client]
                           /\ arg'[job[i].client] = arg[job[i].client]
      BY <1>10, <2>1, <3>2 DEF Moves, Threads
    <3>4. QED
      BY <1>6, <2>1, <2>2, <3>1, <3>3 DEF JobOf
  <2>6. QED
    BY <2>3, <2>4, <2>5
<1>15. LocksOf(c)' /\ LocalOf(c)' /\ (~fault' => DropOf(c)' /\ LateOpen(c)')
  BY <1>1, <1>2, GoesToRest DEF people, flags
<1>16. Dropped'
  BY <1>2, <1>10, <1>15, DroppedMove DEF people, flags
<1>17. Contexts' /\ Buffers'
  BY <1>1, <1>2, <1>10, ContextsMove, BuffersMove DEF Here, cache, flags
<1>18. Refused'
  BY <1>2, <1>12, RefusedStay DEF flags, people
<1>19. QED
  BY <1>1, <1>2, <1>10, <1>11, <1>12, <1>13, <1>14, <1>15, <1>16, <1>17, <1>18, Composes
  DEF Here, cache
\* What does not change while no thread moves.
LEMMA Still ==
    ASSUME IInv, UNCHANGED <<threads, cache, aliases, channels, registered, flags>>
    PROVE  Places' /\ Locals' /\ Contexts' /\ Buffers' /\ Dropped'
<1>1. UNCHANGED <<pc, arg, todo, dropping, snapshot, models, native, owners, aliases,
                  io, buffers, poisoned, registered, fault, stopping>>
  BY DEF threads, cache, channels, flags
<1>2. Places /\ Locals /\ Contexts /\ Buffers /\ Dropped
  BY DEF IInv
<1>3. Places'
  BY <1>1, <1>2 DEF Places, PlaceOf, Cleared
<1>4. Locals'
  BY <1>1, <1>2 DEF Locals, LocalOf, Target
<1>5. Contexts'
  BY <1>1, <1>2 DEF Contexts, Owed, Cleared
<1>6. Buffers'
  BY <1>1, <1>2 DEF Buffers, OwnBuffer, Owed, Cleared
<1>7. Dropped'
  BY <1>1, <1>2 DEF Dropped, DropOf, LateOpen, Shut
<1>8. QED
  BY <1>3, <1>4, <1>5, <1>6, <1>7

\* A deadline passes: the job stays what it was.
LEMMA ExpireKeeps == ASSUME IInv, NEW j \in Jobs, Expire(j) PROVE IInv'
<1>1. /\ job' = [job EXCEPT ![j].expired = TRUE] /\ job[j].st # "free"
      /\ UNCHANGED <<cache, opLock, aliases, channels, people, drv, flags,
                     wpc, wjob, late, threads>>
  BY DEF Expire
<1>2. job \in [Jobs -> JobRecord] /\ job[j] \in JobRecord /\ TypeOK
  BY DEF IInv, TypeOK, JobRecord
<1> DEFINE q == [job[j] EXCEPT !.expired = TRUE]
<1>3. /\ q \in JobRecord /\ q.st = job[j].st /\ q.client = job[j].client
      /\ q.key = job[j].key /\ q.handle = job[j].handle /\ q.chan = job[j].chan
      /\ q.waited = job[j].waited
  BY <1>2, JobFields
<1>4. job'[j] = q /\ \A i \in Jobs : i # j => job'[i] = job[i]
  BY <1>1, <1>2
<1>5. job' = [job EXCEPT ![j] = q]
  BY <1>1
<1> HIDE DEF q
<1>6. job' \in [Jobs -> JobRecord]
  BY <1>2, <1>3, <1>5
<1>7. TypeOK'
  BY <1>1, <1>2, <1>6
  DEF TypeOK, cache, channels, people, flags, threads, JobRecord
<1>8. RunningStay
  BY <1>3, <1>4 DEF RunningStay
<1>9. JobsOf'
  BY <1>1, <1>3, <1>4, JobsShrink DEF threads, channels
<1>10. ChannelsOf'
  BY <1>1, <1>3, <1>4, ChannelsShrink DEF channels
<1>11. Places' /\ Locals' /\ Contexts' /\ Buffers' /\ Dropped'
  BY <1>1, Still DEF people
<1>12. Refused'
  BY <1>1, <1>8, RefusedStay DEF flags, people
<1>13. Closer \in Threads /\ Moves(Closer)
  BY <1>1 DEF Threads, Moves, threads
<1>14. LocksOf(Closer)' /\ LocalOf(Closer)'
  BY <1>1, <1>11, <1>13 DEF Locals, IInv, Locks, LocksOf, threads
<1>15. QED
  BY <1>1, <1>7, <1>8, <1>9, <1>10, <1>11, <1>12, <1>13, <1>14, Composes DEF cache, channels

\* A launch record is withdrawn: the workers before the admission check are
\* the ones it refuses.
LEMMA RevokeKeeps == ASSUME IInv, NEW c \in Clients, Revoke(c) PROVE IInv'
<1>1. /\ auth[c] /\ auth' = [auth EXCEPT ![c] = FALSE]
      /\ late' = late \cup (Unchecked \cap RunningFor({c}))
      /\ UNCHANGED <<cache, opLock, aliases, channels, registered, closing, drv, flags,
                     job, wpc, wjob, threads>>
  BY DEF Revoke
<1>2. TypeOK /\ Refused
  BY DEF IInv
<1>3. ~auth'[c] /\ \A d \in Clients : ~auth[d] => ~auth'[d]
  BY <1>1, <1>2 DEF TypeOK
<1>4. TypeOK'
  BY <1>1, <1>2 DEF TypeOK, cache, channels, flags, threads, Unchecked
<1>5. Places' /\ Locals' /\ Contexts' /\ Buffers' /\ Dropped'
  BY <1>1, Still
<1>6. Closer \in Threads /\ Moves(Closer) /\ RunningStay
  BY <1>1 DEF Threads, Moves, threads, RunningStay
<1>7. LocksOf(Closer)' /\ LocalOf(Closer)'
  BY <1>1, <1>5, <1>6 DEF Locals, IInv, Locks, LocksOf, threads
<1>8. JobsOf'
  BY <1>1, JobsShrink DEF threads, channels
<1>9. ChannelsOf'
  BY <1>1 DEF IInv, ChannelsOf, channels
<1>10. Refused'
  <2> SUFFICES ASSUME NEW w \in late'
               PROVE  LET d == job[wjob[w]].client
                      IN  /\ wpc[w] \notin {"idle", "native"}
                          /\ stopping \/ d \in closing \/ (~auth'[d] /\ w \in Unchecked)
    BY <1>1 DEF Refused, Unchecked, flags
  <2>1. CASE w \in late
    <3>1. w \in Workers /\ wpc[w] # "idle"
      BY <1>2, <2>1 DEF Refused, TypeOK
    <3>2. job[wjob[w]].client \in Clients
      BY <3>1, RunningJob DEF IInv
    <3>3. QED
      BY <1>2, <1>3, <2>1, <3>2 DEF Refused
  <2>2. CASE w \in Unchecked \cap RunningFor({c})
    BY <1>3, <2>2 DEF Unchecked, RunningFor
  <2>3. QED
    BY <1>1, <2>1, <2>2
<1>11. QED
  BY <1>1, <1>4, <1>5, <1>6, <1>7, <1>8, <1>9, <1>10, Composes DEF cache, channels

(* A step of worker w leaves the other workers and their jobs alone.       *)
Others(w) ==
    \A v \in Workers : v # w =>
        /\ wpc'[v] = wpc[v] /\ wjob'[v] = wjob[v]
        /\ wpc[v] # "idle" => job'[wjob[v]] = job[wjob[v]]

Rest == <<threads, cache, aliases, channels, people, drv, flags>>

\* A step of a worker, put together.
LEMMA WorkerComposes ==
    ASSUME IInv, NEW w \in Workers, Others(w), UNCHANGED Rest,
           \A h \in Handles : opLock'[h] = opLock[h] \/ opLock[h] \in {None, w},
           wpc'[w] \in {"outer", "gate"} \cup Inside => opLock'[job'[wjob'[w]].handle] = w,
           wpc'[w] = "native" =>
              /\ native[job'[wjob'[w]].handle] = job'[wjob'[w]].key
              /\ job'[wjob'[w]].chan # None
                    => buffers[job'[wjob'[w]].chan] = job'[wjob'[w]].handle,
           late' \subseteq late,
           w \in late' =>
              /\ wpc'[w] \notin {"idle", "native"}
              /\ \/ stopping
                 \/ job'[wjob'[w]].client \in closing
                 \/ ~auth[job'[wjob'[w]].client] /\ w \in Unchecked',
           TypeOK', Work', JobsOf', ChannelsOf'
    PROVE  IInv'
<1>1. Places' /\ Locals' /\ Contexts' /\ Buffers' /\ Dropped'
  BY Still DEF Rest, people
<1>2. UNCHANGED <<pc, arg, drv, native, buffers, stopping, closing, auth>>
  BY DEF Rest, threads, cache, channels, people, flags
<1>3. \A t \in Threads : LocksOf(t)'
  <2> SUFFICES ASSUME NEW t \in Threads
               PROVE  LocksOf(t)'
    OBVIOUS
  <2>1. LocksOf(t) /\ LocalOf(t) /\ t # None /\ t # w
    BY Names DEF IInv, Locks, Locals
  <2>2. pc[t] \in Operating => arg[t].handle \in Handles
    BY <2>1 DEF LocalOf, Operating, Unloading
  <2>3. QED
    BY <1>2, <2>1, <2>2 DEF LocksOf
<1>4. WorkerLocks'
  <2> SUFFICES ASSUME NEW v \in Workers, wpc'[v] \in {"outer", "gate"} \cup Inside, v # w
               PROVE  opLock'[job'[wjob'[v]].handle] = v
    BY DEF WorkerLocks
  <2>1. wpc[v] \in {"outer", "gate"} \cup Inside /\ wpc[v] # "idle" /\ v # None
    BY Names DEF Others, Inside
  <2>2. wjob'[v] = wjob[v] /\ job'[wjob[v]] = job[wjob[v]]
    BY <2>1 DEF Others
  <2>3. opLock[job[wjob[v]].handle] = v /\ job[wjob[v]].handle \in Handles
    BY <2>1, RunningJob DEF IInv, Locks, WorkerLocks
  <2>4. QED
    BY <2>1, <2>2, <2>3
<1>5. Refused'
  <2> SUFFICES ASSUME NEW v \in late', v # w
               PROVE  LET c == job'[wjob'[v]].client
                      IN  /\ wpc'[v] \notin {"idle", "native"}
                          /\ stopping \/ c \in closing \/ (~auth[c] /\ v \in Unchecked')
    BY <1>2 DEF Refused
  <2>1. Refused /\ v \in late /\ v \in Workers
    BY DEF IInv, TypeOK
  <2>2. wpc[v] # "idle"
    BY <2>1 DEF Refused
  <2>3. wpc'[v] = wpc[v] /\ wjob'[v] = wjob[v] /\ job'[wjob[v]] = job[wjob[v]]
    BY <2>1, <2>2 DEF Others
  <2>4. QED
    BY <2>1, <2>3 DEF Refused, Unchecked
<1>6. Bound'
  <2> SUFFICES ASSUME NEW v \in Workers, wpc'[v] = "native", v # w
               PROVE  /\ native[job'[wjob'[v]].handle] = job'[wjob'[v]].key
                      /\ job'[wjob'[v]].chan # None
                            => buffers[job'[wjob'[v]].chan] = job'[wjob'[v]].handle
    BY <1>2 DEF Bound
  <2>1. wpc[v] = "native"
    BY DEF Others
  <2>2. wjob'[v] = wjob[v] /\ job'[wjob[v]] = job[wjob[v]]
    BY <2>1 DEF Others
  <2>3. QED
    BY <2>1, <2>2 DEF IInv, Bound
<1>7. QED
  BY <1>1, <1>3, <1>4, <1>5, <1>6 DEF IInv, Locks
\* A worker comes nearer to its native call.
LEMMA WorkerAdvances ==
    ASSUME IInv, NEW w \in Workers, wpc[w] # "idle",
           NEW l \in {"outer", "gate"} \cup Inside, wpc' = [wpc EXCEPT ![w] = l],
           UNCHANGED Rest, UNCHANGED <<job, wjob, late>>,
           opLock' \in [Handles -> Threads \cup Workers \cup {None}],
           \A h \in Handles : opLock'[h] = opLock[h] \/ opLock[h] \in {None, w},
           opLock'[job[wjob[w]].handle] = w,
           l = "native" => /\ native[job[wjob[w]].handle] = job[wjob[w]].key
                           /\ job[wjob[w]].chan # None
                                 => buffers[job[wjob[w]].chan] = job[wjob[w]].handle,
           w \in late => /\ l # "native"
                         /\ \/ stopping \/ job[wjob[w]].client \in closing
                            \/ l \in {"outer", "gate", "inside"}
    PROVE  IInv'
<1>1. TypeOK /\ Work /\ Refused
  BY DEF IInv
<1>2. wpc'[w] = l /\ l # "idle" /\ \A v \in Workers : v # w => wpc'[v] = wpc[v]
  BY <1>1 DEF TypeOK, Inside
<1>3. TypeOK'
  <2>1. wpc' \in [Workers -> {"idle", "lockOp", "outer", "gate"} \cup Inside]
    BY <1>1 DEF TypeOK
  <2>2. QED
    BY <1>1, <2>1 DEF Rest, TypeOK, cache, channels, people, flags, threads
<1>4. Others(w)
  BY <1>2 DEF Others
<1>5. Work'
  BY <1>1, <1>2 DEF Work, WorkOf
<1>6. JobsOf'
  BY JobsShrink DEF Rest, threads, channels
<1>7. ChannelsOf'
  BY DEF IInv, ChannelsOf, Rest, channels
<1>8. w \in late => \/ stopping \/ job[wjob[w]].client \in closing
                    \/ ~auth[job[wjob[w]].client] /\ w \in Unchecked'
  BY <1>1, <1>2 DEF Refused, Unchecked
<1>9. QED
  BY <1>2, <1>3, <1>4, <1>5, <1>6, <1>7, <1>8, WorkerComposes

\* The operation lock of the model is taken.
LEMMA LockOpKeeps == ASSUME IInv, NEW w \in Workers, LockOp(w) PROVE IInv'
<1> DEFINE h == job[wjob[w]].handle
<1>1. /\ wpc[w] = "lockOp" /\ wpc' = [wpc EXCEPT ![w] = "outer"]
      /\ opLock[h] = None /\ opLock' = [opLock EXCEPT ![h] = w]
      /\ UNCHANGED <<job, wjob, late>> /\ UNCHANGED Rest
  BY DEF LockOp, Step, Rest
<1>2. h \in Handles
  BY <1>1, RunningJob DEF IInv
<1>3. /\ opLock' \in [Handles -> Threads \cup Workers \cup {None}]
      /\ opLock'[h] = w
      /\ \A g \in Handles : opLock'[g] = opLock[g] \/ opLock[g] \in {None, w}
  BY <1>1, <1>2 DEF IInv, TypeOK
<1>4. QED
  BY <1>1, <1>3, WorkerAdvances DEF Inside

\* The first look.
LEMMA OuterCheckKeeps == ASSUME IInv, NEW w \in Workers, OuterCheck(w) PROVE IInv'
<1>1. /\ wpc[w] = "outer" /\ wpc' = [wpc EXCEPT ![w] = "gate"] /\ opLock' = opLock
      /\ UNCHANGED <<job, wjob, late>> /\ UNCHANGED Rest
  BY DEF OuterCheck, Step, Rest
<1>2. opLock[job[wjob[w]].handle] = w /\ TypeOK
  BY <1>1 DEF IInv, Locks, WorkerLocks
<1>3. QED
  BY <1>1, <1>2, WorkerAdvances DEF Inside, TypeOK

\* The gate is entered.
LEMMA EnterGateKeeps == ASSUME IInv, NEW w \in Workers, EnterGate(w) PROVE IInv'
<1>1. /\ wpc[w] = "gate" /\ wpc' = [wpc EXCEPT ![w] = "inside"] /\ opLock' = opLock
      /\ UNCHANGED <<job, wjob, late>> /\ UNCHANGED Rest
  BY DEF EnterGate, Step, Rest
<1>2. opLock[job[wjob[w]].handle] = w /\ TypeOK
  BY <1>1 DEF IInv, Locks, WorkerLocks
<1>3. QED
  BY <1>1, <1>2, WorkerAdvances DEF Inside, TypeOK

\* The authorizer's answer: a revoked record has been noticed.
LEMMA InnerAuthorizeKeeps == ASSUME IInv, NEW w \in Workers, InnerAuthorize(w) PROVE IInv'
<1>1. /\ wpc[w] = "inside" /\ wpc' = [wpc EXCEPT ![w] = "authed"] /\ opLock' = opLock
      /\ auth[job[wjob[w]].client]
      /\ UNCHANGED <<job, wjob, late>> /\ UNCHANGED Rest
  BY DEF InnerAuthorize, Step, Rest
<1>2. opLock[job[wjob[w]].handle] = w /\ TypeOK
  BY <1>1 DEF IInv, Locks, WorkerLocks, Inside
<1>3. w \in late => stopping \/ job[wjob[w]].client \in closing
  BY <1>1 DEF IInv, Refused
<1>4. QED
  BY <1>1, <1>2, <1>3, WorkerAdvances DEF Inside, TypeOK

\* The service's own state: a job that is still current has its context and
\* its channel, and is no late one.
LEMMA InnerCheckKeeps == ASSUME IInv, NEW w \in Workers, InnerCheck(w) PROVE IInv'
<1> DEFINE r == job[wjob[w]]
<1>1. /\ wpc[w] = "authed" /\ wpc' = [wpc EXCEPT ![w] = "native"] /\ opLock' = opLock
      /\ Current(r)
      /\ UNCHANGED <<job, wjob, late>> /\ UNCHANGED Rest
  BY DEF InnerCheck, Step, Rest
<1>2. opLock[r.handle] = w /\ TypeOK
  BY <1>1 DEF IInv, Locks, WorkerLocks, Inside
<1>3. w \notin late
  BY <1>1 DEF IInv, Refused, Current, Unchecked
<1>4. /\ r.client \in Clients /\ r.key \in Keys /\ r.handle \in Handles /\ r.handle # None
      /\ r.chan \in Channels \cup {None}
  <2>1. wjob[w] \in Jobs /\ r.client \in Clients /\ r.key \in Keys /\ r.handle \in Handles
    BY <1>1, RunningJob DEF IInv
  <2>2. r.handle # None
    BY <2>1, Names
  <2>3. r.chan \in Channels \cup {None}
    BY <1>2, <2>1 DEF TypeOK
  <2>4. QED
    BY <2>1, <2>2, <2>3
<1>5. native[r.handle] = r.key
  BY <1>1, <1>4 DEF IInv, Contexts, Current
<1>6. ~Cleared
  BY <1>1 DEF IInv, Places, Cleared, Current
<1>7. r.chan # None => buffers[r.chan] = r.handle
  BY <1>1, <1>4, <1>6 DEF IInv, Buffers, Current
<1>8. QED
  BY <1>1, <1>2, <1>3, <1>5, <1>7, WorkerAdvances DEF Inside, TypeOK

\* A worker takes a queued job.
LEMMA PickKeeps == ASSUME IInv, NEW w \in Workers, Pick(w) PROVE IInv'
<1>1. PICK j \in Jobs : /\ job[j].st = "queued"
                        /\ job' = [job EXCEPT ![j].st = "running"]
                        /\ wjob' = [wjob EXCEPT ![w] = j]
  BY DEF Pick
<1>2. /\ wpc[w] = "idle" /\ wpc' = [wpc EXCEPT ![w] = "lockOp"] /\ opLock' = opLock
      /\ late' = late /\ UNCHANGED Rest
  BY DEF Pick, Step, Rest
<1>3. TypeOK /\ Work /\ Refused /\ job \in [Jobs -> JobRecord] /\ job[j] \in JobRecord
  BY DEF IInv, TypeOK, JobRecord
<1> DEFINE q == [job[j] EXCEPT !.st = "running"]
<1>4. /\ q \in JobRecord /\ q.st = "running" /\ q.client = job[j].client
      /\ q.key = job[j].key /\ q.handle = job[j].handle /\ q.chan = job[j].chan
      /\ q.waited = job[j].waited
  BY <1>3, JobFields
<1>5. job' = [job EXCEPT ![j] = q]
  BY <1>1
<1> HIDE DEF q
<1>6. job' \in [Jobs -> JobRecord] /\ job'[j] = q /\ \A i \in Jobs : i # j => job'[i] = job[i]
  BY <1>3, <1>4, <1>5
<1>7. /\ wpc' \in [Workers -> {"idle", "lockOp", "outer", "gate"} \cup Inside]
      /\ wjob' \in [Workers -> Jobs \cup {None}]
      /\ wpc'[w] = "lockOp" /\ wjob'[w] = j
      /\ \A v \in Workers : v # w => wpc'[v] = wpc[v] /\ wjob'[v] = wjob[v]
  BY <1>1, <1>2, <1>3 DEF TypeOK
<1>8. \A v \in Workers : wpc[v] # "idle" => wjob[v] \in Jobs /\ wjob[v] # j
  BY <1>1, <1>3 DEF Work, WorkOf
<1>9. Others(w)
  BY <1>6, <1>7, <1>8 DEF Others
<1>10. TypeOK'
  BY <1>2, <1>3, <1>6, <1>7
  DEF Rest, TypeOK, cache, channels, people, flags, threads, JobRecord
<1>11. Work'
  <2>1. \A v \in Workers : WorkOf(v)'
    BY <1>3, <1>4, <1>6, <1>7, <1>8 DEF Work, WorkOf
  <2>2. QED
    BY <1>3, <1>7, <1>8, <2>1 DEF Work
<1>12. JobsOf'
  BY <1>1, <1>2, <1>4, <1>6, JobsShrink DEF Rest, threads, channels
<1>13. ChannelsOf'
  BY <1>2, <1>4, <1>6, ChannelsShrink DEF Rest, channels
<1>14. w \notin late
  BY <1>2, <1>3 DEF Refused
<1>15. QED
  BY <1>2, <1>7, <1>9, <1>10, <1>11, <1>12, <1>13, <1>14, WorkerComposes DEF Inside

\* What becomes of a job that ends.
LEMMA FinishedIs ==
    ASSUME NEW r \in JobRecord, NEW o \in {"ok", "error"}
    PROVE  /\ Finished(r, o) \in JobRecord
           /\ \/ Finished(r, o) = FreeJob
              \/ /\ Finished(r, o).st = o /\ Finished(r, o).client = r.client
                 /\ Finished(r, o).key = r.key /\ Finished(r, o).handle = r.handle
                 /\ Finished(r, o).chan = r.chan /\ Finished(r, o).waited = r.waited
<1>1. FreeJob \in JobRecord
  BY DEF FreeJob, JobRecord
<1> DEFINE q == [r EXCEPT !.st = o]
<1>2. q \in JobRecord /\ q.st = o /\ q.client = r.client /\ q.key = r.key
      /\ q.handle = r.handle /\ q.chan = r.chan /\ q.waited = r.waited
  <2>1. o \in {"running", "ok", "error"}
    OBVIOUS
  <2>2. QED
    BY <2>1, JobFields
<1>3. Finished(r, o) = q \/ Finished(r, o) = FreeJob
  BY DEF Finished
<1> HIDE DEF q
<1>4. QED
  BY <1>1, <1>2, <1>3

\* A job that expired in its queue is finished.
LEMMA DiscardKeeps == ASSUME IInv, NEW w \in Workers, Discard(w) PROVE IInv'
<1>1. PICK j \in Jobs : /\ job[j].st = "queued"
                        /\ job' = [job EXCEPT ![j] = Finished(job[j], "error")]
  BY DEF Discard
<1>2. wpc[w] = "idle" /\ UNCHANGED <<wpc, wjob, late, opLock>> /\ UNCHANGED Rest
  BY DEF Discard, Rest
<1>3. TypeOK /\ Work /\ Refused /\ job \in [Jobs -> JobRecord] /\ job[j] \in JobRecord
  BY DEF IInv, TypeOK, JobRecord
<1>4. job'[j] = Finished(job[j], "error") /\ \A i \in Jobs : i # j => job'[i] = job[i]
  BY <1>1, <1>3
<1>5. job' \in [Jobs -> JobRecord]
  BY <1>1, <1>3, FinishedIs
<1>6. \A v \in Workers : wpc[v] # "idle" => wjob[v] \in Jobs /\ wjob[v] # j
  BY <1>1, <1>3 DEF Work, WorkOf
<1>7. Others(w)
  BY <1>2, <1>4, <1>6 DEF Others
<1>8. TypeOK'
  BY <1>2, <1>3, <1>5 DEF Rest, TypeOK, cache, channels, people, flags, threads, JobRecord
<1>9. Work'
  <2>1. \A v \in Workers : WorkOf(v)'
    BY <1>2, <1>3, <1>4, <1>6 DEF Work, WorkOf
  <2>2. QED
    BY <1>2, <1>3, <2>1 DEF Work
<1>10. JobsOf'
  <2>1. \A i \in Jobs : \/ job'[i] = FreeJob
                        \/ job'[i] = job[i]
                        \/ /\ job[i].st # "free" /\ job'[i].st # "free"
                           /\ job'[i].client = job[i].client /\ job'[i].key = job[i].key
                           /\ job'[i].handle = job[i].handle /\ job'[i].chan = job[i].chan
                           /\ job'[i].waited = job[i].waited
    BY <1>1, <1>3, <1>4, FinishedIs
  <2>2. QED
    BY <1>2, <2>1, JobsShrink DEF Rest, threads, channels
<1>11. ChannelsOf'
  <2>1. FreeJob.chan = None
    BY DEF FreeJob
  <2>2. QED
    BY <1>2, <1>3, <1>4, <2>1, FinishedIs, ChannelsShrink DEF Rest, channels
<1>12. w \notin late
  BY <1>2, <1>3 DEF Refused
<1>13. QED
  BY <1>2, <1>7, <1>8, <1>9, <1>10, <1>11, <1>12, WorkerComposes DEF Inside

\* A worker is done with its job.
LEMMA FinishKeeps ==
    ASSUME IInv, NEW w \in Workers, wpc[w] # "idle", NEW o \in {"ok", "error"}, Finish(w, o),
           wpc[w] # "lockOp"
    PROVE  IInv'
<1> DEFINE j == wjob[w]
           h == job[j].handle
<1>1. /\ job' = [job EXCEPT ![j] = Finished(job[j], o)]
      /\ opLock' = [opLock EXCEPT ![h] = None]
      /\ wpc' = [wpc EXCEPT ![w] = "idle"] /\ wjob' = [wjob EXCEPT ![w] = None]
      /\ late' = late \ {w} /\ UNCHANGED Rest
  BY DEF Finish, Rest
<1>2. TypeOK /\ Work /\ job \in [Jobs -> JobRecord]
  BY DEF IInv, TypeOK, JobRecord
<1>3. j \in Jobs /\ job[j].st = "running" /\ h \in Handles /\ job[j] \in JobRecord
  BY <1>2, RunningJob DEF IInv
<1>4. opLock[h] = w
  BY <1>2 DEF IInv, Locks, WorkerLocks, TypeOK
<1>5. job'[j] = Finished(job[j], o) /\ \A i \in Jobs : i # j => job'[i] = job[i]
  BY <1>1, <1>2, <1>3
<1>6. job' \in [Jobs -> JobRecord]
  BY <1>1, <1>2, <1>3, FinishedIs
<1>7. /\ opLock' \in [Handles -> Threads \cup Workers \cup {None}]
      /\ \A g \in Handles : opLock'[g] = opLock[g] \/ opLock[g] \in {None, w}
  BY <1>1, <1>2, <1>3, <1>4 DEF TypeOK
<1>8. /\ wpc' \in [Workers -> {"idle", "lockOp", "outer", "gate"} \cup Inside]
      /\ wjob' \in [Workers -> Jobs \cup {None}] /\ wpc'[w] = "idle"
      /\ \A v \in Workers : v # w => wpc'[v] = wpc[v] /\ wjob'[v] = wjob[v]
  BY <1>1, <1>2 DEF TypeOK
<1>9. \A v \in Workers : v # w /\ wpc[v] # "idle" => wjob[v] \in Jobs /\ wjob[v] # j
  BY <1>2 DEF Work, WorkOf
<1>10. Others(w)
  BY <1>5, <1>8, <1>9 DEF Others
<1>11. TypeOK'
  BY <1>1, <1>2, <1>6, <1>7, <1>8
  DEF Rest, TypeOK, cache, channels, people, flags, threads, JobRecord
<1>12. Work'
  <2>1. \A v \in Workers : WorkOf(v)'
    BY <1>2, <1>5, <1>8, <1>9 DEF Work, WorkOf
  <2>2. QED
    BY <1>2, <1>8, <2>1 DEF Work
<1>13. JobsOf'
  <2>1. \A i \in Jobs : \/ job'[i] = FreeJob
                        \/ job'[i] = job[i]
                        \/ /\ job[i].st # "free" /\ job'[i].st # "free"
                           /\ job'[i].client = job[i].client /\ job'[i].key = job[i].key
                           /\ job'[i].handle = job[i].handle /\ job'[i].chan = job[i].chan
                           /\ job'[i].waited = job[i].waited
    BY <1>3, <1>5, FinishedIs
  <2>2. QED
    BY <1>1, <2>1, JobsShrink DEF Rest, threads, channels
<1>14. ChannelsOf'
  <2>1. FreeJob.chan = None
    BY DEF FreeJob
  <2>2. QED
    BY <1>1, <1>3, <1>5, <2>1, FinishedIs, ChannelsShrink DEF Rest, channels
<1>15. late' \subseteq late /\ w \notin late'
  BY <1>1
<1>16. UNCHANGED Rest
  BY <1>1
<1> HIDE DEF h, j
<1>17. QED
  BY <1>7, <1>8, <1>10, <1>11, <1>12, <1>13, <1>14, <1>15, <1>16, WorkerComposes DEF Inside

\* Every step of a worker.
LEMMA WorkerKeeps == ASSUME IInv, NEW w \in Workers, WorkerStep(w) PROVE IInv'
<1>1. CASE Refuse(w)
  BY <1>1, FinishKeeps DEF Refuse
<1>2. CASE Return(w)
  BY <1>2, FinishKeeps DEF Return
<1>3. QED
  BY <1>1, <1>2, PickKeeps, DiscardKeeps, LockOpKeeps, OuterCheckKeeps, EnterGateKeeps,
     InnerAuthorizeKeeps, InnerCheckKeeps DEF WorkerStep
\* A context is loaded and cached for its key, or the load has failed and
\* left nothing.
LEMMA LoadNativeKeeps == ASSUME IInv, NEW c \in Clients, LoadNative(c) PROVE IInv'
<1> DEFINE k == arg[c].key
<1>1. Here(c) /\ pc[c] = "loadNative" /\ dropping[c] = None /\ GateFree
  BY HereIs DEF LoadNative, Here, Ending, Unloading
<1>2. k \in Keys /\ models[k] = None /\ drv = c /\ c # Closer /\ c \in Threads
  BY <1>1 DEF Here, LocalOf, LocksOf, Driving
<1>3. ASSUME NEW h \in Handles, ~InUse(h),
             native' = [native EXCEPT ![h] = k], models' = [models EXCEPT ![k] = h],
             owners' = [owners EXCEPT ![h] = {}], arg' = [arg EXCEPT ![c].handle = h],
             pc' = [pc EXCEPT ![c] = "loadCommit"], UNCHANGED <<drv, sealed, fault>>,
             UNCHANGED <<opLock, aliases, channels, people, stopping, work, todo, dropping,
                         snapshot>>
      PROVE  IInv'
  <2>1. TypeOK /\ Contexts /\ Buffers /\ h # None
    BY <1>3, Names DEF IInv
  <2>2. (\A l \in Keys : models[l] # h) /\ native[h] = None
    BY <1>3 DEF InUse
  <2>3. /\ native'[h] = k /\ \A g \in Handles : g # h => native'[g] = native[g]
        /\ models'[k] = h /\ \A l \in Keys : l # k => models'[l] = models[l]
        /\ owners'[h] = {} /\ \A g \in Handles : g # h => owners'[g] = owners[g]
    BY <1>2, <1>3, <2>1 DEF TypeOK
  <2>4. /\ arg' \in [Threads -> ArgRecord] /\ arg'[c].key = k /\ arg'[c].handle = h
        /\ \A u \in Threads : u # c => arg'[u] = arg[u]
    BY <1>1, <1>3, HandleSet DEF Here
  <2>5. "loadCommit" \in ClientPlaces /\ "loadCommit" \notin Ending
    BY DEF ClientPlaces, Loading, Ending, Unloading
  <2>6. Places' /\ pc'[c] = "loadCommit" /\ pc'[Closer] = pc[Closer] /\ Moves(c)
    BY <1>1, <1>3, <2>4, <2>5, ClientPlace
  <2>7. TypeOK'
    <3>1. /\ models' \in [Keys -> Handles \cup {None}]
          /\ native' \in [Handles -> Keys \cup {None}]
          /\ owners' \in [Handles -> SUBSET Clients]
      BY <1>2, <1>3, <2>1 DEF TypeOK
    <3>2. QED
      BY <1>3, <2>1, <2>4, <3>1 DEF TypeOK, channels, people, work, ArgRecord
  <2>8. LocksOf(c)' /\ LocalOf(c)'
    BY <1>2, <1>3, <2>3, <2>4, <2>6 DEF LocksOf, LocalOf, Operating, Unloading
  <2>9. \A l \in Keys : models[l] # None => l # k /\ models[l] \in Handles /\ models[l] # h
    BY <1>2, <2>1, <2>2 DEF TypeOK
  <2>10. Cleared' = Cleared /\ (\A g : Owed(g)' <=> Owed(g)) /\ pc[Closer] # "closeRelease"
    <3>1. Closer \in Threads /\ LocksOf(Closer)
      BY DEF Threads, IInv, Locks
    <3>2. QED
      BY <1>2, <1>3, <2>6, <3>1 DEF Cleared, Owed, LocksOf, Driving
  <2>11. Contexts'
    <3>1. \A l \in Keys : models'[l] # None => native'[models'[l]] = l
      BY <2>1, <2>3, <2>9 DEF Contexts
    <3>2. ~fault' => \A g \in Handles : native'[g] # None => models'[native'[g]] = g \/ Owed(g)'
      <4>1. \A g \in Handles : native[g] # None => native[g] \in Keys
        BY <2>1 DEF TypeOK
      <4>2. QED
        BY <1>2, <1>3, <2>1, <2>3, <2>10, <4>1, Names DEF Contexts
    <3>3. ~Cleared' => \A d \in Clients : \A l \in aliases'[d] :
                          models'[l] # None /\ d \in owners'[models'[l]]
      <4>1. \A d \in Clients : aliases[d] \subseteq Keys
        BY <2>1 DEF TypeOK
      <4>2. QED
        BY <1>3, <2>1, <2>3, <2>9, <2>10, <4>1 DEF Contexts
    <3>4. ASSUME NEW l \in Keys, models'[l] # None
          PROVE  /\ \A d \in owners'[models'[l]] : l \in aliases'[d]
                 /\ \/ owners'[models'[l]] # {}
                    \/ \E t \in Threads : pc'[t] = "loadCommit" /\ arg'[t].key = l
      <4>1. CASE l = k
        BY <1>2, <2>3, <2>4, <2>6, <4>1
      <4>2. CASE l # k
        <5>1. models'[l] = models[l] /\ models[l] # None /\ owners'[models[l]] = owners[models[l]]
          BY <2>3, <2>9, <3>4, <4>2
        <5>2. \A t \in Threads : pc[t] = "loadCommit" => pc'[t] = pc[t] /\ arg'[t] = arg[t]
          BY <1>1, <2>6 DEF Moves
        <5>3. QED
          BY <1>3, <2>1, <5>1, <5>2 DEF Contexts
      <4>3. QED
        BY <4>1, <4>2
    <3>5. QED
      BY <2>6, <2>10, <3>1, <3>2, <3>3, <3>4 DEF Contexts
  <2>12. Buffers'
    <3>1. UNCHANGED <<io, buffers, aliases>>
      BY <1>3 DEF channels
    <3>2. ~Cleared' => \A d \in Clients, l \in Keys :
             io[d][l] # None => l \in aliases[d] /\ buffers[io[d][l]] = models'[l]
      BY <2>1, <2>3, <2>9, <2>10 DEF Buffers, Contexts
    <3>3. \A x \in Channels : buffers[x] # None /\ OwnBuffer(x) => OwnBuffer(x)'
      <4>1. \A d \in Clients : aliases[d] \subseteq Keys
        BY <2>1 DEF TypeOK
      <4>2. QED
        BY <2>3, <2>9, <3>1, <4>1 DEF OwnBuffer
    <3>4. QED
      BY <1>3, <2>1, <2>10, <3>1, <3>2, <3>3 DEF Buffers
  <2>13. Dropped'
    <3>1. ~fault' => DropOf(c)' /\ LateOpen(c)'
      BY <1>1, <1>3, <2>6 DEF Here, DropOf, LateOpen, Shut, Opening, Unloading, people
    <3>2. QED
      BY <1>3, <2>6, <3>1, DroppedMove DEF people
  <2>14. JobsOf' /\ ChannelsOf' /\ RunningStay
    <3>1. UNCHANGED <<job, io, poisoned>>
      BY <1>3 DEF work, channels
    <3>2. JobsOf'
      BY <1>1, <1>2, <2>6, <3>1, JobsMove
    <3>3. ChannelsOf'
      BY <3>1 DEF IInv, ChannelsOf
    <3>4. QED
      BY <3>1, <3>2, <3>3 DEF RunningStay
  <2>15. Refused'
    BY <1>3, <2>14, RefusedStay DEF work, people
  <2>16. /\ drv \in {None, c} /\ drv' = drv
         /\ \A g \in Handles : opLock'[g] = opLock[g]
         /\ UNCHANGED <<wpc, wjob>>
    BY <1>2, <1>3 DEF work
  <2> HIDE DEF k
  <2>17. QED
    BY <1>1, <1>2, <2>6, <2>7, <2>8, <2>11, <2>12, <2>13, <2>14, <2>15, <2>16, Composes
<1>4. ASSUME drv' = None, arg' = [arg EXCEPT ![c] = NoArg], pc' = [pc EXCEPT ![c] = AtRest],
             fault => fault', sealed' \in BOOLEAN, fault' \in BOOLEAN, UNCHANGED cache,
             UNCHANGED <<opLock, aliases, channels, people, stopping, work, todo, dropping,
                         snapshot>>
      PROVE  IInv'
  <2>1. /\ arg' \in [Threads -> ArgRecord] /\ \A u \in Threads : u # c => arg'[u] = arg[u]
    BY <1>1, <1>4, ArgSets DEF Here
  <2>2. TypeOK'
    BY <1>1, <1>4, <2>1 DEF Here, TypeOK, ArgRecord, cache, channels, people, work
  <2>3. AtRest \notin Ending /\ AtRest # "hello"
    BY RestPlace DEF Ending, Unloading
  <2>4. QED
    BY <1>1, <1>2, <1>4, <2>1, <2>2, <2>3, ClientMoves, GoesToRest, RestPlace
    DEF cache, channels, people, work
<1>5. TypeOK
  BY DEF IInv
<1>6. QED
  BY <1>3, <1>4, <1>5 DEF LoadNative, Goto, TypeOK
\* What the owner of a cached handle knows: it is cached for one key only.
LEMMA OneKey ==
    ASSUME IInv, NEW k \in Keys, NEW l \in Keys, models[k] # None, models[l] = models[k]
    PROVE  l = k
BY DEF IInv, Contexts

\* The connection becomes an owner of the cached model and gets its alias.
LEMMA LoadCommitKeeps == ASSUME IInv, NEW c \in Clients, LoadCommit(c) PROVE IInv'
<1> DEFINE k == arg[c].key
           h == arg[c].handle
<1>1. Here(c) /\ pc[c] = "loadCommit" /\ dropping[c] = None
  BY HereIs DEF LoadCommit, Here, Ending, Unloading
<1>2. /\ k \in Keys /\ h \in Handles /\ models[k] = h /\ h # None /\ drv = c /\ c # Closer
      /\ c \in Threads
  BY <1>1, Names DEF Here, LocalOf, LocksOf, Driving
<1>3. /\ owners' = [owners EXCEPT ![h] = owners[h] \cup {c}]
      /\ aliases' = [aliases EXCEPT ![c] = aliases[c] \cup {k}]
      /\ drv' = None /\ arg' = [arg EXCEPT ![c] = NoArg] /\ pc' = [pc EXCEPT ![c] = AtRest]
      /\ UNCHANGED <<models, native, opLock, channels, people, flags, work, todo, dropping,
                     snapshot>>
  BY DEF LoadCommit, Goto
<1>4. TypeOK /\ Contexts /\ Buffers
  BY DEF IInv
<1>5. /\ owners'[h] = owners[h] \cup {c} /\ \A g \in Handles : g # h => owners'[g] = owners[g]
      /\ aliases'[c] = aliases[c] \cup {k}
      /\ \A d \in Clients : d # c => aliases'[d] = aliases[d]
  BY <1>2, <1>3, <1>4 DEF TypeOK
<1>6. /\ arg' \in [Threads -> ArgRecord] /\ \A u \in Threads : u # c => arg'[u] = arg[u]
  BY <1>1, <1>3, ArgSets DEF Here
<1>7. AtRest \in ClientPlaces /\ AtRest \notin Ending /\ AtRest \notin {"dropNext", "dropEnd"}
  BY RestPlace DEF Ending, Unloading
<1>8. Places' /\ pc'[c] = AtRest /\ pc'[Closer] = pc[Closer] /\ Moves(c)
  BY <1>1, <1>3, <1>6, <1>7, ClientPlace DEF flags
<1>9. TypeOK'
  <2>1. owners' \in [Handles -> SUBSET Clients] /\ aliases' \in [Clients -> SUBSET Keys]
    BY <1>2, <1>3, <1>4 DEF TypeOK
  <2>2. QED
    BY <1>3, <1>4, <1>6, <2>1 DEF TypeOK, ArgRecord, channels, people, flags, work
<1>10. /\ LocksOf(c)' /\ LocalOf(c)' /\ (~fault' => DropOf(c)' /\ LateOpen(c)')
  BY <1>1, <1>3, GoesToRest DEF people, flags
<1>11. \A d \in Clients : aliases[d] \subseteq Keys /\ aliases[d] \subseteq aliases'[d]
  BY <1>4, <1>5 DEF TypeOK
<1>12. \A g \in Handles : owners[g] \subseteq owners'[g]
  BY <1>5
<1>13. \A l \in Keys : models[l] \in Handles \cup {None}
  BY <1>4 DEF TypeOK
<1>14. Cleared' = Cleared /\ (\A g : Owed(g)' <=> Owed(g))
  BY <1>3, <1>8 DEF Cleared, Owed
<1>15. Contexts'
  <2>1. UNCHANGED <<models, native, fault>>
    BY <1>3 DEF flags
  <2>2. ~Cleared' => \A d \in Clients : \A l \in aliases'[d] :
                        models'[l] # None /\ d \in owners'[models'[l]]
    <3> SUFFICES ASSUME ~Cleared, NEW d \in Clients, NEW l \in aliases'[d]
                 PROVE  models[l] # None /\ d \in owners'[models[l]]
      BY <1>14, <2>1
    <3>1. CASE l \in aliases[d]
      <4>1. l \in Keys /\ models[l] # None /\ d \in owners[models[l]]
        BY <1>4, <1>11, <3>1 DEF Contexts
      <4>2. QED
        BY <1>12, <1>13, <4>1
    <3>2. CASE l \notin aliases[d]
      BY <1>2, <1>5, <3>2
    <3>3. QED
      BY <3>1, <3>2
  <2>3. ASSUME NEW l \in Keys, models[l] # None
        PROVE  /\ \A d \in owners'[models[l]] : l \in aliases'[d]
               /\ \/ owners'[models[l]] # {}
                  \/ \E t \in Threads : pc'[t] = "loadCommit" /\ arg'[t].key = l
    <3>1. CASE l = k
      <4>1. \A d \in owners[h] : k \in aliases[d] /\ d \in Clients
        BY <1>2, <1>4 DEF Contexts, TypeOK
      <4>2. QED
        BY <1>2, <1>5, <1>11, <3>1, <4>1
    <3>2. CASE l # k
      <4>1. models[l] # h /\ owners'[models[l]] = owners[models[l]] /\ models[l] \in Handles
        BY <1>2, <1>5, <1>13, <2>3, <3>2, OneKey
      <4>2. \A t \in Threads : pc[t] = "loadCommit" /\ arg[t].key = l
                                  => pc'[t] = pc[t] /\ arg'[t] = arg[t]
        BY <1>8, <3>2 DEF Moves
      <4>3. \A d \in owners[models[l]] : l \in aliases[d] /\ d \in Clients
        BY <1>4, <2>3, <4>1 DEF Contexts, TypeOK
      <4>4. \/ owners[models[l]] # {}
            \/ \E t \in Threads : pc[t] = "loadCommit" /\ arg[t].key = l
        BY <1>4, <2>3 DEF Contexts
      <4>5. QED
        BY <1>11, <4>1, <4>2, <4>3, <4>4
    <3>3. QED
      BY <3>1, <3>2
  <2>4. QED
    BY <1>4, <1>8, <1>14, <2>1, <2>2, <2>3 DEF Contexts
<1>16. Buffers'
  <2>1. UNCHANGED <<io, buffers, models, fault>>
    BY <1>3 DEF channels, flags
  <2>2. \A x : OwnBuffer(x) /\ buffers[x] # None => OwnBuffer(x)'
    BY <1>11, <1>12, <1>13, <2>1 DEF OwnBuffer
  <2>3. QED
    BY <1>4, <1>11, <1>14, <2>1, <2>2 DEF Buffers
<1>17. Dropped'
  BY <1>3, <1>5, <1>8, <1>10, DroppedMove DEF people, flags
<1>18. JobsOf' /\ ChannelsOf' /\ RunningStay
  <2>1. UNCHANGED <<job, io, poisoned>>
    BY <1>3 DEF work, channels
  <2>2. JobsOf'
    BY <1>1, <1>2, <1>7, <1>8, <2>1, RestPlace, JobsMove
  <2>3. ChannelsOf'
    BY <2>1 DEF IInv, ChannelsOf
  <2>4. QED
    BY <2>1, <2>2, <2>3 DEF RunningStay
<1>19. Refused'
  BY <1>3, <1>18, RefusedStay DEF work, people, flags
<1>20. /\ drv \in {None, c} /\ drv' \in {None, c}
       /\ UNCHANGED <<opLock, wpc, wjob, native, buffers>>
  BY <1>2, <1>3 DEF work, channels
<1> HIDE DEF k, h
<1>21. QED
  BY <1>2, <1>8, <1>9, <1>10, <1>15, <1>16, <1>17, <1>18, <1>19, <1>20, Composes

\* Between close()'s clearing of the cache and its end no connection opens.
LEMMA NoLateChannel ==
    ASSUME IInv, NEW c \in Clients, pc[c] \in Opening, drv = c, aliases[c] # {}, ~fault
    PROVE  ~Cleared
<1> SUFFICES ASSUME Cleared
             PROVE  FALSE
  OBVIOUS
<1>1. LateOpen(c) /\ Places /\ Closer \in Threads /\ c # Closer
  BY Names DEF IInv, Dropped, Threads
<1>2. Shut /\ snapshot = {} /\ PlaceOf(Closer)
  BY <1>1 DEF Places, Cleared, Shut
<1>3. pc[Closer] \notin Ending
  BY DEF Cleared, Ending, Unloading
<1>4. dropping[Closer] = None
  BY <1>2, <1>3 DEF PlaceOf
<1>5. pc[Closer] \notin {"dropNext", "unloadLock"} \cup Unloading
  BY <1>3 DEF Ending
<1>6. QED
  BY <1>1, <1>2, <1>5 DEF LateOpen

\* A channel is registered for its alias, or the request has failed.
LEMMA OpenNativeKeeps == ASSUME IInv, NEW c \in Clients, OpenNative(c) PROVE IInv'
<1> DEFINE k == arg[c].key
           h == arg[c].handle
<1>1. Here(c) /\ pc[c] = "openNative" /\ dropping[c] = None /\ GateFree
  BY HereIs DEF OpenNative, Here, Ending, Unloading
<1>2. /\ k \in Keys /\ h \in Handles /\ models[k] = h /\ h # None /\ drv = c /\ c # Closer
      /\ c \in Threads /\ k \in aliases[c] /\ opLock[h] = c
  BY <1>1, Names DEF Here, LocalOf, LocksOf, Driving, Operating
<1>3. /\ opLock' = [opLock EXCEPT ![h] = None] /\ drv' = None
      /\ arg' = [arg EXCEPT ![c] = NoArg] /\ pc' = [pc EXCEPT ![c] = AtRest]
      /\ UNCHANGED <<cache, aliases, people, stopping, work, todo, dropping, snapshot>>
      /\ fault => fault'
  BY DEF OpenNative, Goto
<1>4. TypeOK /\ Contexts /\ Buffers /\ ChannelsOf /\ JobsOf
  BY DEF IInv
<1>5. fault' \in BOOLEAN /\ sealed' \in BOOLEAN
  BY <1>4 DEF OpenNative, TypeOK
<1>6. /\ arg' \in [Threads -> ArgRecord] /\ \A u \in Threads : u # c => arg'[u] = arg[u]
  BY <1>1, <1>3, ArgSets DEF Here
<1>7. AtRest \in ClientPlaces /\ AtRest \notin Ending /\ AtRest \notin {"dropNext", "dropEnd"}
      /\ AtRest # "hello"
  BY RestPlace DEF Ending, Unloading
<1>8. Places' /\ pc'[c] = AtRest /\ pc'[Closer] = pc[Closer] /\ Moves(c)
  BY <1>1, <1>3, <1>6, <1>7, ClientPlace
<1>9. /\ opLock' \in [Handles -> Threads \cup Workers \cup {None}]
      /\ \A g \in Handles : opLock'[g] = opLock[g] \/ opLock[g] \in {None, c}
  BY <1>2, <1>3, <1>4 DEF TypeOK
<1>10. LocksOf(c)' /\ LocalOf(c)' /\ (~fault' => DropOf(c)' /\ LateOpen(c)')
  BY <1>1, <1>3, GoesToRest DEF people
<1>11. Dropped'
  BY <1>3, <1>8, <1>10, DroppedMove DEF people
<1>12. Contexts'
  BY <1>1, <1>2, <1>3, <1>8, ContextsMove DEF cache
<1>13. RunningStay /\ Refused'
  <2>1. RunningStay
    BY <1>3 DEF RunningStay, work
  <2>2. QED
    BY <1>3, <2>1, RefusedStay DEF work, people
<1>14. CASE UNCHANGED channels
  <2>1. TypeOK'
    BY <1>3, <1>4, <1>5, <1>6, <1>9, <1>14 DEF TypeOK, ArgRecord, cache, channels, people, work
  <2>2. Buffers' /\ JobsOf' /\ ChannelsOf'
    <3>1. UNCHANGED <<job, io, poisoned, buffers, models, owners, aliases>>
      BY <1>3, <1>14 DEF work, channels, cache
    <3>2. ChannelsOf'
      BY <1>4, <3>1 DEF ChannelsOf
    <3>3. QED
      BY <1>1, <1>2, <1>3, <1>7, <1>8, <3>1, <3>2, JobsMove, BuffersMove
  <2>3. UNCHANGED <<models, aliases, io, native, buffers, wpc, wjob>>
    BY <1>3, <1>14 DEF cache, channels, work
  <2> HIDE DEF k, h
  <2>4. QED
    BY <1>2, <1>3, <1>8, <1>9, <1>10, <1>11, <1>12, <1>13, <2>1, <2>2, <2>3, Composes
<1>15. ASSUME NEW x \in Channels, ~ChannelInUse(x), io[c][k] = None,
              io' = [io EXCEPT ![c][k] = x], buffers' = [buffers EXCEPT ![x] = h],
              poisoned' = poisoned \ {x}
       PROVE  IInv'
  <2>1. /\ io'[c][k] = x
        /\ \A d \in Clients, l \in Keys : d # c \/ l # k => io'[d][l] = io[d][l]
        /\ buffers'[x] = h /\ \A y \in Channels : y # x => buffers'[y] = buffers[y]
        /\ io' \in [Clients -> [Keys -> Channels \cup {None}]]
        /\ buffers' \in [Channels -> Handles \cup {None}]
    BY <1>2, <1>4, <1>15 DEF TypeOK
  <2>2. /\ buffers[x] = None /\ \A d \in Clients, l \in Keys : io[d][l] # x
        /\ \A j \in Jobs : job[j].chan # x
        /\ x # None
    BY <1>15, Names DEF ChannelInUse
  <2>3. TypeOK'
    BY <1>3, <1>4, <1>5, <1>6, <1>9, <1>15, <2>1 DEF TypeOK, ArgRecord, cache, people, work
  <2>4. JobsOf'
    <3>1. job' = job /\ \A j \in Jobs : job[j].chan \in poisoned => job[j].chan \in poisoned'
      BY <1>3, <1>15, <2>2 DEF work
    <3>2. \A d \in Clients : pc[d] = "await" => pc'[d] = "await" /\ arg'[d] = arg[d]
      BY <1>1, <1>8 DEF Moves, Threads
    <3>3. \A d \in Clients : pc'[d] = "hello" => pc[d] = "hello"
      BY <1>7, <1>8 DEF Moves, Threads
    <3>4. QED
      BY <3>1, <3>2, <3>3, JobsShrink
  <2>5. ChannelsOf'
    <3>1. job' = job
      BY <1>3 DEF work
    <3>2. \A j \in Jobs, d \in Clients, l \in Keys :
             job[j].chan # None /\ io'[d][l] = job[j].chan => d = job[j].client /\ l = job[j].key
      BY <1>4, <2>1, <2>2 DEF ChannelsOf
    <3>3. ASSUME NEW d \in Clients, NEW e \in Clients, NEW l \in Keys, NEW m \in Keys,
                 io'[d][l] # None, io'[d][l] = io'[e][m]
          PROVE  d = e /\ l = m
      <4>1. CASE d = c /\ l = k
        BY <2>1, <2>2, <3>3, <4>1
      <4>2. CASE e = c /\ m = k
        BY <2>1, <2>2, <3>3, <4>2
      <4>3. CASE (d # c \/ l # k) /\ (e # c \/ m # k)
        BY <1>4, <2>1, <3>3, <4>3 DEF ChannelsOf
      <4>4. QED
        BY <4>1, <4>2, <4>3
    <3>4. QED
      BY <1>4, <3>1, <3>2, <3>3 DEF ChannelsOf
  <2>6. Buffers'
    <3>1. /\ UNCHANGED <<models, owners, aliases>> /\ Cleared' = Cleared
          /\ \A g : Owed(g)' <=> Owed(g)
      BY <1>3, <1>8 DEF cache, Cleared, Owed
    <3>2. ~Cleared => \A d \in Clients, l \in Keys :
             io'[d][l] # None => l \in aliases[d] /\ buffers'[io'[d][l]] = models[l]
      <4>1. \A d \in Clients, l \in Keys : io[d][l] \in Channels \cup {None}
        BY <1>4 DEF TypeOK
      <4>2. QED
        BY <1>2, <1>4, <2>1, <2>2, <4>1 DEF Buffers
    <3>3. ASSUME ~fault', NEW y \in Channels, buffers'[y] # None
          PROVE  OwnBuffer(y)' \/ Owed(buffers'[y])
      <4>1. CASE y = x
        <5>1. ~Cleared
          BY <1>1, <1>2, <1>3, <3>3, NoLateChannel DEF Opening
        <5>2. c \in owners[h]
          BY <1>2, <1>4, <5>1 DEF Contexts
        <5>3. QED
          BY <1>2, <2>1, <3>1, <4>1, <5>2 DEF OwnBuffer
      <4>2. CASE y # x
        <5>1. buffers'[y] = buffers[y] /\ buffers[y] # None
          BY <2>1, <3>3, <4>2
        <5>2. OwnBuffer(y) \/ Owed(buffers[y])
          BY <1>3, <1>4, <3>3, <5>1 DEF Buffers
        <5>3. y # None /\ \A d \in Clients : aliases[d] \subseteq Keys
          BY <1>4, Names DEF TypeOK
        <5>4. OwnBuffer(y) => OwnBuffer(y)'
          BY <1>2, <1>15, <2>1, <3>1, <5>1, <5>3 DEF OwnBuffer
        <5>5. QED
          BY <5>1, <5>2, <5>4
      <4>3. QED
        BY <4>1, <4>2
    <3>4. QED
      BY <3>1, <3>2, <3>3 DEF Buffers
  <2>7. UNCHANGED <<wpc, wjob>>
    BY <1>3 DEF work
  <2> HIDE DEF k, h
  <2>8. QED
    BY <1>1, <1>2, <1>3, <1>8, <1>9, <1>10, <1>11, <1>12, <1>13, <2>3, <2>4, <2>5, <2>6, <2>7,
       Composes
<1>16. QED
  BY <1>14, <1>15 DEF OpenNative
(* Where an unload goes when it is over.                                    *)
Afters(t) == IF Dropping(t) THEN {"dropNext", "dropEnd"} ELSE {"idle", "leave"}

\* A thread about to take a step of an unload or a drop.
LEMMA EndingIs ==
    ASSUME IInv, NEW t \in Threads, pc[t] \in Ending
    PROVE  /\ TypeOK /\ Places /\ PlaceOf(t) /\ LocksOf(t) /\ LocalOf(t)
           /\ Target(t) \in Clients /\ Closer \in Threads /\ t # None
           /\ todo[t] \subseteq Keys /\ ~(t = Closer /\ Cleared)
           /\ t = Closer => Dropping(t) /\ Shut
           /\ t # Closer => t \in Clients /\ ~(pc[Closer] \in Driving /\ pc[t] \in Driving)
           /\ pc[t] \notin {"closeRelease", "await", "loadCommit", "serving", "closing"}
           /\ arg \in [Threads -> ArgRecord]
<1>1. TypeOK /\ Places /\ PlaceOf(t) /\ LocksOf(t) /\ LocalOf(t) /\ LocksOf(Closer)
      /\ Closer \in Threads /\ t # None
  BY Names DEF IInv, Places, Locks, Locals, Threads
<1>2. pc[t] \notin {"closeRelease", "closed", "await", "loadCommit", "serving", "closing"}
  BY DEF Ending, Unloading
<1>3. t = Closer => dropping[t] # None /\ dropping[t] \in Clients
  BY <1>1 DEF PlaceOf, TypeOK
<1>4. Target(t) \in Clients
  BY <1>1, <1>3 DEF Target, Threads
<1>5. t # Closer => ~(pc[Closer] \in Driving /\ pc[t] \in Driving)
  BY <1>1 DEF LocksOf
<1>6. arg \in [Threads -> ArgRecord]
  BY <1>1 DEF TypeOK, ArgRecord
<1>7. QED
  BY <1>1, <1>2, <1>3, <1>4, <1>5, <1>6 DEF PlaceOf, Cleared, Shut, Dropping, Threads

\* The places, when it moves and its drop, if any, goes on.
LEMMA EndingPlace ==
    ASSUME IInv, NEW t \in Threads, pc[t] \in Ending,
           NEW l \in {"unloadLock"} \cup Unloading \cup Afters(t), pc' = [pc EXCEPT ![t] = l],
           l = "unloadLock" => pc[t] = "dropNext",
           UNCHANGED <<dropping, snapshot, stopping>>,
           todo' \in [Threads -> SUBSET (Handles \cup Keys)], todo'[t] \subseteq Keys,
           \A u \in Threads : u # t => todo'[u] = todo[u]
    PROVE  /\ Places' /\ pc'[t] = l /\ Cleared' = Cleared /\ Shut' = Shut
           /\ (t = Closer => ~Cleared')
           /\ l \notin {"hello", "loadCommit", "await", "closeRelease"}
           /\ (\A u \in Threads : u # t => arg'[u] = arg[u]) => Moves(t)
<1>1. /\ Places /\ PlaceOf(t) /\ Closer \in Threads /\ ~(t = Closer /\ Cleared)
      /\ (t = Closer => Dropping(t) /\ Shut) /\ (t # Closer => t \in Clients)
  BY EndingIs
<1>2. /\ pc'[t] = l /\ \A u \in Threads : u # t => pc'[u] = pc[u]
  BY <1>1 DEF Places
<1>3. /\ l \in Ending \cup {"idle", "leave"} /\ l \in ClientPlaces /\ (Dropping(t) => l \in Ending)
      /\ l \notin {"serving", "closing", "closeRelease", "closed"}
      /\ l \notin {"hello", "loadCommit", "await"}
      /\ (l \in Ending => l \in CloserPlaces)
      /\ (~Dropping(t) => l \notin {"dropNext", "dropEnd"})
      /\ (l \notin Ending => ~Dropping(t))
  BY DEF Afters, Ending, Unloading, ClientPlaces, CloserPlaces
<1>4. l \in {"dropNext", "dropEnd", "unloadLock"} => Dropping(t) \/ l = "unloadLock"
  BY <1>3
<1>5. PlaceOf(t)'
  BY <1>1, <1>2, <1>3 DEF PlaceOf, Dropping
<1>6. Cleared' = Cleared /\ Shut' = Shut /\ (t = Closer => ~Cleared')
  BY <1>1, <1>2, <1>3 DEF Cleared, Shut
<1>7. stopping' <=> pc'[Closer] # "serving"
  BY <1>1, <1>2, <1>3 DEF Places, Shut
<1>8. Places'
  <2>1. \A u \in Threads : PlaceOf(u)'
    BY <1>1, <1>2, <1>5 DEF Places, PlaceOf
  <2>2. pc' \in [Threads -> ClientPlaces \cup CloserPlaces]
    BY <1>1, <1>3 DEF Places
  <2>3. QED
    BY <1>1, <1>6, <1>7, <2>1, <2>2 DEF Places
<1>9. QED
  BY <1>2, <1>3, <1>6, <1>8 DEF Moves

\* Who is dropped, when an unload goes on, or forgets its alias, or has failed
\* outside of a drop.
LEMMA EndingDropped ==
    ASSUME IInv, NEW t \in Threads, pc[t] \in {"unloadLock"} \cup Unloading, Moves(t),
           Shut' = Shut, UNCHANGED <<todo, dropping, snapshot, registered>>, fault => fault',
           \/ /\ pc'[t] \in Unloading /\ arg'[t].key = arg[t].key /\ aliases' = aliases
           \/ /\ pc'[t] = AfterUnload(t)
              /\ aliases' = [aliases EXCEPT ![Target(t)] = aliases[Target(t)] \ {arg[t].key}]
           \/ /\ ~Dropping(t) /\ pc'[t] = AtRest /\ aliases' = aliases
    PROVE  Dropped'
<1>1. pc[t] \in Ending
  BY DEF Ending
<1>2. /\ TypeOK /\ Closer \in Threads /\ Target(t) \in Clients /\ PlaceOf(t)
      /\ (t = Closer => Dropping(t) /\ Shut) /\ (t # Closer => t \in Clients)
  BY <1>1, EndingIs
<1>3. \A d \in Clients : aliases'[d] \subseteq aliases[d]
  BY <1>2 DEF TypeOK
<1>4. pc[t] \notin {"gone", "hello", "dropEnd", "dropNext"} \cup Opening
  BY DEF Unloading, Opening
<1>5. /\ pc'[t] \notin {"gone", "hello", "dropEnd"} \cup Opening
      /\ pc'[t] = "dropNext" => Dropping(t) /\ pc'[t] = AfterUnload(t)
      /\ pc'[t] = "unloadLock" => FALSE
  BY RestPlace DEF Unloading, Opening, AfterUnload
<1>6. pc'[t] = "dropNext" =>
         aliases'[Target(t)] = aliases[Target(t)] \ {arg[t].key}
  <2>1. "dropNext" \notin Unloading /\ AtRest # "dropNext"
    BY RestPlace DEF Unloading
  <2>2. QED
    BY <1>2, <2>1 DEF TypeOK
<1>7. pc'[t] \in Unloading => arg'[t].key = arg[t].key /\ aliases' = aliases
  <2>1. "dropNext" \notin Unloading /\ AtRest \notin Unloading
    BY RestPlace DEF Unloading
  <2>2. QED
    BY <2>1 DEF AfterUnload
<1> SUFFICES ASSUME ~fault', NEW d \in Clients
             PROVE  DropOf(d)' /\ LateOpen(d)'
  BY DEF Dropped
<1>8. DropOf(d) /\ LateOpen(d) /\ d \in Threads
  BY DEF IInv, Dropped, Threads
<1>9. CASE d = t
  <2>1. Target(t) = t /\ t # Closer
    BY <1>9, Names DEF Target
  <2>2. pc'[t] \in Unloading => (dropping[t] # None => aliases'[t] \subseteq todo[t] \cup {arg'[t].key})
    BY <1>7, <1>8, <1>9 DEF DropOf
  <2>3. pc'[t] = "dropNext" => aliases'[t] \subseteq todo[t]
    BY <1>5, <1>6, <1>8, <1>9, <2>1 DEF DropOf, Dropping
  <2>4. DropOf(d)'
    BY <1>4, <1>5, <1>8, <1>9, <2>2, <2>3 DEF DropOf
  <2>5. LateOpen(d)'
    BY <1>5, <1>9 DEF LateOpen
  <2>6. QED
    BY <2>4, <2>5
<1>10. CASE d # t
  <2>1. pc'[d] = pc[d] /\ arg'[d] = arg[d] /\ aliases'[d] \subseteq aliases[d]
    BY <1>3, <1>8, <1>10 DEF Moves
  <2>2. DropOf(d)'
    BY <1>8, <2>1 DEF DropOf
  <2>3. LateOpen(d)'
    <3>1. CASE t # Closer
      <4>1. pc'[Closer] = pc[Closer] /\ arg'[Closer] = arg[Closer]
        BY <1>2, <3>1 DEF Moves
      <4>2. QED
        BY <1>8, <2>1, <4>1 DEF LateOpen
    <3>2. CASE t = Closer
      <4>1. CASE d = dropping[Closer]
        <5>1. Target(t) = d
          BY <3>2, <4>1 DEF Target
        <5>2. pc'[t] \in Unloading \/ pc'[t] = "dropNext"
          BY <1>2, <3>2 DEF AfterUnload
        <5>3. QED
          BY <1>4, <1>6, <1>7, <1>8, <2>1, <3>2, <4>1, <5>1, <5>2 DEF LateOpen
      <4>2. CASE d # dropping[Closer]
        BY <1>8, <2>1, <4>2 DEF LateOpen
      <4>3. QED
        BY <4>1, <4>2
    <3>3. QED
      BY <3>1, <3>2
  <2>4. QED
    BY <2>2, <2>3
<1>11. QED
  BY <1>9, <1>10
\* An unload finds its model or not.
LEMMA UnloadLockKeeps == ASSUME IInv, NEW t \in Threads, UnloadLock(t) PROVE IInv'
<1> DEFINE c == Target(t)
           k == arg[t].key
           h == IF k \in aliases[c] THEN models[k] ELSE None
<1>1. pc[t] = "unloadLock" /\ drv = None /\ pc[t] \in {"unloadLock"} \cup Unloading
      /\ pc[t] \in Ending
  BY DEF UnloadLock, Ending
<1>2. /\ TypeOK /\ LocalOf(t) /\ c \in Clients /\ Closer \in Threads /\ t # None
      /\ ~(t = Closer /\ Cleared) /\ arg \in [Threads -> ArgRecord]
      /\ todo \in [Threads -> SUBSET (Handles \cup Keys)] /\ todo[t] \subseteq Keys
      /\ Contexts /\ Buffers
  BY <1>1, EndingIs DEF Places, IInv
<1>3. k \in Keys /\ h \in Handles \cup {None}
  BY <1>1, <1>2 DEF LocalOf, TypeOK
<1>4. UNCHANGED <<cache, opLock, io, buffers, people, flags, work, todo, dropping, snapshot>>
  BY DEF UnloadLock
<1>5. CASE h # None
  <2>1. /\ drv' = t /\ arg' = [arg EXCEPT ![t].handle = h] /\ pc' = [pc EXCEPT ![t] = "unloadOp"]
        /\ UNCHANGED <<aliases, poisoned>>
    BY <1>5 DEF UnloadLock, Goto
  <2>2. /\ arg' \in [Threads -> ArgRecord] /\ arg'[t].key = k /\ arg'[t].handle = h
        /\ \A u \in Threads : u # t => arg'[u] = arg[u]
    BY <1>2, <1>3, <2>1, HandleSet
  <2>3. "unloadOp" \in Unloading /\ "unloadOp" # "unloadLock"
    BY DEF Unloading
  <2>4. /\ Places' /\ pc'[t] = "unloadOp" /\ Shut' = Shut /\ Moves(t)
        /\ (t = Closer => ~Cleared')
    BY <1>1, <1>2, <1>4, <2>1, <2>2, <2>3, EndingPlace DEF flags
  <2>5. TypeOK'
    BY <1>2, <1>4, <2>1, <2>2 DEF TypeOK, ArgRecord, cache, people, flags, work
  <2>6. Dropped'
    BY <1>1, <1>4, <2>1, <2>2, <2>3, <2>4, EndingDropped DEF people, flags
  <2>7. LocksOf(t)' /\ LocalOf(t)'
    <3>1. k \in aliases[c] /\ models[k] = h
      BY <1>5
    <3>2. Target(t)' = c
      BY <1>4 DEF Target
    <3>3. LocksOf(t)'
      BY <2>1, <2>4 DEF LocksOf, Operating
    <3>4. LocalOf(t)'
      BY <1>3, <1>4, <1>5, <2>1, <2>2, <2>4, <3>1, <3>2 DEF LocalOf, Unloading, cache
    <3>5. QED
      BY <3>3, <3>4
  <2>8. UNCHANGED <<models, native, owners, aliases, io, buffers, job, wpc, wjob, late,
                    stopping, closing, auth, fault, poisoned, opLock>>
    BY <1>4, <2>1 DEF cache, work, flags, people
  <2> HIDE DEF c, k, h
  <2>9. QED
    BY <1>1, <1>2, <2>1, <2>4, <2>5, <2>6, <2>7, <2>8, ThreadMoves
<1>6. CASE h = None
  <2>1. /\ aliases' = [aliases EXCEPT ![c] = aliases[c] \ {k}]
        /\ poisoned' = poisoned \cup ({io[c][k]} \ {None})
        /\ arg' = [arg EXCEPT ![t] = NoArg] /\ pc' = [pc EXCEPT ![t] = AfterUnload(t)]
        /\ drv' = drv
    BY <1>6 DEF UnloadLock, Goto
  <2>2. /\ arg' \in [Threads -> ArgRecord] /\ \A u \in Threads : u # t => arg'[u] = arg[u]
    BY <1>2, <2>1, ArgSets
  <2>3. AfterUnload(t) \in Afters(t) /\ AfterUnload(t) # "unloadLock"
    BY RestPlace DEF AfterUnload, Afters
  <2>4. /\ Places' /\ pc'[t] = AfterUnload(t) /\ Shut' = Shut /\ Moves(t)
        /\ Cleared' = Cleared /\ (t = Closer => ~Cleared') /\ AfterUnload(t) # "hello"
    BY <1>1, <1>2, <1>4, <2>1, <2>2, <2>3, EndingPlace DEF flags
  <2>5. /\ aliases' \in [Clients -> SUBSET Keys]
        /\ aliases'[c] = aliases[c] \ {k} /\ \A d \in Clients : d # c => aliases'[d] = aliases[d]
        /\ poisoned \subseteq poisoned' /\ poisoned' \subseteq Channels
    <3>1. io[c][k] \in Channels \cup {None}
      BY <1>2, <1>3 DEF TypeOK
    <3>2. QED
      BY <1>2, <1>3, <2>1, <3>1 DEF TypeOK
  <2>6. TypeOK'
    BY <1>2, <1>4, <2>1, <2>2, <2>5 DEF TypeOK, ArgRecord, cache, people, flags, work
  <2>7. Dropped'
    BY <1>1, <1>4, <2>1, <2>4, EndingDropped DEF people, flags
  <2>8. LocksOf(t)' /\ LocalOf(t)'
    BY <2>3, <2>4 DEF LocksOf, LocalOf, Afters, Driving, Operating, Unloading
  <2>9. UNCHANGED <<models, native, owners, io, buffers, job, wpc, wjob, late,
                    stopping, closing, auth, fault, opLock>>
    BY <1>4 DEF cache, work, flags, people
  <2>10. \A g : Owed(g) => Owed(g)'
    BY <1>2, <1>4, <2>4 DEF Owed, Moves, Cleared
  <2>11. \A d \in Clients : \A l \in aliases[d] : models[l] # None => l \in aliases'[d]
    BY <1>6, <2>5
  <2>12. \A d \in Clients : aliases'[d] \subseteq aliases[d] /\ aliases[d] \subseteq Keys
    BY <1>2, <2>5 DEF TypeOK
  <2>13. Contexts'
    <3>1. pc'[Closer] = "closeRelease" => pc[Closer] = "closeRelease"
      BY <1>2, <2>4 DEF Moves, Cleared
    <3>2. ~Cleared' => \A d \in Clients : \A l \in aliases'[d] :
                          models'[l] # None /\ d \in owners'[models'[l]]
      BY <1>2, <2>4, <2>9, <2>12 DEF Contexts
    <3>3. ASSUME NEW l \in Keys, models[l] # None
          PROVE  /\ \A d \in owners[models[l]] : l \in aliases'[d]
                 /\ \/ owners[models[l]] # {}
                    \/ \E u \in Threads : pc'[u] = "loadCommit" /\ arg'[u].key = l
      <4>1. models[l] \in Handles /\ owners[models[l]] \subseteq Clients
        BY <1>2, <3>3 DEF TypeOK
      <4>2. \A u \in Threads : pc[u] = "loadCommit" => pc'[u] = pc[u] /\ arg'[u] = arg[u]
        BY <1>1, <2>4 DEF Moves
      <4>3. QED
        BY <1>2, <2>11, <3>3, <4>1, <4>2 DEF Contexts
    <3>4. QED
      BY <1>2, <2>9, <2>10, <3>1, <3>2, <3>3 DEF Contexts
  <2>14. Buffers'
    <3>1. ~Cleared' => \A d \in Clients, l \in Keys :
             io'[d][l] # None => l \in aliases'[d] /\ buffers'[io'[d][l]] = models'[l]
      BY <1>2, <2>4, <2>9, <2>11 DEF Buffers, Contexts
    <3>2. \A x : OwnBuffer(x) /\ buffers[x] # None => OwnBuffer(x)'
      BY <2>9, <2>11 DEF OwnBuffer
    <3>3. QED
      BY <1>2, <2>9, <2>10, <3>1, <3>2 DEF Buffers
  <2>15. JobsOf' /\ ChannelsOf' /\ RunningStay
    <3>1. JobsOf'
      BY <1>1, <2>4, <2>5, <2>9, JobsMove
    <3>2. QED
      BY <2>9, <3>1 DEF IInv, ChannelsOf, RunningStay
  <2>16. Refused'
    BY <2>9, <2>15, RefusedStay
  <2> HIDE DEF c, k, h
  <2>17. QED
    BY <1>1, <2>1, <2>4, <2>6, <2>7, <2>8, <2>9, <2>13, <2>14, <2>15, <2>16, Composes
<1>7. QED
  BY <1>5, <1>6

\* The operation lock of the model is taken, and the channel poisoned.
LEMMA UnloadOpKeeps == ASSUME IInv, NEW t \in Threads, UnloadOp(t) PROVE IInv'
<1> DEFINE c == Target(t)
           k == arg[t].key
           h == arg[t].handle
           x == io[c][k]
           l == IF x = None THEN "unloadRelease" ELSE "unloadIo"
<1>1. /\ pc[t] = "unloadOp" /\ opLock[h] = None /\ pc[t] \in Unloading /\ pc[t] \in Ending
      /\ pc[t] \in {"unloadLock"} \cup Unloading
  BY DEF UnloadOp, Unloading, Ending
<1>2. /\ TypeOK /\ LocalOf(t) /\ LocksOf(t) /\ c \in Clients /\ Closer \in Threads /\ t # None
      /\ ~(t = Closer /\ Cleared) /\ todo \in [Threads -> SUBSET (Handles \cup Keys)]
      /\ todo[t] \subseteq Keys
  BY <1>1, EndingIs DEF Places
<1>3. k \in Keys /\ h \in Handles /\ models[k] = h /\ k \in aliases[c] /\ drv = t
  BY <1>1, <1>2 DEF LocalOf, LocksOf, Driving
<1>4. /\ UNCHANGED <<cache, aliases, io, buffers, people, drv, flags, work, arg, todo, dropping,
                     snapshot>>
      /\ opLock' = [opLock EXCEPT ![h] = t] /\ pc' = [pc EXCEPT ![t] = l]
      /\ poisoned' = poisoned \cup ({x} \ {None})
  BY DEF UnloadOp, Goto
<1>5. l \in Unloading /\ l # "unloadLock" /\ l # "hello"
  BY DEF Unloading
<1>6. /\ Places' /\ pc'[t] = l /\ Shut' = Shut /\ Moves(t) /\ (t = Closer => ~Cleared')
  BY <1>1, <1>2, <1>4, <1>5, EndingPlace DEF flags
<1>7. /\ opLock' \in [Handles -> Threads \cup Workers \cup {None}] /\ opLock'[h] = t
      /\ \A g \in Handles : opLock'[g] = opLock[g] \/ opLock[g] \in {None, t}
      /\ poisoned' \subseteq Channels
  <2>1. x \in Channels \cup {None}
    BY <1>2, <1>3 DEF TypeOK
  <2>2. QED
    BY <1>1, <1>2, <1>3, <1>4, <2>1 DEF TypeOK
<1>8. TypeOK'
  BY <1>2, <1>4, <1>7 DEF TypeOK, cache, people, flags, work
<1>9. Dropped'
  BY <1>1, <1>4, <1>5, <1>6, EndingDropped DEF people, flags
<1>10. LocksOf(t)'
  BY <1>3, <1>4, <1>7 DEF LocksOf
<1>11. LocalOf(t)'
  <2>1. Target(t)' = c
    BY <1>4 DEF Target
  <2>2. QED
    BY <1>3, <1>4, <1>6, <2>1 DEF LocalOf, Unloading, cache
<1>12. UNCHANGED <<models, native, owners, aliases, io, buffers, job, wpc, wjob, late,
                   stopping, closing, auth, fault, drv>>
  BY <1>4 DEF cache, work, flags, people
<1>13. poisoned \subseteq poisoned'
  BY <1>4
<1> HIDE DEF c, k, h, x, l
<1>14. QED
  BY <1>1, <1>2, <1>5, <1>6, <1>7, <1>8, <1>9, <1>10, <1>11, <1>12, <1>13, ThreadMoves
\* An unload leaves both locks.
LEMMA ReturnsLocks ==
    ASSUME IInv, NEW t \in Threads, pc[t] \in {"unloadIo", "unloadRelease"}, NEW l,
           UnloadReturns(t, l)
    PROVE  /\ drv = t /\ drv' = None /\ pc' = [pc EXCEPT ![t] = l]
           /\ opLock' \in [Handles -> Threads \cup Workers \cup {None}]
           /\ \A g \in Handles : opLock'[g] = opLock[g] \/ opLock[g] \in {None, t}
           /\ arg' \in [Threads -> ArgRecord] /\ \A u \in Threads : u # t => arg'[u] = arg[u]
<1>1. pc[t] \in Ending /\ pc[t] \in Operating /\ pc[t] \in Driving /\ pc[t] \in Unloading
  BY DEF Ending, Unloading, Operating, Driving
<1>2. TypeOK /\ LocalOf(t) /\ LocksOf(t) /\ arg \in [Threads -> ArgRecord]
  BY <1>1, EndingIs
<1>3. drv = t /\ arg[t].handle \in Handles /\ opLock[arg[t].handle] = t
  BY <1>1, <1>2 DEF LocksOf, LocalOf
<1>4. /\ drv' = None /\ pc' = [pc EXCEPT ![t] = l] /\ arg' = [arg EXCEPT ![t] = NoArg]
      /\ opLock' = [opLock EXCEPT ![arg[t].handle] = None]
  BY DEF UnloadReturns, Goto
<1>5. /\ opLock' \in [Handles -> Threads \cup Workers \cup {None}]
      /\ \A g \in Handles : opLock'[g] = opLock[g] \/ opLock[g] \in {None, t}
  BY <1>2, <1>3, <1>4 DEF TypeOK
<1>6. QED
  BY <1>2, <1>3, <1>4, <1>5, ArgSets

\* A native close or release has failed: nothing is forgotten, and a drop
\* that is given up has set the fault.
LEMMA UnloadFailsKeeps ==
    ASSUME IInv, NEW t \in Threads, pc[t] \in {"unloadIo", "unloadRelease"},
           UnloadReturns(t, IF Dropping(t) THEN "dropEnd" ELSE AtRest),
           fault => fault', Dropping(t) => fault', fault' \in BOOLEAN, sealed' \in BOOLEAN,
           UNCHANGED <<cache, aliases, channels, people, stopping, work, todo, dropping, snapshot>>
    PROVE  IInv'
<1> DEFINE l == IF Dropping(t) THEN "dropEnd" ELSE AtRest
<1>1. pc[t] \in Ending /\ pc[t] \in {"unloadLock"} \cup Unloading
  BY DEF Ending, Unloading
<1>2. /\ TypeOK /\ Closer \in Threads /\ t # None /\ ~(t = Closer /\ Cleared)
      /\ todo \in [Threads -> SUBSET (Handles \cup Keys)] /\ todo[t] \subseteq Keys
      /\ pc[t] # "await" /\ pc[t] # "loadCommit"
  BY <1>1, EndingIs DEF Places
<1>3. /\ drv = t /\ drv' = None /\ pc' = [pc EXCEPT ![t] = l]
      /\ opLock' \in [Handles -> Threads \cup Workers \cup {None}]
      /\ \A g \in Handles : opLock'[g] = opLock[g] \/ opLock[g] \in {None, t}
      /\ arg' \in [Threads -> ArgRecord] /\ \A u \in Threads : u # t => arg'[u] = arg[u]
  BY ReturnsLocks
<1>4. l \in Afters(t) /\ l # "unloadLock" /\ l # "hello" /\ (~Dropping(t) => l = AtRest)
  BY RestPlace DEF Afters
<1>5. Places' /\ pc'[t] = l /\ Shut' = Shut /\ Moves(t) /\ (t = Closer => ~Cleared')
  BY <1>1, <1>2, <1>3, <1>4, EndingPlace
<1>6. TypeOK'
  BY <1>2, <1>3 DEF TypeOK, ArgRecord, cache, channels, people, work
<1>7. Dropped'
  <2>1. CASE fault'
    BY <2>1 DEF Dropped
  <2>2. CASE ~Dropping(t)
    BY <1>1, <1>4, <1>5, <2>2, EndingDropped DEF people
  <2>3. QED
    BY <2>1, <2>2
<1>8. LocksOf(t)' /\ LocalOf(t)'
  BY <1>4, <1>5 DEF LocksOf, LocalOf, Afters, Driving, Operating, Unloading
<1>9. UNCHANGED <<models, native, owners, aliases, io, buffers, job, wpc, wjob, late,
                  stopping, closing, auth, poisoned>>
  BY DEF cache, work, people, channels
<1> HIDE DEF l
<1>10. QED
  BY <1>1, <1>2, <1>3, <1>4, <1>5, <1>6, <1>7, <1>8, <1>9, ThreadMoves

\* The failures of a teardown, as values of the two flags.
LEMMA TeardownFlags == ASSUME IInv, TeardownFails PROVE sealed' \in BOOLEAN /\ fault \in BOOLEAN
BY DEF IInv, TypeOK, TeardownFails

\* The channel's buffers are freed, or that fails.
LEMMA UnloadIoKeeps == ASSUME IInv, NEW t \in Threads, UnloadIo(t) PROVE IInv'
<1> DEFINE c == Target(t)
           k == arg[t].key
           h == arg[t].handle
           x == io[c][k]
<1>1. /\ pc[t] = "unloadIo" /\ GateFree /\ pc[t] \in Unloading /\ pc[t] \in Ending
      /\ pc[t] \in {"unloadLock"} \cup Unloading
  BY DEF UnloadIo, Unloading, Ending
<1>2. UNCHANGED <<cache, aliases, poisoned, people, stopping, work, todo, dropping, snapshot>>
  BY DEF UnloadIo
<1>3. CASE /\ TeardownFails
           /\ fault' = (fault \/ Dropping(t) \/ sealed')
           /\ UnloadReturns(t, IF Dropping(t) THEN "dropEnd" ELSE AtRest)
           /\ UNCHANGED <<io, buffers>>
  <2>1. fault' \in BOOLEAN /\ sealed' \in BOOLEAN /\ (fault => fault') /\ (Dropping(t) => fault')
    BY <1>3, TeardownFlags
  <2>2. UNCHANGED channels
    BY <1>2, <1>3 DEF channels
  <2>3. QED
    BY <1>1, <1>2, <1>3, <2>1, <2>2, UnloadFailsKeeps
<1>4. CASE /\ ~sealed
           /\ buffers' = [buffers EXCEPT ![x] = None]
           /\ io' = [io EXCEPT ![c][k] = None]
           /\ Goto(t, "unloadRelease")
           /\ UNCHANGED <<fault, sealed, opLock, drv, arg>>
  <2>1. /\ TypeOK /\ LocalOf(t) /\ LocksOf(t) /\ c \in Clients /\ Closer \in Threads /\ t # None
        /\ ~(t = Closer /\ Cleared) /\ todo \in [Threads -> SUBSET (Handles \cup Keys)]
        /\ todo[t] \subseteq Keys /\ Contexts /\ Buffers /\ ChannelsOf
    BY <1>1, EndingIs DEF Places, IInv
  <2>2. /\ k \in Keys /\ h \in Handles /\ models[k] = h /\ k \in aliases[c] /\ drv = t
        /\ opLock[h] = t /\ x # None /\ x \in Channels
    <3>1. /\ k \in Keys /\ h \in Handles /\ models[k] = h /\ k \in aliases[c] /\ drv = t
          /\ opLock[h] = t /\ x # None
      BY <1>1, <2>1 DEF LocalOf, LocksOf, Driving, Operating
    <3>2. QED
      BY <2>1, <3>1 DEF TypeOK
  <2>3. pc' = [pc EXCEPT ![t] = "unloadRelease"] /\ "unloadRelease" \in Unloading
        /\ "unloadRelease" # "unloadLock"
    BY <1>4 DEF Goto, Unloading
  <2>4. Places' /\ pc'[t] = "unloadRelease" /\ Shut' = Shut /\ Moves(t) /\ (t = Closer => ~Cleared')
        /\ Cleared' = Cleared
    BY <1>1, <1>2, <1>4, <2>1, <2>3, EndingPlace
  <2>5. /\ io'[c][k] = None
        /\ \A d \in Clients, l \in Keys : d # c \/ l # k => io'[d][l] = io[d][l]
        /\ buffers'[x] = None /\ \A y \in Channels : y # x => buffers'[y] = buffers[y]
        /\ io' \in [Clients -> [Keys -> Channels \cup {None}]]
        /\ buffers' \in [Channels -> Handles \cup {None}]
    BY <1>4, <2>1, <2>2 DEF TypeOK
  <2>6. TypeOK'
    BY <1>2, <1>4, <2>1, <2>4, <2>5 DEF TypeOK, cache, people, work
  <2>7. Dropped'
    BY <1>1, <1>2, <1>4, <2>3, <2>4, EndingDropped DEF people
  <2>8. LocksOf(t)' /\ LocalOf(t)'
    <3>1. Target(t)' = c
      BY <1>2 DEF Target
    <3>2. LocksOf(t)'
      BY <1>4, <2>2 DEF LocksOf
    <3>3. LocalOf(t)'
      BY <1>2, <1>4, <2>2, <2>4, <2>5, <3>1 DEF LocalOf, Unloading, cache
    <3>4. QED
      BY <3>2, <3>3
  <2>9. JobsOf' /\ RunningStay
    <3>1. UNCHANGED <<job, poisoned>>
      BY <1>2 DEF work
    <3>2. QED
      BY <1>1, <2>4, <3>1, JobsMove DEF RunningStay
  <2>10. ChannelsOf'
    <3>1. job' = job /\ \A d \in Clients, l \in Keys : io'[d][l] = io[d][l] \/ io'[d][l] = None
      BY <1>2, <2>5 DEF work
    <3>2. QED
      BY <2>1, <3>1 DEF ChannelsOf
  <2>11. Contexts'
    BY <1>1, <1>2, <1>4, <2>1, <2>4, ContextsMove DEF cache
  <2>12. Buffers'
    <3>1. UNCHANGED <<models, owners, aliases, fault>> /\ (\A g : Owed(g) => Owed(g)')
      BY <1>2, <1>4, <2>1, <2>4 DEF cache, Owed, Moves, Cleared
    <3>2. ~Cleared' => \A d \in Clients, l \in Keys :
             io'[d][l] # None => l \in aliases[d] /\ buffers'[io'[d][l]] = models[l]
      <4> SUFFICES ASSUME ~Cleared, NEW d \in Clients, NEW l \in Keys, io'[d][l] # None
                   PROVE  l \in aliases[d] /\ buffers'[io'[d][l]] = models[l]
        BY <2>4
      <4>1. io'[d][l] = io[d][l] /\ (d # c \/ l # k)
        BY <2>5
      <4>2. io[d][l] # x /\ io[d][l] \in Channels
        BY <2>1, <2>2, <4>1 DEF ChannelsOf, TypeOK
      <4>3. QED
        BY <2>1, <2>5, <4>1, <4>2 DEF Buffers
    <3>3. ASSUME ~fault, NEW y \in Channels, buffers'[y] # None
          PROVE  OwnBuffer(y)' \/ Owed(buffers[y])'
      <4>1. y # x /\ buffers'[y] = buffers[y]
        BY <2>5, <3>3
      <4>2. OwnBuffer(y) \/ Owed(buffers[y])
        BY <2>1, <3>3, <4>1 DEF Buffers
      <4>3. \A d \in Clients : aliases[d] \subseteq Keys
        BY <2>1 DEF TypeOK
      <4>4. OwnBuffer(y) => OwnBuffer(y)'
        BY <2>5, <3>1, <4>1, <4>3 DEF OwnBuffer
      <4>5. QED
        BY <3>1, <4>1, <4>2, <4>4 DEF Owed
    <3>4. QED
      BY <3>1, <3>2, <3>3 DEF Buffers
  <2>13. Refused'
    BY <1>2, <2>9, RefusedStay DEF work, people
  <2>14. UNCHANGED <<wpc, wjob>> /\ UNCHANGED <<drv, opLock>>
    BY <1>2, <1>4 DEF work
  <2> HIDE DEF c, k, h, x
  <2>15. QED
    BY <1>1, <2>2, <2>4, <2>6, <2>7, <2>8, <2>9, <2>10, <2>11, <2>12, <2>13, <2>14, Composes
<1>5. QED
  BY <1>3, <1>4 DEF UnloadIo
\* An alias is forgotten, with its owner's share of the model, after the
\* context is released if it was the last one.
LEMMA ForgetsKeeps ==
    ASSUME IInv, NEW t \in Threads, pc[t] = "unloadRelease",
           aliases' = [aliases EXCEPT ![Target(t)] = aliases[Target(t)] \ {arg[t].key}],
           owners' = [owners EXCEPT ![arg[t].handle] = owners[arg[t].handle] \ {Target(t)}],
           UnloadReturns(t, AfterUnload(t)),
           \/ owners[arg[t].handle] # {Target(t)} /\ UNCHANGED <<models, native>>
           \/ /\ owners[arg[t].handle] = {Target(t)} /\ GateFree
              /\ native' = [native EXCEPT ![arg[t].handle] = None]
              /\ models' = [models EXCEPT ![arg[t].key] = None],
           UNCHANGED <<fault, sealed, channels, people, stopping, work, todo, dropping, snapshot>>
    PROVE  IInv'
<1> DEFINE c == Target(t)
           k == arg[t].key
           h == arg[t].handle
<1>1. /\ pc[t] \in Unloading /\ pc[t] \in Ending /\ pc[t] \in {"unloadLock"} \cup Unloading
      /\ pc[t] \in Driving
  BY DEF Unloading, Ending, Driving
<1>2. /\ TypeOK /\ LocalOf(t) /\ LocksOf(t) /\ c \in Clients /\ Closer \in Threads /\ t # None
      /\ ~(t = Closer /\ Cleared) /\ todo \in [Threads -> SUBSET (Handles \cup Keys)]
      /\ todo[t] \subseteq Keys /\ Contexts /\ Buffers
  BY <1>1, EndingIs DEF Places, IInv
<1>3. /\ k \in Keys /\ h \in Handles /\ models[k] = h /\ h # None /\ k \in aliases[c]
      /\ drv = t /\ io[c][k] = None
  BY <1>1, <1>2, Names DEF LocalOf, LocksOf
<1>4. /\ drv' = None /\ pc' = [pc EXCEPT ![t] = AfterUnload(t)]
      /\ opLock' \in [Handles -> Threads \cup Workers \cup {None}]
      /\ \A g \in Handles : opLock'[g] = opLock[g] \/ opLock[g] \in {None, t}
      /\ arg' \in [Threads -> ArgRecord] /\ \A u \in Threads : u # t => arg'[u] = arg[u]
  BY ReturnsLocks
<1>5. AfterUnload(t) \in Afters(t) /\ AfterUnload(t) # "unloadLock" /\ AfterUnload(t) # "hello"
  BY RestPlace DEF AfterUnload, Afters
<1>6. /\ Places' /\ pc'[t] = AfterUnload(t) /\ Shut' = Shut /\ Moves(t) /\ Cleared' = Cleared
      /\ (t = Closer => ~Cleared')
  BY <1>1, <1>2, <1>4, <1>5, EndingPlace
<1>7. /\ aliases' \in [Clients -> SUBSET Keys] /\ owners' \in [Handles -> SUBSET Clients]
      /\ aliases'[c] = aliases[c] \ {k} /\ \A d \in Clients : d # c => aliases'[d] = aliases[d]
      /\ owners'[h] = owners[h] \ {c} /\ \A g \in Handles : g # h => owners'[g] = owners[g]
  <2>1. aliases \in [Clients -> SUBSET Keys] /\ owners \in [Handles -> SUBSET Clients]
    BY <1>2 DEF TypeOK
  <2>2. /\ aliases' \in [Clients -> SUBSET Keys]
        /\ aliases'[c] = aliases[c] \ {k} /\ \A d \in Clients : d # c => aliases'[d] = aliases[d]
    BY <1>2, <2>1
  <2>3. /\ owners' \in [Handles -> SUBSET Clients]
        /\ owners'[h] = owners[h] \ {c} /\ \A g \in Handles : g # h => owners'[g] = owners[g]
    BY <1>3, <2>1
  <2>4. QED
    BY <2>2, <2>3
<1>8. \/ owners[h] # {c} /\ UNCHANGED <<models, native>>
      \/ /\ owners[h] = {c} /\ GateFree /\ models'[k] = None /\ native'[h] = None
         /\ \A l \in Keys : l # k => models'[l] = models[l]
         /\ \A g \in Handles : g # h => native'[g] = native[g]
         /\ models' \in [Keys -> Handles \cup {None}]
         /\ native' \in [Handles -> Keys \cup {None}]
  <2>1. models \in [Keys -> Handles \cup {None}] /\ native \in [Handles -> Keys \cup {None}]
    BY <1>2 DEF TypeOK
  <2>2. models' = [models EXCEPT ![k] = None] =>
           /\ models'[k] = None /\ \A l \in Keys : l # k => models'[l] = models[l]
           /\ models' \in [Keys -> Handles \cup {None}]
    BY <1>3, <2>1
  <2>3. native' = [native EXCEPT ![h] = None] =>
           /\ native'[h] = None /\ \A g \in Handles : g # h => native'[g] = native[g]
           /\ native' \in [Handles -> Keys \cup {None}]
    BY <1>3, <2>1
  <2>4. CASE owners[h] # {c} /\ UNCHANGED <<models, native>>
    BY <2>4
  <2>5. CASE owners[h] = {c}
    BY <2>2, <2>3, <2>5
  <2>6. QED
    BY <2>4, <2>5
<1>9. TypeOK'
  <2>1. models' \in [Keys -> Handles \cup {None}] /\ native' \in [Handles -> Keys \cup {None}]
    BY <1>2, <1>8 DEF TypeOK
  <2>2. QED
    BY <1>2, <1>4, <1>7, <2>1 DEF TypeOK, ArgRecord, channels, people, work
<1>10. Dropped'
  BY <1>1, <1>6, EndingDropped DEF people
<1>11. LocksOf(t)' /\ LocalOf(t)'
  BY <1>5, <1>6 DEF LocksOf, LocalOf, Afters, Driving, Operating, Unloading
<1>12. JobsOf' /\ ChannelsOf' /\ RunningStay
  <2>1. UNCHANGED <<job, io, poisoned>>
    BY DEF work, channels
  <2>2. JobsOf'
    BY <1>1, <1>5, <1>6, <2>1, JobsMove
  <2>3. QED
    BY <2>1, <2>2 DEF IInv, ChannelsOf, RunningStay
<1>13. /\ \A l \in Keys : l # k => models'[l] = models[l] /\ models[l] # h
       /\ models'[k] \in {h, None}
       /\ \A l \in Keys : models[l] \in Handles \cup {None}
       /\ \A d \in Clients : aliases'[d] \subseteq aliases[d] /\ aliases[d] \subseteq Keys
       /\ \A d \in Clients : \A l \in aliases'[d] : d # c \/ l # k
  <2>1. \A l \in Keys : l # k => models[l] # h
    BY <1>3, OneKey
  <2>2. \A l \in Keys : l # k => models'[l] = models[l]
    BY <1>8
  <2>3. models'[k] \in {h, None}
    BY <1>3, <1>8
  <2>4. QED
    BY <1>2, <1>7, <2>1, <2>2, <2>3 DEF TypeOK
<1>14. models'[k] # None => models' = models /\ native' = native /\ \E d \in owners[h] : d # c
  <2>1. owners[h] # {}
    <3>1. owners[h] # {} \/ \E u \in Threads : pc[u] = "loadCommit"
      BY <1>2, <1>3 DEF Contexts
    <3>2. \A u \in Threads : pc[u] = "loadCommit" => u = t
      BY <1>3 DEF IInv, Locks, LocksOf, Driving
    <3>3. QED
      BY <3>1, <3>2
  <2>2. QED
    BY <1>8, <2>1
<1>15. Contexts'
  <2>1. \A l \in Keys : models'[l] # None => native'[models'[l]] = l
    <3> SUFFICES ASSUME NEW l \in Keys, models'[l] # None
                 PROVE  native'[models'[l]] = l
      OBVIOUS
    <3>1. CASE l = k
      BY <1>2, <1>14, <3>1 DEF Contexts
    <3>2. CASE l # k
      <4>1. models'[l] = models[l] /\ models[l] # h /\ models[l] \in Handles
        BY <1>13, <3>2
      <4>2. native'[models[l]] = native[models[l]]
        BY <1>8, <4>1
      <4>3. QED
        BY <1>2, <4>1, <4>2 DEF Contexts
    <3>3. QED
      BY <3>1, <3>2
  <2>2. ASSUME ~fault, NEW g \in Handles, native'[g] # None
        PROVE  models'[native'[g]] = g \/ Owed(g)'
    <3>1. native'[g] = native[g] /\ native[g] \in Keys
      BY <1>2, <1>8, <2>2 DEF TypeOK
    <3>2. models[native[g]] = g \/ Owed(g)
      BY <1>2, <2>2, <3>1 DEF Contexts
    <3>3. Owed(g) => Owed(g)'
      BY <1>2, <1>6 DEF Owed, Moves, Cleared
    <3>4. CASE models[native[g]] = g
      <4>1. CASE native[g] = k
        <5>1. g = h
          BY <1>3, <3>4, <4>1
        <5>2. models' = models
          BY <1>8, <2>2, <5>1
        <5>3. QED
          BY <3>1, <3>4, <5>2
      <4>2. CASE native[g] # k
        BY <1>13, <3>1, <3>4, <4>2
      <4>3. QED
        BY <4>1, <4>2
    <3>5. QED
      BY <3>2, <3>3, <3>4
  <2>3. pc'[Closer] = "closeRelease" => \A l \in Keys : models'[l] = None
    <3>1. pc'[Closer] = "closeRelease" => pc[Closer] = "closeRelease"
      BY <1>2, <1>6 DEF Moves, Cleared
    <3>2. QED
      BY <1>2, <1>3, <3>1 DEF Contexts
  <2>4. ~Cleared' => \A d \in Clients : \A l \in aliases'[d] :
                        models'[l] # None /\ d \in owners'[models'[l]]
    <3> SUFFICES ASSUME ~Cleared, NEW d \in Clients, NEW l \in aliases'[d]
                 PROVE  models'[l] # None /\ d \in owners'[models'[l]]
      BY <1>6
    <3>1. l \in Keys /\ l \in aliases[d] /\ (d # c \/ l # k)
      BY <1>13
    <3>2. models[l] # None /\ d \in owners[models[l]]
      BY <1>2, <3>1 DEF Contexts
    <3>3. CASE l = k
      <4>1. d # c /\ d \in owners[h]
        BY <1>3, <3>1, <3>2, <3>3
      <4>2. models' = models
        BY <1>8, <4>1
      <4>3. QED
        BY <1>3, <1>7, <3>3, <4>1, <4>2
    <3>4. CASE l # k
      BY <1>7, <1>13, <3>1, <3>2, <3>4
    <3>5. QED
      BY <3>3, <3>4
  <2>5. ASSUME NEW l \in Keys, models'[l] # None
        PROVE  /\ \A d \in owners'[models'[l]] : l \in aliases'[d]
               /\ \/ owners'[models'[l]] # {}
                  \/ \E u \in Threads : pc'[u] = "loadCommit" /\ arg'[u].key = l
    <3>1. CASE l = k
      <4>1. models' = models /\ \E d \in owners[h] : d # c
        BY <1>14, <2>5, <3>1
      <4>2. \A d \in owners[h] : d \in Clients /\ k \in aliases[d]
        BY <1>2, <1>3 DEF Contexts, TypeOK
      <4>3. QED
        BY <1>3, <1>7, <3>1, <4>1, <4>2
    <3>2. CASE l # k
      <4>1. models'[l] = models[l] /\ models[l] # None /\ owners'[models[l]] = owners[models[l]]
            /\ models[l] \in Handles
        BY <1>7, <1>13, <2>5, <3>2
      <4>2. \A d \in owners[models[l]] : d \in Clients /\ l \in aliases[d]
        BY <1>2, <4>1 DEF Contexts, TypeOK
      <4>3. \A d \in owners[models[l]] : l \in aliases'[d]
        BY <1>7, <3>2, <4>2
      <4>4. \A u \in Threads : pc[u] = "loadCommit" => pc'[u] = pc[u] /\ arg'[u] = arg[u]
        BY <1>6 DEF Moves
      <4>5. QED
        BY <1>2, <4>1, <4>3, <4>4 DEF Contexts
    <3>3. QED
      BY <3>1, <3>2
  <2>6. QED
    BY <2>1, <2>2, <2>3, <2>4, <2>5 DEF Contexts
<1>16. Buffers'
  <2>1. UNCHANGED <<io, buffers, fault>>
    BY DEF channels
  <2>2. ~Cleared' => \A d \in Clients, l \in Keys :
           io[d][l] # None => l \in aliases'[d] /\ buffers[io[d][l]] = models'[l]
    <3> SUFFICES ASSUME ~Cleared, NEW d \in Clients, NEW l \in Keys, io[d][l] # None
                 PROVE  l \in aliases'[d] /\ buffers[io[d][l]] = models'[l]
      BY <1>6
    <3>1. l \in aliases[d] /\ buffers[io[d][l]] = models[l] /\ d \in owners[models[l]]
      BY <1>2 DEF Buffers, Contexts
    <3>2. d # c \/ l # k
      BY <1>3
    <3>3. models'[l] = models[l]
      <4>1. CASE l = k
        BY <1>3, <1>8, <3>1, <3>2, <4>1
      <4>2. CASE l # k
        BY <1>13, <4>2
      <4>3. QED
        BY <4>1, <4>2
    <3>4. QED
      BY <1>7, <3>1, <3>2, <3>3
  <2>3. ASSUME ~fault, NEW y \in Channels, buffers[y] # None
        PROVE  OwnBuffer(y)' \/ Owed(buffers[y])'
    <3>1. OwnBuffer(y) \/ Owed(buffers[y])
      BY <1>2, <2>3 DEF Buffers
    <3>2. Owed(buffers[y]) => Owed(buffers[y])'
      BY <1>2, <1>6, <2>1 DEF Owed, Moves, Cleared
    <3>3. ASSUME OwnBuffer(y)
          PROVE  OwnBuffer(y)'
      <4>8. PICK d \in Clients : \E l \in aliases[d] :
               io[d][l] = y /\ models[l] = buffers[y] /\ d \in owners[models[l]]
        BY <3>3 DEF OwnBuffer
      <4>1. PICK l \in aliases[d] :
               io[d][l] = y /\ models[l] = buffers[y] /\ d \in owners[models[l]]
        BY <4>8
      <4>2. l \in Keys /\ y # None /\ (d # c \/ l # k)
        BY <1>3, <1>13, <4>1, Names
      <4>3. l \in aliases'[d]
        BY <1>7, <4>1, <4>2
      <4>4. models'[l] = models[l] /\ d \in owners'[models[l]]
        <5>1. CASE l = k
          BY <1>3, <1>7, <1>8, <4>1, <4>2, <5>1
        <5>2. CASE l # k
          BY <1>7, <1>13, <2>3, <4>1, <4>2, <5>2
        <5>3. QED
          BY <5>1, <5>2
      <4>5. QED
        BY <2>1, <4>1, <4>3, <4>4 DEF OwnBuffer
    <3>4. QED
      BY <3>1, <3>2, <3>3
  <2>4. QED
    BY <2>1, <2>2, <2>3 DEF Buffers
<1>17. Refused'
  BY <1>12, RefusedStay DEF work, people
<1>18. UNCHANGED <<wpc, wjob, buffers>> /\ (UNCHANGED <<native, buffers>> \/ GateFree)
  BY <1>8 DEF work, channels
<1> HIDE DEF c, k, h
<1>19. QED
  BY <1>3, <1>4, <1>6, <1>9, <1>10, <1>11, <1>12, <1>15, <1>16, <1>17, <1>18, Composes

\* The last step of an unload.
LEMMA UnloadReleaseKeeps == ASSUME IInv, NEW t \in Threads, UnloadRelease(t) PROVE IInv'
<1> DEFINE c == Target(t)
           k == arg[t].key
           h == arg[t].handle
<1>1. /\ pc[t] = "unloadRelease"
      /\ UNCHANGED <<channels, people, stopping, work, todo, dropping, snapshot>>
  BY DEF UnloadRelease
<1>2. CASE /\ owners[h] # {c}
           /\ owners' = [owners EXCEPT ![h] = owners[h] \ {c}]
           /\ aliases' = [aliases EXCEPT ![c] = aliases[c] \ {k}]
           /\ UnloadReturns(t, AfterUnload(t))
           /\ UNCHANGED <<models, native, fault, sealed>>
  BY <1>1, <1>2, ForgetsKeeps
<1>3. CASE /\ owners[h] = {c}
           /\ GateFree /\ ~sealed
           /\ native' = [native EXCEPT ![h] = None]
           /\ models' = [models EXCEPT ![k] = IF models[k] = h THEN None ELSE models[k]]
           /\ owners' = [owners EXCEPT ![h] = {}]
           /\ aliases' = [aliases EXCEPT ![c] = aliases[c] \ {k}]
           /\ UnloadReturns(t, AfterUnload(t))
           /\ UNCHANGED <<fault, sealed>>
  <2>1. models[k] = h
    BY <1>1 DEF IInv, Locals, LocalOf, Unloading
  <2>2. owners[h] \ {c} = {}
    BY <1>3
  <2>3. QED
    BY <1>1, <1>3, <2>1, <2>2, ForgetsKeeps
<1>4. CASE /\ GateFree /\ TeardownFails
           /\ fault' = TRUE
           /\ UnloadReturns(t, IF Dropping(t) THEN "dropEnd" ELSE AtRest)
           /\ UNCHANGED <<cache, aliases>>
  <2>1. sealed' \in BOOLEAN
    BY <1>4, TeardownFlags
  <2>2. QED
    BY <1>1, <1>4, <2>1, UnloadFailsKeeps
<1>5. QED
  BY <1>2, <1>3, <1>4 DEF UnloadRelease
\* Some queued jobs are answered with an error.
LEMMA SomeFinish ==
    ASSUME IInv, NEW S \in SUBSET Jobs, \A j \in S : job[j].st = "queued",
           job' = [j \in Jobs |-> IF j \in S THEN Finished(job[j], "error") ELSE job[j]],
           io' = io, poisoned' = poisoned,
           \A d \in Clients : pc[d] = "await" => pc'[d] = "await" /\ arg'[d] = arg[d],
           \A d \in Clients : pc'[d] = "hello" => pc[d] = "hello"
    PROVE  job' \in [Jobs -> JobRecord] /\ JobsOf' /\ ChannelsOf' /\ RunningStay
<1>1. job \in [Jobs -> JobRecord]
  BY DEF IInv, TypeOK, JobRecord
<1>2. /\ \A j \in Jobs : j \notin S => job'[j] = job[j]
      /\ \A j \in S : job'[j] = Finished(job[j], "error") /\ job[j] \in JobRecord
  BY <1>1
<1>3. job' \in [Jobs -> JobRecord]
  BY <1>1, <1>2, FinishedIs
<1>4. \A j \in S : \/ job'[j] = FreeJob
                   \/ /\ job[j].st # "free" /\ job'[j].st # "free"
                      /\ job'[j].client = job[j].client /\ job'[j].key = job[j].key
                      /\ job'[j].handle = job[j].handle /\ job'[j].chan = job[j].chan
                      /\ job'[j].waited = job[j].waited
  BY <1>2, FinishedIs
<1>5. JobsOf'
  BY <1>2, <1>4, JobsShrink
<1>6. ChannelsOf'
  <2>1. FreeJob.chan = None
    BY DEF FreeJob
  <2>2. QED
    BY <1>2, <1>4, <2>1, ChannelsShrink
<1>7. RunningStay
  BY <1>2 DEF RunningStay
<1>8. QED
  BY <1>3, <1>5, <1>6, <1>7

\* A worker that is marked late because its client closes, or the service.
LEMMA RefusedMore ==
    ASSUME IInv, RunningStay, NEW C, UNCHANGED <<wpc, wjob, auth>>,
           late' = late \cup {w \in RunningFor(C) : wpc[w] # "native"},
           C \subseteq closing' \/ stopping', closing \subseteq closing', stopping => stopping'
    PROVE  Refused' /\ late' \subseteq Workers
<1>1. Refused /\ late \subseteq Workers
  BY DEF IInv, TypeOK
<1>2. \A w \in late' : /\ w \in Workers /\ wpc[w] \notin {"idle", "native"}
                       /\ w \notin late => job[wjob[w]].client \in C
  BY <1>1 DEF RunningFor, Refused
<1>3. \A w \in late' : job'[wjob[w]].client = job[wjob[w]].client
  BY <1>2, WorkersStay
<1>4. QED
  BY <1>1, <1>2, <1>3 DEF Refused, Unchecked

\* A client is dropped, by its own thread or by close().
LEMMA BeginDropKeeps ==
    ASSUME IInv, NEW t \in Threads, NEW c \in Clients, BeginDrop(t, c),
           \/ t = c /\ pc[t] \in {"idle", "leave"} /\ snapshot' = snapshot
           \/ t = Closer /\ pc[t] = "dropEach" /\ snapshot' = snapshot \ {c}
    PROVE  IInv'
<1>1. /\ closing' = closing \cup {c} /\ dropping' = [dropping EXCEPT ![t] = c]
      /\ todo' = [todo EXCEPT ![t] = aliases[c]] /\ pc' = [pc EXCEPT ![t] = "dropNext"]
      /\ late' = late \cup {w \in RunningFor({c}) : wpc[w] # "native"}
      /\ UNCHANGED <<cache, opLock, aliases, channels, registered, auth, drv, flags,
                     wpc, wjob, arg>>
  BY DEF BeginDrop, Goto
<1>2. TypeOK /\ Places /\ Closer \in Threads /\ t # None /\ Closer \notin Clients /\ c \in Threads
      /\ Contexts /\ Buffers
  BY Names DEF IInv, Threads
<1>3. PlaceOf(t) /\ pc[t] \notin Ending /\ pc[t] \notin {"await", "loadCommit", "closeRelease", "closed"}
      /\ ~(t = Closer /\ Cleared)
  BY <1>2 DEF Places, Ending, Unloading, Cleared
<1>4. dropping[t] = None
  BY <1>2, <1>3 DEF PlaceOf
<1>5. /\ pc'[t] = "dropNext" /\ todo'[t] = aliases[c] /\ dropping'[t] = c
      /\ Moves(t)
  BY <1>1, <1>2 DEF Moves, Places, TypeOK
<1>6. /\ todo' \in [Threads -> SUBSET (Handles \cup Keys)] /\ aliases[c] \subseteq Keys
      /\ dropping' \in [Threads -> Clients \cup {None}]
  <2>1. aliases[c] \subseteq Keys
    BY <1>2 DEF TypeOK
  <2>2. QED
    BY <1>1, <1>2, <2>1 DEF Places, TypeOK
<1>7. "dropNext" \in Ending /\ "dropNext" \in ClientPlaces /\ "dropNext" \in CloserPlaces
  BY DEF Ending, ClientPlaces, CloserPlaces
<1>8. t # Closer => t = c /\ snapshot' = snapshot /\ pc'[Closer] = pc[Closer]
  BY <1>2, <1>5 DEF Moves
<1>9. Shut' = Shut /\ Cleared' = Cleared /\ (t = Closer => ~Cleared' /\ Shut)
  BY <1>2, <1>3, <1>5, <1>8 DEF Shut, Cleared
<1>10. Places'
  <2>1. PlaceOf(t)'
    BY <1>2, <1>5, <1>6, <1>7, <1>8, Names DEF PlaceOf
  <2>2. stopping' <=> pc'[Closer] # "serving"
    BY <1>1, <1>2, <1>5, <1>8, <1>9 DEF Places, flags, Shut
  <2>3. (Cleared => snapshot = {})'
    BY <1>2, <1>8, <1>9 DEF Places
  <2>4. QED
    BY <1>1, <1>5, <1>6, <1>7, <2>1, <2>2, <2>3, PlacesMove
<1>11. /\ job' \in [Jobs -> JobRecord] /\ JobsOf' /\ ChannelsOf' /\ RunningStay
  <2> DEFINE S == {j \in Jobs : job[j].client = c /\ job[j].st = "queued"}
  <2>1. S \in SUBSET Jobs /\ \A j \in S : job[j].st = "queued"
    OBVIOUS
  <2>2. job' = [j \in Jobs |-> IF j \in S THEN Finished(job[j], "error") ELSE job[j]]
    BY DEF BeginDrop, Cancel
  <2>3. \A d \in Clients : pc[d] = "await" => pc'[d] = "await" /\ arg'[d] = arg[d]
    BY <1>1, <1>3, <1>5 DEF Moves, Threads
  <2>4. \A d \in Clients : pc'[d] = "hello" => pc[d] = "hello"
    BY <1>5 DEF Moves, Threads
  <2>5. io' = io /\ poisoned' = poisoned
    BY <1>1 DEF channels
  <2> HIDE DEF S
  <2>6. QED
    BY <2>1, <2>2, <2>3, <2>4, <2>5, SomeFinish
<1>12. Refused' /\ late' \subseteq Workers
  <2>1. {c} \subseteq closing' /\ closing \subseteq closing' /\ stopping' = stopping
        /\ UNCHANGED <<wpc, wjob, auth>>
    BY <1>1 DEF flags
  <2>2. QED
    BY <1>1, <1>11, <2>1, RefusedMore
<1>13. TypeOK'
  <2>1. closing' \subseteq Clients /\ snapshot' \subseteq Clients
    BY <1>1, <1>2 DEF TypeOK
  <2>2. QED
    BY <1>1, <1>2, <1>6, <1>11, <1>12, <2>1 DEF TypeOK, JobRecord, cache, channels, flags
<1>14. Contexts' /\ Buffers'
  <2>1. UNCHANGED <<models, native, owners, aliases, io, buffers, fault>>
    BY <1>1 DEF cache, channels, flags
  <2>2. QED
    BY <1>3, <1>5, <1>9, <2>1, ContextsMove, BuffersMove
<1>15. LocksOf(t)' /\ LocalOf(t)'
  BY <1>5 DEF LocksOf, LocalOf, Driving, Operating, Unloading
<1>16. Dropped'
  <2> SUFFICES ASSUME ~fault', NEW d \in Clients
               PROVE  DropOf(d)' /\ LateOpen(d)'
    BY DEF Dropped
  <2>1. UNCHANGED <<aliases, registered, arg>> /\ ~fault
    BY <1>1 DEF flags
  <2>2. DropOf(d) /\ LateOpen(d) /\ d \in Threads /\ d # Closer
    BY <1>2, <2>1 DEF IInv, Dropped, Threads
  <2>3. CASE d = t
    <3>1. t = c
      BY <1>8, <2>2, <2>3
    <3>2. DropOf(d)'
      BY <1>5, <1>9, <2>1, <2>2, <2>3, <3>1 DEF DropOf, Unloading
    <3>3. QED
      BY <1>5, <2>3, <3>2 DEF LateOpen, Opening
  <2>4. CASE d # t
    <3>1. pc'[d] = pc[d] /\ todo'[d] = todo[d] /\ dropping'[d] = dropping[d]
      BY <1>5, <2>2, <2>4 DEF Moves
    <3>2. DropOf(d)'
      BY <1>9, <2>1, <2>2, <3>1 DEF DropOf
    <3>3. CASE t # Closer
      <4>1. /\ pc'[Closer] = pc[Closer] /\ todo'[Closer] = todo[Closer]
            /\ dropping'[Closer] = dropping[Closer]
        BY <1>2, <1>5, <3>3 DEF Moves
      <4>2. QED
        BY <1>8, <1>9, <2>1, <2>2, <3>1, <3>2, <3>3, <4>1 DEF LateOpen
    <3>4. CASE t = Closer
      <4>1. snapshot' = snapshot \ {c} /\ pc[Closer] = "dropEach" /\ dropping[Closer] = None
            /\ pc'[Closer] = "dropNext" /\ todo'[Closer] = aliases[c] /\ dropping'[Closer] = c
        BY <1>2, <1>4, <1>5, <3>4
      <4>2. pc[d] \in Opening => d \in snapshot \/ aliases[d] = {}
        BY <1>9, <2>2, <3>4, <4>1 DEF LateOpen, Unloading
      <4>3. QED
        BY <2>1, <3>1, <3>2, <4>1, <4>2 DEF LateOpen
    <3>5. QED
      BY <3>3, <3>4
  <2>5. QED
    BY <2>3, <2>4
<1>17. UNCHANGED <<wpc, wjob, models, aliases, io, native, buffers, drv, opLock>>
  BY <1>1 DEF cache, channels
<1>18. QED
  BY <1>5, <1>10, <1>11, <1>12, <1>13, <1>14, <1>15, <1>16, <1>17, Composes

\* The next alias of a dropped client.
LEMMA DropNextKeeps == ASSUME IInv, NEW t \in Threads, DropNext(t) PROVE IInv'
<1>1. /\ pc[t] = "dropNext" /\ pc[t] \in Ending
      /\ UNCHANGED <<cache, opLock, aliases, channels, people, drv, flags, work, dropping, snapshot>>
  BY DEF DropNext, Ending
<1>2. /\ TypeOK /\ PlaceOf(t) /\ Closer \in Threads /\ t # None /\ ~(t = Closer /\ Cleared)
      /\ todo \in [Threads -> SUBSET (Handles \cup Keys)] /\ todo[t] \subseteq Keys
      /\ arg \in [Threads -> ArgRecord] /\ (t = Closer => Shut)
  BY <1>1, EndingIs DEF Places
<1>3. Dropping(t) /\ (t # Closer => dropping[t] = t)
  BY <1>1, <1>2 DEF PlaceOf, Dropping
<1>4. UNCHANGED <<models, native, owners, aliases, io, buffers, job, wpc, wjob, late, opLock,
                  stopping, closing, auth, fault, poisoned, drv, registered, dropping, snapshot>>
  BY <1>1 DEF cache, channels, people, flags, work
<1>5. CASE todo[t] = {}
  <2>1. pc' = [pc EXCEPT ![t] = "dropEnd"] /\ UNCHANGED <<arg, todo>>
    BY <1>5 DEF DropNext, Goto
  <2>2. "dropEnd" \in Afters(t)
    BY <1>3 DEF Afters
  <2>3. Places' /\ pc'[t] = "dropEnd" /\ Shut' = Shut /\ Moves(t) /\ (t = Closer => ~Cleared')
    BY <1>1, <1>2, <1>4, <2>1, <2>2, EndingPlace
  <2>4. TypeOK'
    BY <1>1, <1>2, <2>1 DEF TypeOK, cache, channels, people, flags, work
  <2>5. LocksOf(t)' /\ LocalOf(t)'
    BY <2>3 DEF LocksOf, LocalOf, Driving, Operating, Unloading
  <2>6. Dropped'
    <3> SUFFICES ASSUME ~fault', NEW d \in Clients
                 PROVE  DropOf(d)' /\ LateOpen(d)'
      BY DEF Dropped
    <3>1. DropOf(d) /\ LateOpen(d) /\ d \in Threads
      BY <1>4 DEF IInv, Dropped, Threads
    <3>2. CASE d = t
      BY <1>1, <1>4, <1>5, <2>3, <3>1, <3>2 DEF DropOf, LateOpen, Opening, Unloading
    <3>3. CASE d # t /\ t # Closer
      <4>1. pc'[d] = pc[d] /\ pc'[Closer] = pc[Closer]
        BY <1>2, <2>3, <3>1, <3>3 DEF Moves
      <4>2. QED
        BY <1>4, <2>1, <2>3, <3>1, <4>1 DEF DropOf, LateOpen
    <3>4. CASE d # t /\ t = Closer
      <4>1. pc'[d] = pc[d]
        BY <2>3, <3>1, <3>4 DEF Moves
      <4>2. DropOf(d)'
        BY <1>4, <2>1, <2>3, <3>1, <4>1 DEF DropOf
      <4>3. LateOpen(d)'
        BY <1>1, <1>4, <1>5, <2>1, <2>3, <3>1, <3>4, <4>1 DEF LateOpen, Unloading
      <4>4. QED
        BY <4>2, <4>3
    <3>5. QED
      BY <3>2, <3>3, <3>4
  <2>7. QED
    BY <1>1, <1>2, <1>4, <2>3, <2>4, <2>5, <2>6, ThreadMoves
<1>6. CASE todo[t] # {}
  <2>1. PICK k \in todo[t] : /\ arg' = [arg EXCEPT ![t].key = k]
                             /\ todo' = [todo EXCEPT ![t] = todo[t] \ {k}]
    BY <1>6 DEF DropNext
  <2>2. pc' = [pc EXCEPT ![t] = "unloadLock"]
    BY <1>6 DEF DropNext, Goto
  <2>3. /\ k \in Keys /\ arg' \in [Threads -> ArgRecord] /\ arg'[t].key = k
        /\ \A u \in Threads : u # t => arg'[u] = arg[u]
    BY <1>2, <2>1, ArgSets
  <2>4. /\ todo' \in [Threads -> SUBSET (Handles \cup Keys)] /\ todo'[t] = todo[t] \ {k}
        /\ todo'[t] \subseteq Keys
        /\ \A u \in Threads : u # t => todo'[u] = todo[u]
    BY <1>2, <2>1
  <2>5. Places' /\ pc'[t] = "unloadLock" /\ Shut' = Shut /\ Moves(t) /\ (t = Closer => ~Cleared')
    BY <1>1, <1>2, <1>4, <2>2, <2>3, <2>4, EndingPlace
  <2>6. TypeOK'
    BY <1>1, <1>2, <2>3 DEF TypeOK, ArgRecord, cache, channels, people, flags, work
  <2>7. LocksOf(t)' /\ LocalOf(t)'
    BY <2>3, <2>5 DEF LocksOf, LocalOf, Driving, Operating, Unloading
  <2>8. Dropped'
    <3> SUFFICES ASSUME ~fault', NEW d \in Clients
                 PROVE  DropOf(d)' /\ LateOpen(d)'
      BY DEF Dropped
    <3>1. DropOf(d) /\ LateOpen(d) /\ d \in Threads
      BY <1>4 DEF IInv, Dropped, Threads
    <3>2. CASE d = t
      BY <1>1, <1>4, <2>3, <2>4, <2>5, <3>1, <3>2 DEF DropOf, LateOpen, Opening, Unloading
    <3>3. CASE d # t /\ t # Closer
      <4>1. /\ pc'[d] = pc[d] /\ pc'[Closer] = pc[Closer] /\ todo'[d] = todo[d]
            /\ todo'[Closer] = todo[Closer] /\ arg'[d] = arg[d] /\ arg'[Closer] = arg[Closer]
        BY <1>2, <2>5, <3>1, <3>3 DEF Moves
      <4>2. QED
        BY <1>4, <2>5, <3>1, <4>1 DEF DropOf, LateOpen
    <3>4. CASE d # t /\ t = Closer
      <4>1. pc'[d] = pc[d] /\ todo'[d] = todo[d] /\ arg'[d] = arg[d]
        BY <2>5, <3>1, <3>4 DEF Moves
      <4>2. DropOf(d)'
        BY <1>4, <2>5, <3>1, <4>1 DEF DropOf
      <4>3. LateOpen(d)'
        BY <1>1, <1>4, <2>3, <2>4, <2>5, <3>1, <3>4, <4>1 DEF LateOpen, Unloading
      <4>4. QED
        BY <4>2, <4>3
    <3>5. QED
      BY <3>2, <3>3, <3>4
  <2>9. QED
    BY <1>1, <1>2, <1>4, <2>5, <2>6, <2>7, <2>8, ThreadMoves
<1>7. QED
  BY <1>5, <1>6
\* A client is unregistered.
LEMMA DropEndKeeps == ASSUME IInv, NEW t \in Threads, DropEnd(t) PROVE IInv'
<1> DEFINE l == IF t = Closer THEN "dropEach" ELSE "gone"
<1>1. /\ pc[t] = "dropEnd" /\ pc[t] \in Ending
      /\ registered' = registered \ {dropping[t]} /\ dropping' = [dropping EXCEPT ![t] = None]
      /\ todo' = [todo EXCEPT ![t] = {}] /\ pc' = [pc EXCEPT ![t] = l]
      /\ UNCHANGED <<cache, opLock, aliases, channels, closing, auth, drv, flags, work, arg,
                     snapshot>>
  BY DEF DropEnd, Ending, Goto
<1>2. /\ TypeOK /\ PlaceOf(t) /\ Places /\ Closer \in Threads /\ ~(t = Closer /\ Cleared)
      /\ (t = Closer => Shut) /\ (t # Closer => t \in Clients) /\ pc[t] # "await"
      /\ pc[t] # "loadCommit"
  BY <1>1, EndingIs
<1>3. /\ pc'[t] = l /\ todo'[t] = {} /\ dropping'[t] = None /\ Moves(t)
      /\ todo' \in [Threads -> SUBSET (Handles \cup Keys)]
      /\ dropping' \in [Threads -> Clients \cup {None}]
  BY <1>1, <1>2 DEF Moves, Places, TypeOK
<1>4. l \notin Ending /\ l \in ClientPlaces \cup CloserPlaces /\ l \notin {"hello", "serving"}
      /\ (t = Closer => l \in CloserPlaces) /\ (t # Closer => l \in ClientPlaces)
      /\ l \notin {"closing", "closeRelease", "closed", "dropNext", "dropEnd"}
  BY DEF Ending, Unloading, ClientPlaces, CloserPlaces
<1>5. Shut' = Shut /\ Cleared' = Cleared /\ (t = Closer => ~Cleared')
  BY <1>1, <1>2, <1>3, <1>4 DEF Shut, Cleared, Moves
<1>6. Places'
  <2>1. PlaceOf(t)'
    BY <1>3, <1>4 DEF PlaceOf
  <2>2. stopping' <=> pc'[Closer] # "serving"
    BY <1>1, <1>2, <1>3, <1>4 DEF Places, Moves, flags
  <2>3. (Cleared => snapshot = {})'
    BY <1>1, <1>2, <1>5 DEF Places
  <2>4. QED
    BY <1>1, <1>3, <1>4, <2>1, <2>2, <2>3, PlacesMove
<1>7. TypeOK'
  <2>1. registered' \subseteq Clients
    BY <1>1, <1>2 DEF TypeOK
  <2>2. QED
    BY <1>1, <1>2, <1>3, <2>1 DEF TypeOK, cache, channels, flags, work
<1>8. LocksOf(t)' /\ LocalOf(t)'
  BY <1>3 DEF LocksOf, LocalOf, Driving, Operating, Unloading
<1>9. UNCHANGED <<models, native, owners, aliases, io, buffers, job, wpc, wjob, late, opLock,
                  stopping, closing, auth, fault, poisoned, drv>>
  BY <1>1 DEF cache, channels, flags, work
<1>10. Dropped'
  <2> SUFFICES ASSUME ~fault', NEW d \in Clients
               PROVE  DropOf(d)' /\ LateOpen(d)'
    BY DEF Dropped
  <2>1. DropOf(d) /\ LateOpen(d) /\ d \in Threads
    BY <1>9 DEF IInv, Dropped, Threads
  <2>2. CASE d = t
    <3>1. pc'[t] = "gone" /\ aliases'[t] = {}
      BY <1>1, <1>3, <1>9, <2>1, <2>2, Names DEF DropOf
    <3>2. QED
      BY <2>2, <3>1 DEF DropOf, LateOpen, Opening, Unloading
  <2>3. CASE d # t
    <3>1. pc'[d] = pc[d] /\ todo'[d] = todo[d] /\ arg' = arg /\ dropping'[d] = dropping[d]
      BY <1>1, <1>3, <2>1, <2>3 DEF Moves
    <3>2. ~Shut => (d \in registered => d \in registered')
      <4>1. t # Closer => dropping[t] = t
        BY <1>1, <1>2 DEF PlaceOf
      <4>2. QED
        BY <1>1, <1>2, <2>3, <4>1
    <3>3. DropOf(d)'
      BY <1>5, <1>9, <2>1, <3>1, <3>2 DEF DropOf
    <3>4. LateOpen(d)'
      <4>1. CASE t = Closer
        BY <1>1, <1>5, <1>9, <2>1, <3>1, <4>1 DEF LateOpen, Unloading
      <4>2. CASE t # Closer
        <5>1. pc'[Closer] = pc[Closer] /\ todo'[Closer] = todo[Closer]
              /\ dropping'[Closer] = dropping[Closer]
          BY <1>2, <1>3, <4>2 DEF Moves
        <5>2. QED
          BY <1>1, <1>5, <1>9, <2>1, <3>1, <5>1 DEF LateOpen
      <4>3. QED
        BY <4>1, <4>2
    <3>5. QED
      BY <3>3, <3>4
  <2>4. QED
    BY <2>2, <2>3
<1> HIDE DEF l
<1>11. QED
  BY <1>1, <1>2, <1>3, <1>4, <1>5, <1>6, <1>7, <1>8, <1>9, <1>10, ThreadMoves

\* What the invariant says of the thread that runs close().
LEMMA CloserIs ==
    ASSUME IInv
    PROVE  /\ TypeOK /\ Places /\ Contexts /\ Buffers /\ PlaceOf(Closer) /\ LocksOf(Closer)
           /\ Closer \in Threads /\ Closer # None /\ Closer \notin Clients
           /\ pc \in [Threads -> ClientPlaces \cup CloserPlaces]
BY Names DEF IInv, Places, Locks, Threads

\* The places, when close() goes on outside of a drop.
LEMMA CloserPlace ==
    ASSUME IInv, NEW l \in {"closing", "dropEach", "closeRelease", "closed"},
           pc[Closer] \notin Ending, pc' = [pc EXCEPT ![Closer] = l], stopping',
           UNCHANGED <<dropping, arg>>, \A u \in Threads : u # Closer => todo'[u] = todo[u],
           todo' \in [Threads -> SUBSET (Handles \cup Keys)],
           todo'[Closer] \subseteq (IF l = "closeRelease" THEN Handles ELSE Keys),
           l \in {"closeRelease", "closed"} => snapshot' = {}
    PROVE  /\ Places' /\ Moves(Closer) /\ pc'[Closer] = l /\ dropping[Closer] = None
           /\ (l # "closeRelease" => LocksOf(Closer)') /\ LocalOf(Closer)'
           /\ l \notin {"hello", "await"}
<1>1. /\ Places /\ PlaceOf(Closer) /\ Closer \in Threads
      /\ pc \in [Threads -> ClientPlaces \cup CloserPlaces]
  BY CloserIs
<1>2. pc'[Closer] = l /\ Moves(Closer) /\ dropping[Closer] = None
  BY <1>1 DEF Moves, PlaceOf
<1>3. l \in CloserPlaces /\ l \notin Ending
  BY DEF CloserPlaces, Ending, Unloading
<1>4. PlaceOf(Closer)'
  BY <1>1, <1>2, <1>3 DEF PlaceOf
<1>5. Places'
  BY <1>1, <1>2, <1>3, <1>4, PlacesMove DEF Cleared
<1>6. LocalOf(Closer)' /\ (l # "closeRelease" => LocksOf(Closer)')
  BY <1>2 DEF LocksOf, LocalOf, Driving, Operating, Unloading
<1>7. QED
  BY <1>2, <1>5, <1>6

\* close() begins: what is queued is answered.
LEMMA CloseKeeps == ASSUME IInv, Close PROVE IInv'
<1>1. /\ pc[Closer] = "serving" /\ stopping' = TRUE /\ pc' = [pc EXCEPT ![Closer] = "closing"]
      /\ late' = late \cup {w \in RunningFor(Clients) : wpc[w] # "native"}
      /\ UNCHANGED <<cache, opLock, aliases, channels, people, drv, fault, sealed,
                     wpc, wjob, arg, todo, dropping, snapshot>>
  BY DEF Close, Goto
<1>2. /\ TypeOK /\ Places /\ Contexts /\ Buffers /\ PlaceOf(Closer) /\ Closer \in Threads
      /\ Closer \notin Clients
  BY CloserIs
<1>3. pc[Closer] \notin Ending /\ todo \in [Threads -> SUBSET (Handles \cup Keys)]
      /\ todo[Closer] \subseteq Keys
  BY <1>1, <1>2 DEF Ending, Unloading, Places, PlaceOf
<1>4. /\ Places' /\ Moves(Closer) /\ pc'[Closer] = "closing"
      /\ LocksOf(Closer)' /\ LocalOf(Closer)'
  BY <1>1, <1>3, CloserPlace
<1>5. /\ job' \in [Jobs -> JobRecord] /\ JobsOf' /\ ChannelsOf' /\ RunningStay
  <2> DEFINE S == {j \in Jobs : job[j].st = "queued"}
  <2>1. S \in SUBSET Jobs /\ \A j \in S : job[j].st = "queued"
    OBVIOUS
  <2>2. job' = [j \in Jobs |-> IF j \in S THEN Finished(job[j], "error") ELSE job[j]]
    BY DEF Close
  <2>3. \A d \in Clients : pc[d] = "await" => pc'[d] = "await" /\ arg'[d] = arg[d]
    BY <1>2, <1>4 DEF Moves, Threads
  <2>4. \A d \in Clients : pc'[d] = "hello" => pc[d] = "hello"
    BY <1>2, <1>4 DEF Moves, Threads
  <2>5. io' = io /\ poisoned' = poisoned
    BY <1>1 DEF channels
  <2> HIDE DEF S
  <2>6. QED
    BY <2>1, <2>2, <2>3, <2>4, <2>5, SomeFinish
<1>6. Refused' /\ late' \subseteq Workers
  <2>1. closing \subseteq closing' /\ UNCHANGED <<wpc, wjob, auth>>
    BY <1>1 DEF people
  <2>2. QED
    BY <1>1, <1>5, <2>1, RefusedMore
<1>7. TypeOK'
  BY <1>1, <1>2, <1>5, <1>6 DEF TypeOK, JobRecord, cache, channels, people
<1>8. ~Cleared /\ ~Cleared' /\ ~Shut /\ ~Shut'
  BY <1>1, <1>4 DEF Cleared, Shut
<1>9. Contexts' /\ Buffers'
  <2>1. UNCHANGED <<models, native, owners, aliases, io, buffers, fault>>
    BY <1>1 DEF cache, channels
  <2>2. QED
    BY <1>1, <1>2, <1>4, <1>8, <2>1, ContextsMove, BuffersMove
<1>10. Dropped'
  <2>1. \A d \in Clients : pc'[d] = pc[d]
    BY <1>2, <1>4 DEF Moves, Threads
  <2>2. UNCHANGED <<aliases, registered, arg, todo, dropping, fault>>
    BY <1>1 DEF people
  <2>3. QED
    BY <1>8, <2>1, <2>2 DEF IInv, Dropped, DropOf, LateOpen
<1>11. UNCHANGED <<wpc, wjob, models, aliases, io, native, buffers, drv, opLock>>
  BY <1>1 DEF cache, channels
<1>12. QED
  BY <1>2, <1>4, <1>5, <1>6, <1>7, <1>9, <1>10, <1>11, Composes

\* The connections are shut down; from here close() drops the clients that
\* were registered.
LEMMA CloseShutKeeps == ASSUME IInv, CloseShut PROVE IInv'
<1>1. /\ pc[Closer] = "closing" /\ snapshot' = registered /\ pc' = [pc EXCEPT ![Closer] = "dropEach"]
      /\ UNCHANGED <<cache, opLock, aliases, channels, people, drv, flags, work,
                     arg, todo, dropping>>
  BY DEF CloseShut, Goto
<1>2. /\ TypeOK /\ Places /\ PlaceOf(Closer) /\ Closer \in Threads /\ Closer \notin Clients
      /\ Closer # None
  BY CloserIs
<1>3. pc[Closer] \notin Ending /\ todo \in [Threads -> SUBSET (Handles \cup Keys)]
      /\ todo[Closer] \subseteq Keys /\ stopping'
  BY <1>1, <1>2 DEF Ending, Unloading, Places, PlaceOf, flags
<1>4. /\ Places' /\ Moves(Closer) /\ pc'[Closer] = "dropEach"
      /\ LocksOf(Closer)' /\ LocalOf(Closer)'
  BY <1>1, <1>3, CloserPlace
<1>5. TypeOK'
  BY <1>1, <1>2 DEF TypeOK, cache, channels, people, flags, work
<1>6. ~Cleared /\ ~Cleared' /\ ~Shut /\ Shut'
  BY <1>1, <1>4 DEF Cleared, Shut
<1>7. Dropped'
  <2>1. \A d \in Clients : pc'[d] = pc[d]
    BY <1>2, <1>4 DEF Moves, Threads
  <2>2. UNCHANGED <<aliases, registered, arg, todo, dropping, fault>>
    BY <1>1 DEF people, flags
  <2>3. ~fault => \A d \in Clients : pc[d] \in Opening => d \in registered
    <3>1. \A d \in Clients : pc[d] \in Opening => pc[d] \notin {"gone", "hello"}
      BY DEF Opening
    <3>2. QED
      BY <1>6, <3>1 DEF IInv, Dropped, DropOf
  <2>4. QED
    BY <1>1, <1>6, <2>1, <2>2, <2>3 DEF IInv, Dropped, DropOf, LateOpen
<1>8. UNCHANGED <<models, native, owners, aliases, io, buffers, job, wpc, wjob, late, opLock,
                  stopping, closing, auth, fault, poisoned, drv>>
  BY <1>1 DEF cache, channels, people, flags, work
<1>9. QED
  BY <1>1, <1>2, <1>4, <1>5, <1>6, <1>7, <1>8, ThreadMoves
\* The cache is cleared, and what was in it is owed a release.
LEMMA CloseClearKeeps == ASSUME IInv, CloseClear PROVE IInv'
<1> DEFINE owed == {models[k] : k \in Cached}
<1>1. /\ pc[Closer] = "dropEach" /\ snapshot = {} /\ drv = None /\ drv' = Closer
      /\ todo' = [todo EXCEPT ![Closer] = owed] /\ models' = [k \in Keys |-> None]
      /\ pc' = [pc EXCEPT ![Closer] = "closeRelease"]
      /\ UNCHANGED <<native, owners, opLock, aliases, channels, people, flags, work,
                     arg, dropping, snapshot>>
  BY DEF CloseClear, Goto
<1>2. /\ TypeOK /\ Places /\ Contexts /\ Buffers /\ PlaceOf(Closer) /\ Closer \in Threads
      /\ Closer \notin Clients
  BY CloserIs
<1>3. /\ pc[Closer] \notin Ending /\ todo \in [Threads -> SUBSET (Handles \cup Keys)] /\ stopping'
  BY <1>1, <1>2 DEF Ending, Unloading, Places, flags
<1>4. owed \subseteq Handles
  BY <1>2 DEF TypeOK, Cached
<1>5. \A h : h \in owed <=> \E k \in Keys : models[k] = h /\ h # None
  BY DEF Cached
<1> HIDE DEF owed
<1>6. /\ todo' \in [Threads -> SUBSET (Handles \cup Keys)] /\ todo'[Closer] = owed
      /\ \A u \in Threads : u # Closer => todo'[u] = todo[u]
  BY <1>1, <1>2, <1>3, <1>4
<1>7. /\ Places' /\ Moves(Closer) /\ pc'[Closer] = "closeRelease" /\ dropping[Closer] = None
      /\ LocalOf(Closer)'
  BY <1>1, <1>3, <1>4, <1>6, CloserPlace
<1>8. LocksOf(Closer)'
  BY <1>1, <1>7 DEF LocksOf, Operating
<1>9. TypeOK'
  <2>1. models' \in [Keys -> Handles \cup {None}]
    BY <1>1
  <2>2. QED
    BY <1>1, <1>2, <2>1 DEF TypeOK, channels, people, flags, work
<1>10. /\ Cleared' /\ Shut /\ Shut' /\ (\A h : ~Owed(h)) /\ (\A h : Owed(h)' <=> h \in owed)
       /\ \A k \in Keys : models'[k] = None
  BY <1>1, <1>6, <1>7 DEF Cleared, Shut, Owed
<1>11. Contexts'
  <2>1. ~fault' => \A h \in Handles : native'[h] # None => Owed(h)'
    <3> SUFFICES ASSUME ~fault, NEW h \in Handles, native[h] # None
                 PROVE  h \in owed
      BY <1>1, <1>10 DEF flags
    <3>1. models[native[h]] = h /\ native[h] \in Keys /\ h # None
      BY <1>2, <1>10, Names DEF Contexts, TypeOK
    <3>2. QED
      BY <1>5, <3>1
  <2>2. QED
    BY <1>10, <2>1 DEF Contexts
<1>12. Buffers'
  <2>1. UNCHANGED <<io, buffers, fault>>
    BY <1>1 DEF channels, flags
  <2>2. ASSUME ~fault, NEW x \in Channels, buffers[x] # None
        PROVE  Owed(buffers[x])'
    <3>1. OwnBuffer(x)
      BY <1>2, <1>10, <2>2 DEF Buffers
    <3>2. \E k \in Keys : models[k] = buffers[x]
      BY <1>2, <3>1 DEF OwnBuffer, TypeOK
    <3>3. buffers[x] \in owed
      BY <1>5, <2>2, <3>2
    <3>4. QED
      BY <1>6, <1>7, <2>1, <3>3 DEF Owed
  <2>3. QED
    BY <1>10, <2>1, <2>2 DEF Buffers
<1>13. Dropped'
  <2>1. \A d \in Clients : pc'[d] = pc[d] /\ todo'[d] = todo[d]
    BY <1>2, <1>7 DEF Moves, Threads
  <2>2. UNCHANGED <<aliases, registered, arg, dropping, fault>>
    BY <1>1 DEF people, flags
  <2>3. \A d \in Clients : DropOf(d) => DropOf(d)'
    BY <1>10, <2>1, <2>2 DEF DropOf
  <2>4. \A d \in Clients : LateOpen(d) => LateOpen(d)'
    BY <1>1, <1>10, <2>1, <2>2 DEF LateOpen, Unloading
  <2>5. QED
    BY <2>2, <2>3, <2>4 DEF IInv, Dropped
<1>14. /\ UNCHANGED <<wpc, wjob, io, native, buffers, opLock, job, poisoned, late, closing, auth,
                      stopping>>
       /\ drv \in {None, Closer}
  BY <1>1 DEF channels, work, people, flags
<1>15. JobsOf' /\ ChannelsOf' /\ RunningStay
  <2>1. JobsOf'
    BY <1>1, <1>2, <1>7, <1>14, JobsMove
  <2>2. QED
    BY <1>14, <2>1 DEF IInv, ChannelsOf, RunningStay
<1>16. Refused'
  BY <1>14, <1>15, RefusedStay
<1>17. QED
  BY <1>2, <1>7, <1>8, <1>9, <1>11, <1>12, <1>13, <1>14, <1>15, <1>16, Composes

\* A context that was cached is released, or the driver has failed.
LEMMA CloseReleaseKeeps == ASSUME IInv, CloseRelease PROVE IInv'
<1>1. /\ pc[Closer] = "closeRelease" /\ GateFree
      /\ UNCHANGED <<models, owners, opLock, aliases, io, poisoned, people, drv, stopping,
                     work, pc, arg, dropping, snapshot>>
  BY DEF CloseRelease
<1>2. /\ TypeOK /\ Places /\ Contexts /\ Buffers /\ PlaceOf(Closer) /\ LocksOf(Closer)
      /\ Closer \in Threads /\ Closer \notin Clients
  BY CloserIs
<1>3. todo \in [Threads -> SUBSET (Handles \cup Keys)] /\ todo[Closer] \subseteq Handles
  BY <1>1, <1>2 DEF Places, PlaceOf
<1>4. PICK h \in todo[Closer] :
         \/ /\ native' = [native EXCEPT ![h] = None]
            /\ buffers' = [x \in Channels |-> IF buffers[x] = h THEN None ELSE buffers[x]]
            /\ todo' = [todo EXCEPT ![Closer] = todo[Closer] \ {h}]
            /\ UNCHANGED <<fault, sealed>>
         \/ /\ TeardownFails /\ fault' = TRUE
            /\ todo' = [todo EXCEPT ![Closer] = {}]
            /\ UNCHANGED <<native, buffers>>
  BY DEF CloseRelease
<1>5. h \in Handles
  BY <1>3
<1>6. /\ native' \in [Handles -> Keys \cup {None}]
      /\ buffers' \in [Channels -> Handles \cup {None}]
      /\ fault' \in BOOLEAN /\ sealed' \in BOOLEAN /\ (fault => fault')
  <2>1. CASE TeardownFails /\ fault' = TRUE /\ UNCHANGED <<native, buffers>>
    BY <1>2, <2>1, TeardownFlags DEF TypeOK
  <2>2. CASE /\ native' = [native EXCEPT ![h] = None]
             /\ buffers' = [x \in Channels |-> IF buffers[x] = h THEN None ELSE buffers[x]]
             /\ UNCHANGED <<fault, sealed>>
    BY <1>2, <2>2 DEF TypeOK
  <2>3. QED
    BY <1>4, <2>1, <2>2
<1>7. /\ todo' \in [Threads -> SUBSET (Handles \cup Keys)] /\ todo'[Closer] \subseteq todo[Closer]
      /\ \A u \in Threads : u # Closer => todo'[u] = todo[u]
  <2>1. CASE todo' = [todo EXCEPT ![Closer] = todo[Closer] \ {h}]
    BY <1>2, <1>3, <2>1
  <2>2. CASE todo' = [todo EXCEPT ![Closer] = {}]
    BY <1>2, <1>3, <2>2
  <2>3. QED
    BY <1>4, <2>1, <2>2
<1>8. Moves(Closer) /\ pc' = pc
  BY <1>1, <1>7 DEF Moves
<1>9. Places'
  <2>1. \A u \in Threads : PlaceOf(u)'
    BY <1>1, <1>2, <1>7 DEF Places, PlaceOf
  <2>2. QED
    BY <1>1, <1>2, <1>7, <2>1 DEF Places, Cleared
<1>10. TypeOK'
  BY <1>1, <1>2, <1>6 DEF TypeOK, people, work
<1>11. LocksOf(Closer)' /\ LocalOf(Closer)'
  BY <1>1, <1>2 DEF LocksOf, LocalOf, Operating, Unloading
<1>12. Cleared /\ Cleared' /\ (\A k \in Keys : models[k] = None)
  BY <1>1, <1>2 DEF Cleared, Contexts
<1>13. ~fault' =>
          /\ ~fault
          /\ native'[h] = None /\ \A g \in Handles : g # h => native'[g] = native[g]
          /\ \A x \in Channels : buffers'[x] # None => buffers'[x] = buffers[x] /\ buffers[x] # h
          /\ todo'[Closer] = todo[Closer] \ {h}
  BY <1>2, <1>3, <1>4, <1>5 DEF TypeOK
<1>14. ~fault' => \A g : g # h /\ Owed(g) => Owed(g)'
  BY <1>1, <1>13 DEF Owed
<1>15. Contexts'
  <2>1. ASSUME ~fault', NEW g \in Handles, native'[g] # None
        PROVE  models[native'[g]] = g \/ Owed(g)'
    BY <1>2, <1>13, <1>14, <2>1 DEF Contexts
  <2>2. QED
    BY <1>1, <1>12, <2>1 DEF Contexts
<1>16. Buffers'
  <2>1. ASSUME ~fault', NEW x \in Channels, buffers'[x] # None
        PROVE  OwnBuffer(x)' \/ Owed(buffers[x])'
    <3>1. buffers'[x] = buffers[x] /\ buffers[x] # None /\ buffers[x] # h /\ ~fault
      BY <1>13, <2>1
    <3>2. OwnBuffer(x) \/ Owed(buffers[x])
      BY <1>2, <3>1 DEF Buffers
    <3>3. OwnBuffer(x) => OwnBuffer(x)'
      BY <1>1, <3>1 DEF OwnBuffer
    <3>4. Owed(buffers[x]) => Owed(buffers[x])'
      BY <1>1, <1>13, <2>1, <3>1 DEF Owed
    <3>5. QED
      BY <3>2, <3>3, <3>4
  <2>2. QED
    BY <1>12, <2>1 DEF Buffers
<1>17. Dropped'
  <2>1. \A d \in Clients : todo'[d] = todo[d]
    BY <1>2, <1>7 DEF Threads
  <2>2. UNCHANGED <<aliases, registered, arg, dropping, pc, snapshot>>
    BY <1>1 DEF people
  <2>3. \A d \in Clients : DropOf(d) => DropOf(d)'
    BY <2>1, <2>2 DEF DropOf, Shut
  <2>4. \A d \in Clients : LateOpen(d) => LateOpen(d)'
    BY <1>1, <2>1, <2>2 DEF LateOpen, Unloading, Shut
  <2>5. QED
    BY <1>6, <2>3, <2>4 DEF IInv, Dropped
<1>18. UNCHANGED <<wpc, wjob, models, aliases, io, opLock, drv, job, poisoned, late, closing, auth,
                   stopping>>
  BY <1>1 DEF work, people
<1>19. JobsOf' /\ ChannelsOf' /\ RunningStay
  <2>1. JobsOf'
    BY <1>1, <1>2, <1>8, <1>18, JobsMove
  <2>2. QED
    BY <1>18, <2>1 DEF IInv, ChannelsOf, RunningStay
<1>20. Refused'
  BY <1>18, <1>19, RefusedStay
<1>21. QED
  BY <1>1, <1>2, <1>8, <1>9, <1>10, <1>11, <1>15, <1>16, <1>17, <1>18, <1>19, <1>20, Composes

\* close() ends with nothing owed.
LEMMA ClosedKeeps == ASSUME IInv, Closed PROVE IInv'
<1>1. /\ pc[Closer] = "closeRelease" /\ todo[Closer] = {} /\ drv' = None
      /\ pc' = [pc EXCEPT ![Closer] = "closed"]
      /\ UNCHANGED <<cache, opLock, aliases, channels, people, flags, work, arg, todo, dropping,
                     snapshot>>
  BY DEF Closed, Goto
<1>2. /\ TypeOK /\ Places /\ Contexts /\ Buffers /\ PlaceOf(Closer) /\ LocksOf(Closer)
      /\ Closer \in Threads /\ Closer \notin Clients
  BY CloserIs
<1>3. /\ pc[Closer] \notin Ending /\ todo \in [Threads -> SUBSET (Handles \cup Keys)]
      /\ todo[Closer] \subseteq Keys /\ stopping' /\ snapshot' = {} /\ drv = Closer
  BY <1>1, <1>2 DEF Ending, Unloading, Places, flags, Cleared, LocksOf, Driving
<1>4. /\ Places' /\ Moves(Closer) /\ pc'[Closer] = "closed" /\ LocksOf(Closer)' /\ LocalOf(Closer)'
  BY <1>1, <1>3, CloserPlace
<1>5. TypeOK'
  BY <1>1, <1>2 DEF TypeOK, cache, channels, people, flags, work
<1>6. /\ UNCHANGED <<wpc, wjob, models, native, owners, aliases, io, buffers, opLock, job, poisoned,
                     late, closing, auth, stopping, fault, registered, arg, todo, dropping, snapshot>>
      /\ drv' \in {None, Closer}
  BY <1>1 DEF cache, channels, people, flags, work
<1>7. Cleared /\ Cleared' /\ (\A h : ~Owed(h)) /\ (\A k \in Keys : models[k] = None) /\ Shut /\ Shut'
  BY <1>1, <1>2, <1>4 DEF Cleared, Owed, Contexts, Shut
<1>8. Contexts'
  BY <1>2, <1>4, <1>6, <1>7 DEF Contexts
<1>9. Buffers'
  BY <1>2, <1>6, <1>7 DEF Buffers, OwnBuffer
<1>10. Dropped'
  <2>1. \A d \in Clients : pc'[d] = pc[d]
    BY <1>2, <1>4 DEF Moves, Threads
  <2>2. \A d \in Clients : DropOf(d) => DropOf(d)'
    BY <1>6, <1>7, <2>1 DEF DropOf
  <2>3. \A d \in Clients : LateOpen(d) => LateOpen(d)'
    BY <1>1, <1>6, <1>7, <2>1 DEF LateOpen, Unloading
  <2>4. QED
    BY <1>6, <2>2, <2>3 DEF IInv, Dropped
<1>11. JobsOf' /\ ChannelsOf' /\ RunningStay
  <2>1. JobsOf'
    BY <1>1, <1>2, <1>4, <1>6, JobsMove
  <2>2. QED
    BY <1>6, <2>1 DEF IInv, ChannelsOf, RunningStay
<1>12. Refused'
  BY <1>6, <1>11, RefusedStay
<1>13. QED
  BY <1>2, <1>3, <1>4, <1>5, <1>6, <1>8, <1>9, <1>10, <1>11, <1>12, Composes
-----------------------------------------------------------------------------
(* The invariant, and what follows from it. *)

\* The daemon starts with nothing loaded and nobody connected.
LEMMA InitIInv == Init => IInv
<1> SUFFICES ASSUME Init
             PROVE  IInv
  OBVIOUS
<1>1. TypeOK
  BY Names DEF Init, TypeOK, NoArg, FreeJob, Threads
<1>2. /\ Closer \in Threads /\ pc[Closer] = "serving"
      /\ \A c \in Clients : pc[c] = "gone" /\ c # Closer /\ c \in Threads
      /\ \A t \in Threads : t = Closer \/ t \in Clients
  BY Names DEF Init, Threads
<1>3. \A t \in Threads : pc[t] \in {"serving", "gone"} /\ todo[t] = {} /\ dropping[t] = None
  BY DEF Init
<1>4. Places
  <2>1. \A t \in Threads : PlaceOf(t)
    BY <1>2, <1>3 DEF PlaceOf, ClientPlaces, CloserPlaces, Ending, Unloading
  <2>2. pc \in [Threads -> ClientPlaces \cup CloserPlaces]
    BY DEF Init, ClientPlaces, CloserPlaces
  <2>3. QED
    BY <1>2, <2>1, <2>2 DEF Init, Places, Cleared
<1>5. Locks /\ Locals
  BY <1>3 DEF Init, Locks, Locals, LocksOf, LocalOf, WorkerLocks, Driving, Operating, Unloading,
              Inside
<1>6. \A j \in Jobs : /\ job[j] = FreeJob /\ job[j].st = "free" /\ job[j].client = None
                      /\ job[j].chan = None /\ ~job[j].waited
  BY DEF Init, FreeJob
<1>7. Work /\ JobsOf
  BY <1>6, Names DEF Init, Work, WorkOf, JobsOf, JobOf, Threads
<1>8. ChannelsOf
  BY <1>6 DEF Init, ChannelsOf
<1>9. Contexts /\ Buffers
  BY DEF Init, Contexts, Buffers
<1>10. Dropped
  <2>1. \A c \in Clients : DropOf(c)
    BY <1>2 DEF Init, DropOf, Unloading
  <2>2. \A c \in Clients : LateOpen(c)
    BY <1>2 DEF LateOpen, Shut
  <2>3. QED
    BY <2>1, <2>2 DEF Dropped
<1>11. Refused /\ Bound
  BY DEF Init, Refused, Bound
<1>12. QED
  BY <1>1, <1>4, <1>5, <1>7, <1>8, <1>9, <1>10, <1>11 DEF IInv

\* A step that changes nothing.
LEMMA StutterKeeps == ASSUME IInv, UNCHANGED vars PROVE IInv'
<1>1. /\ UNCHANGED <<threads, cache, aliases, channels, registered, flags>>
      /\ UNCHANGED <<pc, arg, drv, opLock, job, wpc, wjob, late, closing, auth, io, poisoned>>
      /\ UNCHANGED <<stopping, native, buffers>>
  BY DEF vars, threads, people, work, cache, channels, flags
<1>2. Places' /\ Locals' /\ Contexts' /\ Buffers' /\ Dropped'
  BY <1>1, Still
<1>3. TypeOK'
  BY <1>1 DEF IInv, TypeOK, cache, channels, flags, threads
<1>4. RunningStay /\ Closer \in Threads /\ Moves(Closer)
  BY <1>1 DEF RunningStay, Threads, Moves, threads
<1>5. LocksOf(Closer)' /\ LocalOf(Closer)'
  BY <1>1, <1>2, <1>4 DEF Locals, IInv, Locks, LocksOf
<1>6. JobsOf'
  BY <1>1, JobsShrink
<1>7. ChannelsOf'
  BY <1>1 DEF IInv, ChannelsOf
<1>8. Refused'
  BY <1>1, <1>4, RefusedStay
<1>9. QED
  BY <1>1, <1>2, <1>3, <1>4, <1>5, <1>6, <1>7, <1>8, Composes DEF cache, channels

\* A step of an unload or a drop, whoever takes it.
LEMMA ThreadStepKeeps == ASSUME IInv, NEW t \in Threads, ThreadStep(t) PROVE IInv'
BY UnloadLockKeeps, UnloadOpKeeps, UnloadIoKeeps, UnloadReleaseKeeps, DropNextKeeps, DropEndKeeps
DEF ThreadStep

\* A connection ends.
LEMMA DisconnectKeeps == ASSUME IInv, NEW c \in Clients, Disconnect(c) PROVE IInv'
<1>1. c \in Threads
  BY DEF Threads
<1>2. QED
  BY <1>1, BeginDropKeeps DEF Disconnect

\* Every step of a connection.
LEMMA ClientKeeps ==
    ASSUME IInv, NEW c \in Clients, Request(c) \/ ClientStep(c) \/ Revoke(c)
    PROVE  IInv'
<1>1. c \in Threads
  BY DEF Threads
<1>2. CASE Request(c)
  BY <1>2, AcceptKeeps, BeginLoadKeeps, BeginOpenKeeps, InferKeeps, InferRefusedKeeps,
     BeginUnloadKeeps, DisconnectKeeps DEF Request
<1>3. CASE ClientStep(c)
  BY <1>1, <1>3, HelloKeeps, LoadLockKeeps, LoadNativeKeeps, LoadCommitKeeps, OpenLockKeeps,
     OpenOpKeeps, OpenNativeKeeps, AnswerKeeps, ThreadStepKeeps, DisconnectKeeps
  DEF ClientStep, Leave
<1>4. QED
  BY <1>2, <1>3, RevokeKeeps

\* Every step of close().
LEMMA CloserKeeps == ASSUME IInv, Close \/ CloserStep PROVE IInv'
<1>1. Closer \in Threads
  BY DEF Threads
<1>2. CASE CloseDrop
  <2>1. PICK c \in snapshot : /\ pc[Closer] = "dropEach" /\ snapshot' = snapshot \ {c}
                              /\ BeginDrop(Closer, c)
    BY <1>2 DEF CloseDrop
  <2>2. c \in Clients
    BY DEF IInv, TypeOK
  <2>3. QED
    BY <1>1, <2>1, <2>2, BeginDropKeeps
<1>3. QED
  BY <1>1, <1>2, CloseKeeps, CloseShutKeeps, CloseClearKeeps, CloseReleaseKeeps, ClosedKeeps,
     ThreadStepKeeps DEF CloserStep

\* Every step.
LEMMA NextIInv == IInv /\ [Next]_vars => IInv'
<1> SUFFICES ASSUME IInv, [Next]_vars
             PROVE  IInv'
  OBVIOUS
<1>1. CASE UNCHANGED vars
  BY <1>1, StutterKeeps
<1>2. CASE Next
  <2>1. CASE \E c \in Clients : Request(c) \/ ClientStep(c) \/ Revoke(c)
    BY <2>1, ClientKeeps
  <2>2. CASE \E j \in Jobs : Expire(j)
    BY <2>2, ExpireKeeps
  <2>3. CASE Close \/ CloserStep
    BY <2>3, CloserKeeps
  <2>4. CASE \E w \in Workers : WorkerStep(w)
    BY <2>4, WorkerKeeps
  <2>5. QED
    BY <1>2, <2>1, <2>2, <2>3, <2>4 DEF Next
<1>3. QED
  BY <1>1, <1>2

\* IInv is an invariant of the daemon.
THEOREM Invariant == Spec => []IInv
<1>1. QED
  BY InitIInv, NextIInv, PTL DEF Spec

\* The variables keep their shapes.
THEOREM Typed == Spec => []TypeOK
<1>1. IInv => TypeOK
  BY DEF IInv
<1>2. QED
  BY <1>1, Invariant, PTL

\* A native inference has its context, its channel's buffers and the
\* context's operation lock, whatever unload, disconnect, timeout and close()
\* do.
THEOREM AliveWhileUsed == Spec => []NoUseAfterRelease
<1>1. IInv => NoUseAfterRelease
  BY DEF IInv, Bound, Locks, WorkerLocks, Inside, NoUseAfterRelease
<1>2. QED
  BY <1>1, Invariant, PTL

\* Two requests that may reach the native layer never share a DMA channel.
THEOREM OneJobAChannel == Spec => []ChannelOneJob
<1>1. IInv => ChannelOneJob
  BY DEF IInv, ChannelsOf, ChannelOneJob
<1>2. QED
  BY <1>1, Invariant, PTL

\* A job that lost its authority before the admission check at the native
\* boundary does not infer.
THEOREM AdmissionAlwaysDecides == Spec => []AdmissionDecides
<1>1. IInv => AdmissionDecides
  BY DEF IInv, Refused, AdmissionDecides
<1>2. QED
  BY <1>1, Invariant, PTL

\* The cache, the reference sets and the native contexts agree between the
\* requests, and after close() nothing is left.
THEOREM LeaksNothing == Spec => []NothingLeaks
<1>1. IInv => CacheConsistent
  <2> SUFFICES ASSUME IInv, drv = None, ~fault, ~stopping
               PROVE  /\ \A k \in Cached : native[models[k]] = k /\ owners[models[k]] # {}
                      /\ \A h \in Handles : native[h] # None =>
                            /\ models[native[h]] = h
                            /\ owners[h] = {c \in Clients : native[h] \in aliases[c]}
                            /\ \A c \in owners[h] : pc[c] # "gone"
                      /\ \A x \in Channels : buffers[x] # None =>
                            \E c \in Clients : \E k \in aliases[c] : io[c][k] = x
    BY DEF CacheConsistent
  <2>1. TypeOK /\ Contexts /\ Buffers /\ Dropped /\ Locks
    BY DEF IInv
  <2>2. pc[Closer] = "serving"
    BY DEF IInv, Places
  <2>3. ~Cleared /\ \A g : ~Owed(g)
    BY <2>2 DEF Cleared, Owed
  <2>4. \A t \in Threads : pc[t] # "loadCommit"
    BY <2>1, Names DEF Locks, LocksOf, Driving
  <2>5. \A k \in Cached : native[models[k]] = k /\ owners[models[k]] # {}
    BY <2>1, <2>4 DEF Cached, Contexts
  <2>6. ASSUME NEW h \in Handles, native[h] # None
        PROVE  /\ models[native[h]] = h
               /\ owners[h] = {c \in Clients : native[h] \in aliases[c]}
               /\ \A c \in owners[h] : pc[c] # "gone"
    <3>1. native[h] \in Keys /\ models[native[h]] = h /\ h # None /\ owners[h] \subseteq Clients
      BY <2>1, <2>3, <2>6, Names DEF Contexts, TypeOK
    <3>2. \A c \in owners[h] : native[h] \in aliases[c]
      BY <2>1, <3>1 DEF Contexts
    <3>3. \A c \in Clients : native[h] \in aliases[c] => c \in owners[h]
      BY <2>1, <2>3, <3>1 DEF Contexts
    <3>4. \A c \in owners[h] : pc[c] # "gone"
      BY <2>1, <3>1, <3>2 DEF Dropped, DropOf
    <3>5. QED
      BY <3>1, <3>2, <3>3, <3>4
  <2>7. \A x \in Channels : buffers[x] # None =>
           \E c \in Clients : \E k \in aliases[c] : io[c][k] = x
    BY <2>1, <2>3 DEF Buffers, OwnBuffer
  <2>8. QED
    BY <2>5, <2>6, <2>7
<1>2. IInv => CloseReleasesAll
  <2> SUFFICES ASSUME IInv, pc[Closer] = "closed", \A c \in Clients : pc[c] = "gone", ~fault
               PROVE  /\ \A h \in Handles : native[h] = None
                      /\ \A x \in Channels : buffers[x] = None
    BY DEF CloseReleasesAll
  <2>1. TypeOK /\ Contexts /\ Buffers /\ Dropped
    BY DEF IInv
  <2>2. \A c \in Clients : aliases[c] = {}
    BY <2>1 DEF Dropped, DropOf
  <2>3. \A g : ~Owed(g)
    BY DEF Owed
  <2>4. \A t \in Threads : pc[t] # "loadCommit"
    BY DEF Threads
  <2>5. \A k \in Keys : models[k] = None
    <3> SUFFICES ASSUME NEW k \in Keys, models[k] # None
                 PROVE  FALSE
      OBVIOUS
    <3>1. owners[models[k]] # {} /\ \A c \in owners[models[k]] : k \in aliases[c]
      BY <2>1, <2>4 DEF Contexts
    <3>2. models[k] \in Handles /\ owners[models[k]] \subseteq Clients
      BY <2>1 DEF TypeOK
    <3>3. QED
      BY <2>2, <3>1, <3>2
  <2>6. ASSUME NEW h \in Handles, native[h] # None
        PROVE  FALSE
    <3>1. models[native[h]] = h /\ native[h] \in Keys /\ h # None
      BY <2>1, <2>3, <2>6, Names DEF Contexts, TypeOK
    <3>2. QED
      BY <2>5, <3>1
  <2>7. \A x \in Channels : buffers[x] = None
    BY <2>1, <2>2, <2>3 DEF Buffers, OwnBuffer
  <2>8. QED
    BY <2>6, <2>7
<1>3. IInv => NothingLeaks
  BY <1>1, <1>2 DEF NothingLeaks
<1>4. QED
  BY <1>3, Invariant, PTL

-----------------------------------------------------------------------------
(* Sums. *)

(* The elements a sum counts.                                              *)
Units(f, S) == UNION {{x} \X (1 .. f[x]) : x \in S}

\* A unit is an element and a number up to its share.
LEMMA UnitIs ==
    ASSUME NEW f, NEW S, NEW u
    PROVE  u \in Units(f, S) <=> \E x \in S : \E n \in 1 .. f[x] : u = <<x, n>>
BY DEF Units

\* The units of finitely many natural numbers are finitely many.
LEMMA UnitsFinite ==
    ASSUME NEW S, IsFiniteSet(S), NEW f, \A x \in S : f[x] \in Nat
    PROVE  IsFiniteSet(Units(f, S))
<1> DEFINE parts == {{x} \X (1 .. f[x]) : x \in S}
           part == [x \in S |-> {x} \X (1 .. f[x])]
<1>1. part \in Surjection(S, parts)
  <2>1. part \in [S -> parts]
    OBVIOUS
  <2>2. \A p \in parts : \E x \in S : part[x] = p
    OBVIOUS
  <2>3. QED
    BY <2>1, <2>2 DEF Surjection
<1>2. IsFiniteSet(parts)
  <2> HIDE DEF part, parts
  <2> QED
    BY <1>1, FS_Surjection
<1>3. ASSUME NEW x \in S PROVE IsFiniteSet({x} \X (1 .. f[x]))
  <2>1. f[x] \in Int /\ 1 \in Int
    OBVIOUS
  <2>2. IsFiniteSet(1 .. f[x])
    BY <2>1, FS_Interval
  <2>3. IsFiniteSet({x})
    BY FS_Singleton
  <2>4. QED
    BY <2>2, <2>3, FS_Product
<1>4. \A p \in parts : IsFiniteSet(p)
  BY <1>3
<1>5. IsFiniteSet(UNION parts)
  <2> HIDE DEF parts
  <2> QED
    BY <1>2, <1>4, FS_UNION
<1>6. QED
  BY <1>5 DEF Units

\* So their sum is a natural number.
LEMMA SumType ==
    ASSUME NEW S, IsFiniteSet(S), NEW f, \A x \in S : f[x] \in Nat
    PROVE  Sum(f, S) \in Nat
<1>1. IsFiniteSet(Units(f, S)) /\ Sum(f, S) = Cardinality(Units(f, S))
  BY UnitsFinite DEF Sum, Units
<1>2. QED
  BY <1>1, FS_CardinalityType

\* A sum is at most another if each of its elements has one of its own there
\* that is no smaller.
LEMMA SumInjects ==
    ASSUME NEW S, NEW T, IsFiniteSet(T), NEW f, NEW g, NEW m,
           \A y \in T : g[y] \in Nat,
           \A x \in S : m[x] \in T /\ f[x] \in Nat /\ f[x] <= g[m[x]],
           \A x, y \in S : m[x] = m[y] => x = y
    PROVE  Sum(f, S) <= Sum(g, T)
<1> DEFINE A == Units(f, S)
           B == Units(g, T)
           at == [u \in A |-> <<m[u[1]], u[2]>>]
<1>1. ASSUME NEW u \in A
      PROVE  /\ u[1] \in S /\ u[2] \in 1 .. f[u[1]] /\ u = <<u[1], u[2]>>
             /\ <<m[u[1]], u[2]>> \in B
  <2>1. PICK x \in S : \E n \in 1 .. f[x] : u = <<x, n>>
    BY UnitIs
  <2>2. PICK n \in 1 .. f[x] : u = <<x, n>>
    BY <2>1
  <2>3. m[x] \in T /\ n \in 1 .. g[m[x]]
    BY <2>2
  <2>4. <<m[x], n>> \in Units(g, T)
    BY <2>3, UnitIs
  <2>5. QED
    BY <2>2, <2>4
<1>2. at \in [A -> B]
  BY <1>1
<1>3. ASSUME NEW u \in A, NEW v \in A, at[u] = at[v] PROVE u = v
  <2>1. m[u[1]] = m[v[1]] /\ u[2] = v[2]
    BY <1>3
  <2>2. u[1] \in S /\ v[1] \in S /\ u = <<u[1], u[2]>> /\ v = <<v[1], v[2]>>
    BY <1>1
  <2>3. QED
    BY <2>1, <2>2
<1>4. at \in Injection(A, B)
  BY <1>2, <1>3 DEF Injection, IsInjective
<1>5. IsFiniteSet(B)
  BY UnitsFinite
<1>6. Cardinality(A) <= Cardinality(B)
  <2> HIDE DEF A, B, at
  <2> QED
    BY <1>4, <1>5, FS_Injection
<1>7. QED
  BY <1>6 DEF Sum, Units

\* A part of the elements, or a smaller share of each, has no larger sum.
LEMMA SumGrows ==
    ASSUME NEW S, NEW T, IsFiniteSet(T), S \subseteq T, NEW f, NEW g,
           \A x \in T : g[x] \in Nat,
           \A x \in S : f[x] \in Nat /\ f[x] <= g[x]
    PROVE  Sum(f, S) <= Sum(g, T)
<1> DEFINE m == [x \in S |-> x]
<1>1. /\ \A x \in S : m[x] \in T /\ f[x] \in Nat /\ f[x] <= g[m[x]]
      /\ \A x, y \in S : m[x] = m[y] => x = y
  OBVIOUS
<1>2. QED
  <2> HIDE DEF m
  <2> QED
    BY <1>1, SumInjects

\* Equal shares have equal sums.
LEMMA SumSame ==
    ASSUME NEW S, NEW f, NEW g, \A x \in S : f[x] = g[x]
    PROVE  Sum(f, S) = Sum(g, S)
<1>1. {{x} \X (1 .. f[x]) : x \in S} = {{x} \X (1 .. g[x]) : x \in S}
  OBVIOUS
<1>2. QED
  BY <1>1 DEF Sum

\* The numbers up to n are n.
LEMMA UpTo == ASSUME NEW n \in Nat PROVE IsFiniteSet(1 .. n) /\ Cardinality(1 .. n) = n
<1>1. n \in Int /\ 1 \in Int
  OBVIOUS
<1>2. IsFiniteSet(1 .. n) /\ Cardinality(1 .. n) = IF 1 > n THEN 0 ELSE n - 1 + 1
  BY <1>1, FS_Interval
<1>3. (IF 1 > n THEN 0 ELSE n - 1 + 1) = n
  OBVIOUS
<1>4. QED
  BY <1>2, <1>3

\* One more element adds its share, or nothing if it was there.
LEMMA SumOneMore ==
    ASSUME NEW S, IsFiniteSet(S), NEW f, NEW y, \A x \in S : f[x] \in Nat, f[y] \in Nat
    PROVE  Sum(f, S \cup {y}) <= Sum(f, S) + f[y]
<1> DEFINE A == Units(f, S)
           B == {y} \X (1 .. f[y])
<1>1. f[y] \in Nat
  OBVIOUS
<1>2. IsFiniteSet(1 .. f[y]) /\ Cardinality(1 .. f[y]) = f[y]
  BY <1>1, UpTo
<1>3. IsFiniteSet({y}) /\ Cardinality({y}) = 1
  BY FS_Singleton
<1>4. IsFiniteSet(B) /\ Cardinality(B) = 1 * f[y]
  BY <1>2, <1>3, FS_Product
<1>5. IsFiniteSet(A) /\ IsFiniteSet(A \cap B)
  BY UnitsFinite, FS_Intersection
<1>6. Units(f, S \cup {y}) = A \cup B
  BY DEF Units
<1>7. Cardinality(A \cup B) = Cardinality(A) + Cardinality(B) - Cardinality(A \cap B)
  <2> HIDE DEF A, B
  <2> QED
    BY <1>4, <1>5, FS_Union
<1>8. Cardinality(A) \in Nat /\ Cardinality(A \cap B) \in Nat
  <2> HIDE DEF A, B
  <2> QED
    BY <1>5, FS_CardinalityType
<1>9. Sum(f, S) = Cardinality(A) /\ Sum(f, S \cup {y}) = Cardinality(A \cup B)
  BY <1>6 DEF Sum, Units
<1>10. QED
  <2> HIDE DEF A, B
  <2> QED
    BY <1>4, <1>7, <1>8, <1>9

\* Nothing has the sum zero.
LEMMA SumOfNothing == ASSUME NEW f PROVE Sum(f, {}) = 0
<1>1. UNION {{x} \X (1 .. f[x]) : x \in {}} = {}
  OBVIOUS
<1>2. QED
  BY <1>1, FS_EmptySet DEF Sum

-----------------------------------------------------------------------------
(* The budgets. *)

(* What native contexts and channels occupy.                               *)
Loaded == {h \in Handles : native[h] # None}
BoundChannels == {x \in Channels : buffers[x] # None /\ native[buffers[x]] # None}
Used == Sum([h \in Loaded |-> Mem[native[h]]], Loaded)
        + Sum([x \in BoundChannels |-> IoMem[native[buffers[x]]]], BoundChannels)

(* The keys an application generation will have when c has loaded its own. *)
KeysWith(c) == (InstanceKeys(c) \cap Cached) \cup {arg[c].key}

(* Whoever is registered when close() shuts the connections down is in its *)
(* snapshot or came too late to load anything.                             *)
Arrived ==
    /\ \A c \in Clients : pc[c] = "hello" => aliases[c] = {} /\ \A k \in Keys : io[c][k] = None
    /\ Shut => \A c \in registered :
          \/ c \in snapshot \/ c = dropping[Closer]
          \/ aliases[c] = {} /\ pc[c] \notin {"loadLock"} \cup Loading

(* A load under way has its place in the limit of its generation.          *)
InstancesInside ==
    /\ \A c \in Clients : InstanceReserved(c) <= Limit
    /\ \A c \in Clients : pc[c] \in Loading
          => Sum(Mem, KeysWith(c)) + SharedBytes(Peers(c)) <= Limit

(* close() knows every channel of the client it drops, and nobody else has *)
(* any, or opens one, that is not registered.                              *)
Listed(c, k) ==
    c = dropping[Closer] =>
        \/ pc[Closer] # "dropEnd" /\ k \in todo[Closer]
        \/ pc[Closer] \in {"unloadLock"} \cup Unloading /\ k = arg[Closer].key
ChannelsKnown ==
    /\ \A c \in Clients, k \in Keys :
          io[c][k] # None => (c \in registered \/ Cleared) /\ Listed(c, k)
    /\ \A c \in Clients : pc[c] \in Opening => c \in registered \/ aliases[c] = {}
    /\ dropping[Closer] \notin snapshot
    /\ pc[Closer] = "closed" => \A x \in Channels : buffers[x] = None

(* A load under way has its place in the budget.                           *)
LoadsInside ==
    \A c \in Clients : pc[c] = "loadNative" => Used + Mem[arg[c].key] <= Budget

BudgetInv == /\ ~fault /\ ~sealed /\ ChannelsKnown /\ LoadsInside
             /\ IsFiniteSet(Loaded) /\ IsFiniteSet(BoundChannels) /\ Used <= Budget

\* The keys of a generation are in the cache: once close() has cleared it,
\* whoever is registered came too late to have any.
LEMMA KeysCached ==
    ASSUME IInv, Arrived, NEW c \in Clients
    PROVE  InstanceKeys(c) \subseteq Cached
<1> SUFFICES ASSUME NEW d \in Peers(c), NEW k \in aliases[d]
             PROVE  k \in Cached
  BY DEF InstanceKeys
<1>1. TypeOK /\ Places /\ Contexts /\ PlaceOf(Closer)
  BY CloserIs
<1>2. d \in registered /\ d \in Clients /\ k \in Keys /\ d # None
  <2>1. d \in registered /\ d \in Clients
    BY <1>1 DEF Peers, TypeOK
  <2>2. aliases[d] \subseteq Keys
    BY <1>1, <2>1 DEF TypeOK
  <2>3. QED
    BY <2>1, <2>2, Names DEF Threads
<1>3. ~Cleared
  <2> SUFFICES ASSUME Cleared
               PROVE  FALSE
    OBVIOUS
  <2>1. Shut /\ snapshot = {} /\ dropping[Closer] = None
    BY <1>1 DEF Cleared, Shut, Places, PlaceOf, Ending, Unloading
  <2>2. aliases[d] = {}
    BY <1>2, <2>1 DEF Arrived
  <2>3. QED
    BY <2>2
<1>4. QED
  BY <1>1, <1>2, <1>3 DEF Contexts, Cached

\* The reservations are sums of finitely many natural numbers.
LEMMA ReservedType ==
    ASSUME TypeOK, NEW c \in Clients
    PROVE  /\ IsFiniteSet(InstanceKeys(c)) /\ IsFiniteSet(Cached) /\ IsFiniteSet(Peers(c) \X Keys)
           /\ InstanceKeys(c) \subseteq Keys /\ Cached \subseteq Keys
           /\ Peers(c) \subseteq Clients
           /\ Mem \in [Keys -> Nat] /\ IoMem \in [Keys -> Nat] /\ Limit \in Nat /\ Budget \in Nat
<1>1. InstanceKeys(c) \subseteq Keys /\ Cached \subseteq Keys /\ Peers(c) \subseteq Clients
  BY DEF TypeOK, InstanceKeys, Cached, Peers
<1>2. IsFiniteSet(InstanceKeys(c)) /\ IsFiniteSet(Cached) /\ IsFiniteSet(Peers(c))
  BY <1>1, Sizes, FS_Subset
<1>3. QED
  BY <1>1, <1>2, Sizes, FS_Product

\* Any memory of models and of the channels of some connections is a number.
LEMMA MemType ==
    ASSUME NEW A, A \subseteq Keys
    PROVE  Sum(Mem, A) \in Nat
<1>1. IsFiniteSet(A)
  BY Sizes, FS_Subset
<1>2. QED
  BY <1>1, Sizes, SumType

\* The memory of the channels of some connections is a number.
LEMMA SharedType ==
    ASSUME NEW C, C \subseteq Clients
    PROVE  SharedBytes(C) \in Nat
<1> DEFINE f == [p \in C \X Keys |-> IoMem[p[2]]]
           S == {p \in C \X Keys : io[p[1]][p[2]] # None}
<1>1. IsFiniteSet(C \X Keys)
  BY Sizes, FS_Subset, FS_Product
<1>2. IsFiniteSet(S)
  BY <1>1, FS_Subset
<1>3. \A p \in S : f[p] \in Nat
  BY Sizes
<1>4. Sum(f, S) \in Nat
  <2> HIDE DEF f, S
  <2> QED
    BY <1>2, <1>3, SumType
<1>5. QED
  BY <1>4 DEF SharedBytes

\* Fewer connections with fewer channels occupy no more.
LEMMA SharedShrinks ==
    ASSUME NEW C, C \subseteq Clients, NEW D, D \subseteq Clients,
           \A c \in D, k \in Keys : io'[c][k] # None => c \in C /\ io[c][k] # None
    PROVE  Sum([p \in D \X Keys |-> IoMem[p[2]]], {p \in D \X Keys : io'[p[1]][p[2]] # None})
              <= SharedBytes(C)
<1> DEFINE f == [p \in D \X Keys |-> IoMem[p[2]]]
           S == {p \in D \X Keys : io'[p[1]][p[2]] # None}
           g == [p \in C \X Keys |-> IoMem[p[2]]]
           T == {p \in C \X Keys : io[p[1]][p[2]] # None}
<1>1. IsFiniteSet(C \X Keys)
  BY Sizes, FS_Subset, FS_Product
<1>2. IsFiniteSet(T)
  BY <1>1, FS_Subset
<1>3. S \subseteq T
  OBVIOUS
<1>4. /\ \A p \in T : g[p] \in Nat
      /\ \A p \in S : f[p] \in Nat /\ f[p] <= g[p]
  BY <1>3, Sizes
<1>5. Sum(f, S) <= Sum(g, T)
  <2> HIDE DEF f, S, g, T
  <2> QED
    BY <1>2, <1>3, <1>4, SumGrows
<1>6. QED
  BY <1>5 DEF SharedBytes

(* A step that takes no memory: fewer models cached, fewer aliases, fewer  *)
(* channels, and a connection that registers has none.                     *)
Frees ==
    /\ \A k \in Keys : models'[k] # None => models[k] # None
    /\ \A c \in registered' : \/ c \in registered
                              \/ aliases'[c] = {} /\ \A k \in Keys : io'[c][k] = None
    /\ \A c \in Clients : /\ aliases'[c] \subseteq aliases[c]
                          /\ \A k \in Keys : io'[c][k] # None => io[c][k] # None

\* Such a step shrinks what each generation has reserved.
LEMMA FreesInstance ==
    ASSUME TypeOK, TypeOK', Frees, NEW c \in Clients
    PROVE  /\ InstanceKeys(c)' \subseteq InstanceKeys(c) /\ Cached' \subseteq Cached
           /\ SharedBytes(Peers(c))' <= SharedBytes(Peers(c))
<1>1. Peers(c) \subseteq Clients /\ Peers(c)' \subseteq Clients
  BY DEF Peers, TypeOK
<1>2. \A d \in Peers(c)' : \/ d \in Peers(c)
                           \/ aliases'[d] = {} /\ \A k \in Keys : io'[d][k] = None
  BY DEF Peers, Frees
<1>3. InstanceKeys(c)' \subseteq InstanceKeys(c)
  <2> SUFFICES ASSUME NEW d \in Peers(c)', NEW k \in aliases'[d]
               PROVE  d \in Peers(c) /\ k \in aliases[d]
    BY DEF InstanceKeys
  <2>1. QED
    BY <1>1, <1>2 DEF Frees
<1>4. Cached' \subseteq Cached
  BY DEF Cached, Frees
<1>5. \A d \in Peers(c)', k \in Keys : io'[d][k] # None => d \in Peers(c) /\ io[d][k] # None
  BY <1>1, <1>2 DEF Frees
<1>6. SharedBytes(Peers(c))' <= SharedBytes(Peers(c))
  <2>1. SharedBytes(Peers(c))' =
            Sum([p \in Peers(c)' \X Keys |-> IoMem[p[2]]],
                {p \in Peers(c)' \X Keys : io'[p[1]][p[2]] # None})
    BY DEF SharedBytes
  <2>2. QED
    BY <1>1, <1>5, <2>1, SharedShrinks
<1>7. QED
  BY <1>3, <1>4, <1>6

\* So the limits still hold after it, if no load begins.
LEMMA FreesKeeps ==
    ASSUME TypeOK, TypeOK', Frees, InstancesInside,
           \A c \in Clients : pc'[c] \in Loading
              => /\ arg'[c].key \in Keys
                 /\ \/ pc[c] \in Loading /\ arg'[c].key = arg[c].key
                    \/ /\ UNCHANGED <<models, aliases, io, registered>>
                       /\ Sum(Mem, (InstanceKeys(c) \cap Cached) \cup {arg'[c].key})
                             + SharedBytes(Peers(c)) <= Limit
    PROVE  InstancesInside'
<1>1. ASSUME NEW c \in Clients
      PROVE  /\ InstanceReserved(c)' <= Limit
             /\ pc'[c] \in Loading => (Sum(Mem, KeysWith(c)) + SharedBytes(Peers(c)))' <= Limit
  <2> DEFINE A == InstanceKeys(c) \cap Cached
             B == InstanceKeys(c)' \cap Cached'
             k == arg'[c].key
             s == SharedBytes(Peers(c))
             r == SharedBytes(Peers(c))'
  <2>1. B \subseteq A /\ r <= s
    BY FreesInstance
  <2>2. /\ A \subseteq Keys /\ Mem \in [Keys -> Nat] /\ Limit \in Nat /\ IsFiniteSet(Keys)
        /\ Peers(c) \subseteq Clients /\ Peers(c)' \subseteq Clients
    BY ReservedType, Sizes DEF Peers, TypeOK
  <2>3. s \in Nat
    BY <2>2, SharedType
  <2>4. r \in Nat
    <3>1. r = Sum([p \in Peers(c)' \X Keys |-> IoMem[p[2]]],
                  {p \in Peers(c)' \X Keys : io'[p[1]][p[2]] # None})
      BY DEF SharedBytes
    <3>2. IsFiniteSet(Peers(c)' \X Keys)
      BY <2>2, Sizes, FS_Subset, FS_Product
    <3>3. IsFiniteSet({p \in Peers(c)' \X Keys : io'[p[1]][p[2]] # None})
      BY <3>2, FS_Subset
    <3>4. \A p \in {p \in Peers(c)' \X Keys : io'[p[1]][p[2]] # None} :
              [q \in Peers(c)' \X Keys |-> IoMem[q[2]]][p] \in Nat
      BY Sizes
    <3>5. QED
      BY <3>1, <3>3, <3>4, SumType
  <2>5. ASSUME NEW X, NEW Y, Y \subseteq X, X \subseteq Keys
        PROVE  Sum(Mem, Y) <= Sum(Mem, X) /\ Sum(Mem, X) \in Nat /\ Sum(Mem, Y) \in Nat
    <3>1. IsFiniteSet(X) /\ \A x \in X : Mem[x] \in Nat
      BY <2>2, <2>5, FS_Subset
    <3>2. QED
      BY <2>2, <2>5, <3>1, SumGrows, MemType
  <2>6. InstanceReserved(c) = Sum(Mem, A) + s /\ InstanceReserved(c)' = Sum(Mem, B) + r
    BY DEF InstanceReserved
  <2>7. InstanceReserved(c) <= Limit
    BY DEF InstancesInside
  <2>8. InstanceReserved(c)' <= Limit
    <3>1. Sum(Mem, B) <= Sum(Mem, A) /\ Sum(Mem, A) \in Nat /\ Sum(Mem, B) \in Nat
      BY <2>1, <2>2, <2>5
    <3> HIDE DEF A, B, s, r
    <3>2. QED
      BY <2>1, <2>2, <2>3, <2>4, <2>6, <2>7, <3>1
  <2>9. ASSUME pc'[c] \in Loading
        PROVE  (Sum(Mem, KeysWith(c)) + SharedBytes(Peers(c)))' <= Limit
    <3>1. (Sum(Mem, KeysWith(c)) + SharedBytes(Peers(c)))' = Sum(Mem, B \cup {k}) + r
      BY DEF KeysWith
    <3>2. k \in Keys /\ Sum(Mem, A \cup {k}) + s <= Limit
      BY <2>9 DEF InstancesInside, KeysWith
    <3>3. /\ Sum(Mem, B \cup {k}) <= Sum(Mem, A \cup {k})
          /\ Sum(Mem, A \cup {k}) \in Nat /\ Sum(Mem, B \cup {k}) \in Nat
      <4>1. B \cup {k} \subseteq A \cup {k} /\ A \cup {k} \subseteq Keys
        BY <2>1, <2>2, <3>2
      <4> HIDE DEF A, B, k
      <4>2. QED
        BY <4>1, <2>5
    <3> HIDE DEF A, B, k, s, r
    <3>4. QED
      BY <2>1, <2>2, <2>3, <2>4, <3>1, <3>2, <3>3
  <2>10. QED
    BY <2>8, <2>9
<1>2. QED
  BY <1>1 DEF InstancesInside

(* The limits of the generations, with what makes them inductive.          *)
InstInv == Arrived /\ InstancesInside

(* No connection begins to load or is accepted, nor does close() shut the  *)
(* connections down.                                                       *)
Lulled ==
    /\ Shut' => Shut
    /\ \A c \in Clients :
          /\ pc'[c] = "hello" => pc[c] = "hello"
          /\ pc'[c] \in {"loadLock"} \cup Loading
                => pc[c] = pc'[c] /\ arg'[c].key = arg[c].key

\* A thread that goes to another place than these.
LEMMA MovesLulled ==
    ASSUME TypeOK, Places, NEW t \in Threads, NEW l, pc' = [pc EXCEPT ![t] = l],
           l \notin {"hello", "loadLock"} \cup Loading,
           \A u \in Threads : u # t => arg'[u] = arg[u],
           t = Closer => Shut \/ l \in {"serving", "closing"}
    PROVE  Lulled
<1>1. pc'[t] = l /\ \A u \in Threads : u # t => pc'[u] = pc[u]
  BY DEF Places
<1>2. Closer \in Threads /\ Clients \subseteq Threads
  BY DEF Threads
<1>3. QED
  BY <1>1, <1>2 DEF Lulled, Shut

\* Nobody moves.
LEMMA StaysLulled == ASSUME UNCHANGED <<pc, arg>> PROVE Lulled
BY DEF Lulled, Shut

\* Steps that take no memory keep the limits.
LEMMA InstFrees ==
    ASSUME IInv, InstInv, TypeOK', Frees, Lulled, registered' \subseteq registered,
           snapshot' = snapshot, dropping'[Closer] = dropping[Closer]
    PROVE  InstInv'
<1>1. TypeOK /\ Places /\ Locals
  BY DEF IInv
<1>2. ASSUME NEW c \in Clients, pc'[c] = "hello"
      PROVE  aliases'[c] = {} /\ \A k \in Keys : io'[c][k] = None
  <2>1. aliases[c] = {} /\ \A k \in Keys : io[c][k] = None
    BY <1>2 DEF Lulled, InstInv, Arrived
  <2>2. QED
    BY <2>1 DEF Frees
<1>3. ASSUME Shut', NEW c \in registered'
      PROVE  \/ c \in snapshot' \/ c = dropping'[Closer]
             \/ aliases'[c] = {} /\ pc'[c] \notin {"loadLock"} \cup Loading
  <2>1. c \in registered /\ c \in Clients /\ Shut
    BY <1>1, <1>3 DEF TypeOK, Lulled
  <2>2. \/ c \in snapshot \/ c = dropping[Closer]
        \/ aliases[c] = {} /\ pc[c] \notin {"loadLock"} \cup Loading
    BY <2>1 DEF InstInv, Arrived
  <2>3. aliases[c] = {} => aliases'[c] = {}
    BY <2>1 DEF Frees
  <2>4. pc[c] \notin {"loadLock"} \cup Loading => pc'[c] \notin {"loadLock"} \cup Loading
    BY <2>1 DEF Lulled
  <2>5. QED
    BY <2>2, <2>3, <2>4
<1>4. Arrived'
  BY <1>2, <1>3 DEF Arrived
<1>5. \A c \in Clients : pc'[c] \in Loading
         => arg'[c].key \in Keys /\ pc[c] \in Loading /\ arg'[c].key = arg[c].key
  <2> SUFFICES ASSUME NEW c \in Clients, pc'[c] \in Loading
               PROVE  arg'[c].key \in Keys /\ pc[c] \in Loading /\ arg'[c].key = arg[c].key
    OBVIOUS
  <2>1. pc[c] \in Loading /\ arg'[c].key = arg[c].key /\ c \in Threads
    BY DEF Lulled, Threads
  <2>2. LocalOf(c)
    BY <1>1, <2>1 DEF Locals
  <2>3. arg[c].key \in Keys
    BY <2>1, <2>2 DEF LocalOf, Loading
  <2>4. QED
    BY <2>1, <2>3
<1>6. InstancesInside'
  BY <1>1, <1>5, FreesKeeps DEF InstInv
<1>7. QED
  BY <1>4, <1>6 DEF InstInv

(* The variables the limits are about.                                     *)
held == <<models, aliases, io, registered>>

\* Nothing is taken where nothing changes.
LEMMA HeldFrees == ASSUME UNCHANGED held PROVE Frees
BY DEF held, Frees

\* Most steps do not touch these at all.
LEMMA InstHeld ==
    ASSUME IInv, InstInv, TypeOK', UNCHANGED held, Lulled, UNCHANGED <<snapshot, dropping>>
    PROVE  InstInv'
BY HeldFrees, InstFrees DEF held

\* Requests of a connection that load nothing.
LEMMA InstRequest ==
    ASSUME IInv, InstInv, TypeOK', NEW c \in Clients,
           \/ BeginOpen(c) \/ OpenLock(c) \/ OpenOp(c) \/ Infer(c) \/ InferRefused(c)
           \/ Answer(c) \/ BeginUnload(c)
    PROVE  InstInv'
<1>1. TypeOK /\ Places /\ c \in Threads /\ c # Closer
  BY Names DEF IInv, Threads
<1>2. AtRest \notin {"hello", "loadLock"} \cup Loading
  BY DEF AtRest, Loading
<1>3. UNCHANGED held /\ UNCHANGED <<snapshot, dropping>>
  BY DEF BeginOpen, OpenLock, OpenOp, Infer, InferRefused, Answer, BeginUnload,
         held, cache, people, channels
<1>4. \A u \in Threads : u # c => arg'[u] = arg[u]
  BY <1>1 DEF BeginOpen, OpenLock, OpenOp, Infer, InferRefused, Answer, BeginUnload, TypeOK
<1>5. \E l : l \notin {"hello", "loadLock"} \cup Loading /\ pc' = [pc EXCEPT ![c] = l]
  BY <1>2 DEF BeginOpen, OpenLock, OpenOp, Infer, InferRefused, Answer, BeginUnload, Goto, Loading
<1>6. Lulled
  BY <1>1, <1>4, <1>5, MovesLulled
<1>7. QED
  BY <1>3, <1>6, InstHeld

\* Workers, deadlines, revocation and the first step of close().
LEMMA InstOthers ==
    ASSUME IInv, InstInv, TypeOK',
           \/ \E w \in Workers : WorkerStep(w)
           \/ \E j \in Jobs : Expire(j)
           \/ \E c \in Clients : Revoke(c)
           \/ Close \/ CloseRelease \/ Closed
    PROVE  InstInv'
<1>1. TypeOK /\ Places /\ Closer \in Threads
  BY DEF IInv, Threads
<1>2. CASE \/ \E w \in Workers : WorkerStep(w)
           \/ \E j \in Jobs : Expire(j)
           \/ \E c \in Clients : Revoke(c)
  <2>1. UNCHANGED held /\ UNCHANGED <<snapshot, dropping>> /\ UNCHANGED <<pc, arg>>
    BY <1>2 DEF WorkerStep, Pick, Discard, LockOp, OuterCheck, EnterGate, InnerAuthorize,
                InnerCheck, Refuse, Return, Finish, Expire, Revoke, held, cache, channels,
                people, threads
  <2>2. QED
    BY <2>1, StaysLulled, InstHeld
<1>3. CASE Close \/ Closed
  <2>1. UNCHANGED held /\ UNCHANGED <<snapshot, dropping, arg>>
    BY <1>3 DEF Close, Closed, held, cache, channels, people
  <2>2. \/ pc' = [pc EXCEPT ![Closer] = "closing"]
        \/ pc' = [pc EXCEPT ![Closer] = "closed"] /\ Shut
    BY <1>3 DEF Close, Closed, Goto, Shut
  <2>3. Lulled
    BY <1>1, <2>1, <2>2, MovesLulled DEF Loading
  <2>4. QED
    BY <2>1, <2>3, InstHeld
<1>4. CASE CloseRelease
  <2>1. UNCHANGED held /\ UNCHANGED <<snapshot, dropping>> /\ UNCHANGED <<pc, arg>>
    BY <1>4 DEF CloseRelease, held, people
  <2>2. QED
    BY <2>1, StaysLulled, InstHeld
<1>5. QED
  BY <1>2, <1>3, <1>4

\* The steps of a drop or an unload only give back.
LEMMA InstUnload ==
    ASSUME IInv, InstInv, TypeOK', NEW t \in Threads,
           UnloadLock(t) \/ UnloadOp(t) \/ UnloadIo(t) \/ UnloadRelease(t) \/ DropNext(t)
    PROVE  InstInv'
<1> DEFINE c == Target(t)
           k == arg[t].key
<1>1. pc[t] \in Ending
  BY DEF UnloadLock, UnloadOp, UnloadIo, UnloadRelease, DropNext, Ending, Unloading
<1>2. TypeOK /\ Places /\ c \in Clients /\ (t = Closer => Shut)
  BY <1>1, EndingIs
<1>3. UNCHANGED <<registered, snapshot, dropping>>
  BY DEF UnloadLock, UnloadOp, UnloadIo, UnloadRelease, DropNext, people
<1>4. \A u \in Threads : u # t => arg'[u] = arg[u]
  BY <1>2 DEF UnloadLock, UnloadOp, UnloadIo, UnloadRelease, DropNext, UnloadReturns, TypeOK
<1>5. \E l : l \notin {"hello", "loadLock"} \cup Loading /\ pc' = [pc EXCEPT ![t] = l]
  <2>1. AtRest \notin {"hello", "loadLock"} \cup Loading
    BY DEF AtRest, Loading
  <2>2. AfterUnload(t) \notin {"hello", "loadLock"} \cup Loading
    BY <2>1 DEF AfterUnload, Loading
  <2>3. QED
    BY <2>1, <2>2
       DEF UnloadLock, UnloadOp, UnloadIo, UnloadRelease, DropNext, UnloadReturns, Goto, Loading
<1>6. Lulled
  BY <1>2, <1>4, <1>5, MovesLulled
<1>7. \A d \in Clients : aliases'[d] \subseteq aliases[d]
  <2>1. aliases' = aliases \/ aliases' = [aliases EXCEPT ![c] = aliases[c] \ {k}]
    BY DEF UnloadLock, UnloadOp, UnloadIo, UnloadRelease, DropNext
  <2>2. aliases \in [Clients -> SUBSET Keys]
    BY <1>2 DEF TypeOK
  <2> HIDE DEF c, k
  <2>3. QED
    BY <1>2, <2>1, <2>2
<1>8. \A d \in Clients, l \in Keys : io'[d][l] # None => io[d][l] # None
  <2>1. io' = io \/ io' = [io EXCEPT ![c][k] = None]
    BY DEF UnloadLock, UnloadOp, UnloadIo, UnloadRelease, DropNext, channels
  <2>2. io \in [Clients -> [Keys -> Channels \cup {None}]]
    BY <1>2 DEF TypeOK
  <2> HIDE DEF c, k
  <2>3. QED
    BY <1>2, <2>1, <2>2
<1>9. \A l \in Keys : models'[l] # None => models[l] # None
  <2>1. \/ models' = models
        \/ models' = [models EXCEPT ![k] = IF models[k] = arg[t].handle THEN None ELSE models[k]]
    BY DEF UnloadLock, UnloadOp, UnloadIo, UnloadRelease, DropNext, cache
  <2>2. models \in [Keys -> Handles \cup {None}]
    BY <1>2 DEF TypeOK
  <2> HIDE DEF c, k
  <2>3. QED
    BY <1>2, <2>1, <2>2
<1>10. Frees
  BY <1>3, <1>7, <1>8, <1>9 DEF Frees
<1>11. QED
  BY <1>3, <1>6, <1>10, InstFrees

\* A connection that ends is forgotten, and one that close() has dropped is
\* nobody's any more.
LEMMA InstDropEnd == ASSUME IInv, InstInv, TypeOK', NEW t \in Threads, DropEnd(t) PROVE InstInv'
<1>1. /\ pc[t] = "dropEnd" /\ registered' = registered \ {dropping[t]}
      /\ dropping' = [dropping EXCEPT ![t] = None]
      /\ pc' = [pc EXCEPT ![t] = IF t = Closer THEN "dropEach" ELSE "gone"]
      /\ UNCHANGED <<models, aliases, io, arg, snapshot>>
  BY DEF DropEnd, Goto, cache, channels
<1>2. TypeOK /\ Places /\ (t = Closer => Shut) /\ Closer \in Threads
  BY <1>1, EndingIs DEF Ending
<1>3. Frees
  BY <1>1 DEF Frees
<1>4. Lulled
  BY <1>1, <1>2, MovesLulled DEF Loading
<1>5. CASE t # Closer
  <2>1. dropping'[Closer] = dropping[Closer]
    BY <1>1, <1>2, <1>5 DEF TypeOK
  <2>2. QED
    BY <1>1, <1>3, <1>4, <2>1, InstFrees
<1>6. CASE t = Closer
  <2>1. Arrived'
    <3>1. \A c \in Clients : pc'[c] = "hello" => pc[c] = "hello"
      BY <1>4 DEF Lulled
    <3>2. ASSUME NEW c \in registered'
          PROVE  c \in snapshot \/ (aliases[c] = {} /\ pc'[c] \notin {"loadLock"} \cup Loading)
      <4>1. c \in registered /\ c # dropping[Closer] /\ Shut /\ c \in Clients
        BY <1>1, <1>2, <1>6, <3>2 DEF TypeOK
      <4>2. c \in snapshot \/ (aliases[c] = {} /\ pc[c] \notin {"loadLock"} \cup Loading)
        BY <4>1 DEF InstInv, Arrived
      <4>3. QED
        BY <1>4, <4>1, <4>2 DEF Lulled
    <3>3. QED
      BY <1>1, <3>1, <3>2 DEF Arrived, InstInv
  <2>2. InstancesInside'
    <3>1. \A c \in Clients : pc'[c] \in Loading
             => arg'[c].key \in Keys /\ pc[c] \in Loading /\ arg'[c].key = arg[c].key
      <4> SUFFICES ASSUME NEW c \in Clients, pc'[c] \in Loading
                   PROVE  arg'[c].key \in Keys /\ pc[c] \in Loading /\ arg'[c].key = arg[c].key
        OBVIOUS
      <4>1. pc[c] \in Loading /\ arg'[c].key = arg[c].key /\ c \in Threads
        BY <1>4 DEF Lulled, Threads
      <4>2. LocalOf(c)
        BY <4>1 DEF IInv, Locals
      <4>3. QED
        BY <4>1, <4>2 DEF LocalOf, Loading
    <3>2. QED
      BY <1>2, <1>3, <3>1, FreesKeeps DEF InstInv
  <2>3. QED
    BY <2>1, <2>2 DEF InstInv
<1>7. QED
  BY <1>5, <1>6

\* A connection begins to end.
LEMMA InstDisconnect == ASSUME IInv, InstInv, TypeOK', NEW c \in Clients, Disconnect(c) PROVE InstInv'
<1>1. TypeOK /\ Places /\ c \in Threads /\ c # Closer /\ Closer \in Threads
  BY Names DEF IInv, Threads
<1>2. /\ UNCHANGED held /\ UNCHANGED <<snapshot, arg>>
      /\ dropping' = [dropping EXCEPT ![c] = c] /\ pc' = [pc EXCEPT ![c] = "dropNext"]
  BY DEF Disconnect, BeginDrop, Goto, held, cache, channels
<1>3. Lulled
  BY <1>1, <1>2, MovesLulled DEF Loading
<1>4. dropping'[Closer] = dropping[Closer]
  BY <1>1, <1>2 DEF TypeOK
<1>5. QED
  BY <1>2, <1>3, <1>4, HeldFrees, InstFrees DEF held

\* close() clears the cache.
LEMMA InstCloseClear == ASSUME IInv, InstInv, TypeOK', CloseClear PROVE InstInv'
<1>1. TypeOK /\ Places /\ Closer \in Threads /\ pc[Closer] = "dropEach"
  BY DEF IInv, Threads, CloseClear
<1>2. /\ models' = [k \in Keys |-> None] /\ pc' = [pc EXCEPT ![Closer] = "closeRelease"]
      /\ UNCHANGED <<aliases, io, registered, snapshot, dropping, arg>>
  BY DEF CloseClear, Goto, channels, people
<1>3. Lulled
  BY <1>1, <1>2, MovesLulled DEF Loading, Shut
<1>4. Frees
  BY <1>2 DEF Frees
<1>5. QED
  BY <1>2, <1>3, <1>4, InstFrees

\* What changes only Arrived: places and the names of who is dropped.
LEMMA InstPlaces ==
    ASSUME IInv, InstInv, TypeOK', UNCHANGED held, Arrived',
           \A c \in Clients : pc'[c] \in Loading => pc[c] \in Loading /\ arg'[c].key = arg[c].key
    PROVE  InstInv'
<1>1. TypeOK /\ Frees
  BY HeldFrees DEF IInv
<1>2. \A c \in Clients : pc'[c] \in Loading
         => arg'[c].key \in Keys /\ pc[c] \in Loading /\ arg'[c].key = arg[c].key
  <2> SUFFICES ASSUME NEW c \in Clients, pc'[c] \in Loading
               PROVE  arg'[c].key \in Keys /\ pc[c] \in Loading /\ arg'[c].key = arg[c].key
    OBVIOUS
  <2>1. pc[c] \in Loading /\ arg'[c].key = arg[c].key /\ c \in Threads
    BY DEF Threads
  <2>2. LocalOf(c)
    BY <2>1 DEF IInv, Locals
  <2>3. QED
    BY <2>1, <2>2 DEF LocalOf, Loading
<1>3. QED
  BY <1>1, <1>2, FreesKeeps DEF InstInv

\* close() shuts the connections down and drops them one by one.
LEMMA InstCloseShut == ASSUME IInv, InstInv, TypeOK', CloseShut \/ CloseDrop PROVE InstInv'
<1>1. TypeOK /\ Places /\ Closer \in Threads /\ Clients \subseteq Threads /\ Closer \notin Clients
  BY Names DEF IInv, Threads
<1>2. UNCHANGED held /\ UNCHANGED arg
  BY DEF CloseShut, CloseDrop, BeginDrop, held, cache, channels, people
<1>3. \E l : pc' = [pc EXCEPT ![Closer] = l]
  BY DEF CloseShut, CloseDrop, BeginDrop, Goto
<1>4. \A c \in Clients : pc'[c] = pc[c]
  BY <1>1, <1>3 DEF Places
<1>5. \A c \in registered : c \in snapshot' \/ c = dropping'[Closer] \/ CloseDrop
  BY DEF CloseShut, Shut
<1>6. ASSUME CloseDrop, NEW c \in registered
      PROVE  \/ c \in snapshot' \/ c = dropping'[Closer]
             \/ aliases[c] = {} /\ pc[c] \notin {"loadLock"} \cup Loading
  <2>1. PICK d \in snapshot : /\ pc[Closer] = "dropEach" /\ snapshot' = snapshot \ {d}
                              /\ dropping' = [dropping EXCEPT ![Closer] = d]
    BY <1>6 DEF CloseDrop, BeginDrop
  <2>2. PlaceOf(Closer) /\ Shut
    BY <1>1, <2>1 DEF Places, Shut
  <2>3. dropping[Closer] = None /\ c \in Clients
    BY <1>1, <2>1, <2>2 DEF PlaceOf, Ending, Unloading, TypeOK
  <2>4. c # None
    BY <2>3, Names DEF Threads
  <2>5. c \in snapshot \/ (aliases[c] = {} /\ pc[c] \notin {"loadLock"} \cup Loading)
    BY <2>2, <2>3, <2>4 DEF InstInv, Arrived
  <2>6. dropping'[Closer] = d
    BY <1>1, <2>1 DEF TypeOK
  <2>7. QED
    BY <2>1, <2>5, <2>6
<1>7. Arrived'
  BY <1>1, <1>2, <1>4, <1>5, <1>6 DEF InstInv, Arrived, held, TypeOK
<1>8. QED
  BY <1>2, <1>4, <1>7, InstPlaces

\* A connection arrives, says hello, and asks to load.
LEMMA InstAccept == ASSUME IInv, InstInv, TypeOK', NEW c \in Clients, Accept(c) PROVE InstInv'
<1>1. TypeOK /\ Places /\ c \in Threads /\ c # Closer /\ Closer \in Threads /\ Clients \subseteq Threads
  BY Names DEF IInv, Threads
<1>2. /\ pc[c] = "gone" /\ ~stopping /\ aliases[c] = {} /\ \A k \in Keys : io[c][k] = None
      /\ pc' = [pc EXCEPT ![c] = "hello"] /\ UNCHANGED held /\ UNCHANGED <<snapshot, dropping, arg>>
  BY DEF Accept, Goto, held, cache, channels, people
<1>3. ~Shut' /\ \A d \in Clients : d # c => pc'[d] = pc[d]
  BY <1>1, <1>2 DEF Places, Shut
<1>4. Arrived'
  BY <1>2, <1>3 DEF InstInv, Arrived, held
<1>5. \A d \in Clients : pc'[d] \in Loading => pc[d] \in Loading /\ arg'[d].key = arg[d].key
  BY <1>1, <1>2, <1>3 DEF Places, Loading
<1>6. QED
  BY <1>2, <1>4, <1>5, InstPlaces

\* A hello registers a client that has nothing yet.
LEMMA InstHello == ASSUME IInv, InstInv, TypeOK', NEW c \in Clients, Hello(c) PROVE InstInv'
<1>1. TypeOK /\ Places /\ c \in Threads /\ c # Closer /\ Closer \in Threads /\ Clients \subseteq Threads
  BY Names DEF IInv, Threads
<1>2. /\ pc[c] = "hello" /\ UNCHANGED <<models, aliases, io, snapshot, dropping, arg>>
      /\ registered' \in {registered, registered \cup {c}}
  BY DEF Hello, cache, channels, people
<1>3. aliases[c] = {} /\ \A k \in Keys : io[c][k] = None
  BY <1>2 DEF InstInv, Arrived
<1>4. \E l : l \notin {"hello", "loadLock"} \cup Loading /\ pc' = [pc EXCEPT ![c] = l]
  BY DEF Hello, Goto, AtRest, Loading
<1>5. Lulled /\ Frees
  BY <1>1, <1>2, <1>3, <1>4, MovesLulled DEF Frees
<1>6. pc'[c] \notin {"hello", "loadLock"} \cup Loading
  BY <1>1, <1>4 DEF Places
<1>7. Arrived'
  <2>1. ASSUME Shut', NEW d \in registered'
        PROVE  \/ d \in snapshot \/ d = dropping[Closer]
               \/ aliases[d] = {} /\ pc'[d] \notin {"loadLock"} \cup Loading
    <3>1. CASE d = c
      BY <1>3, <1>6, <3>1
    <3>2. CASE d # c
      <4>1. d \in registered /\ Shut /\ d \in Clients
        BY <1>1, <1>2, <1>5, <2>1, <3>2 DEF Lulled, TypeOK
      <4>2. QED
        BY <1>5, <4>1 DEF Lulled, InstInv, Arrived
    <3>3. QED
      BY <3>1, <3>2
  <2>2. QED
    BY <1>2, <1>5, <2>1 DEF InstInv, Arrived, Lulled
<1>8. \A d \in Clients : pc'[d] \in Loading
         => arg'[d].key \in Keys /\ pc[d] \in Loading /\ arg'[d].key = arg[d].key
  <2> SUFFICES ASSUME NEW d \in Clients, pc'[d] \in Loading
               PROVE  arg'[d].key \in Keys /\ pc[d] \in Loading /\ arg'[d].key = arg[d].key
    OBVIOUS
  <2>1. pc[d] \in Loading /\ arg'[d].key = arg[d].key /\ d \in Threads
    BY <1>1, <1>5 DEF Lulled
  <2>2. LocalOf(d)
    BY <2>1 DEF IInv, Locals
  <2>3. QED
    BY <2>1, <2>2 DEF LocalOf, Loading
<1>9. InstancesInside'
  BY <1>1, <1>5, <1>8, FreesKeeps DEF InstInv
<1>10. QED
  BY <1>7, <1>9 DEF InstInv

\* A load is asked for only while close() has shut no connection down.
LEMMA InstBeginLoad == ASSUME IInv, InstInv, TypeOK', NEW c \in Clients, BeginLoad(c) PROVE InstInv'
<1>1. TypeOK /\ Places /\ c \in Threads /\ c # Closer /\ Closer \in Threads /\ Clients \subseteq Threads
  BY Names DEF IInv, Threads
<1>2. /\ ~Shut /\ pc' = [pc EXCEPT ![c] = "loadLock"] /\ UNCHANGED held
      /\ \A d \in Threads : d # c => arg'[d] = arg[d]
  BY <1>1 DEF BeginLoad, Admitted, Goto, held, cache, channels, people, TypeOK
<1>3. /\ pc'[c] = "loadLock" /\ ~Shut' /\ \A d \in Clients : d # c => pc'[d] = pc[d]
  BY <1>1, <1>2 DEF Places, Shut
<1>4. Arrived'
  BY <1>2, <1>3 DEF InstInv, Arrived, held
<1>5. \A d \in Clients : pc'[d] \in Loading => pc[d] \in Loading /\ arg'[d].key = arg[d].key
  BY <1>1, <1>2, <1>3 DEF Loading
<1>6. QED
  BY <1>2, <1>4, <1>5, InstPlaces

\* A load passes the check of its generation's limit.
LEMMA LoadHasPlace ==
    ASSUME IInv, InstInv, NEW c \in Clients, NEW k \in Keys, LoadFits(c, k)
    PROVE  Sum(Mem, (InstanceKeys(c) \cap Cached) \cup {k}) + SharedBytes(Peers(c)) <= Limit
<1> DEFINE A == InstanceKeys(c) \cap Cached
           s == SharedBytes(Peers(c))
<1>1. /\ TypeOK /\ InstanceKeys(c) \subseteq Cached /\ IsFiniteSet(A) /\ A \subseteq Keys
      /\ Mem \in [Keys -> Nat] /\ Limit \in Nat /\ Peers(c) \subseteq Clients
  <2>1. TypeOK /\ InstanceKeys(c) \subseteq Cached
    BY KeysCached DEF IInv, InstInv
  <2>2. /\ IsFiniteSet(InstanceKeys(c)) /\ InstanceKeys(c) \subseteq Keys
        /\ Mem \in [Keys -> Nat] /\ Limit \in Nat /\ Peers(c) \subseteq Clients
    BY <2>1, ReservedType
  <2>3. IsFiniteSet(A)
    BY <2>2, FS_Intersection
  <2>4. QED
    BY <2>1, <2>2, <2>3
<1>2. s \in Nat /\ Sum(Mem, A) \in Nat /\ Sum(Mem, A \cup {k}) \in Nat
  BY <1>1, SharedType, MemType
<1>3. Sum(Mem, A) + s <= Limit
  BY DEF InstInv, InstancesInside, InstanceReserved
<1>4. CASE k \in InstanceKeys(c)
  <2>1. A \cup {k} = A
    BY <1>1, <1>4
  <2>2. QED
    BY <1>3, <2>1
<1>5. CASE k \notin InstanceKeys(c)
  <2>1. Sum(Mem, A) + s + Mem[k] <= Limit
    BY <1>5 DEF LoadFits, InstanceReserved
  <2>2. Sum(Mem, A \cup {k}) <= Sum(Mem, A) + Mem[k]
    <3>1. (\A x \in A : Mem[x] \in Nat) /\ Mem[k] \in Nat
      BY <1>1
    <3> HIDE DEF A
    <3>2. QED
      BY <1>1, <3>1, SumOneMore
  <2>3. Sum(Mem, A \cup {k}) + s <= Limit
    <3>1. Mem[k] \in Nat
      BY <1>1
    <3> HIDE DEF A, s
    <3>2. QED
      BY <1>1, <1>2, <2>1, <2>2, <3>1
  <2>4. QED
    BY <2>3
<1>6. QED
  BY <1>4, <1>5

\* A load that passes the check has its place, one that does not ends.
LEMMA InstLoadLock == ASSUME IInv, InstInv, TypeOK', NEW c \in Clients, LoadLock(c) PROVE InstInv'
<1> DEFINE k == arg[c].key
<1>1. /\ TypeOK /\ Places /\ c \in Threads /\ c # Closer /\ Closer \in Threads
      /\ Clients \subseteq Threads /\ Locals
  BY Names DEF IInv, Threads
<1>2. pc[c] = "loadLock" /\ UNCHANGED held /\ UNCHANGED <<snapshot, dropping>>
  BY DEF LoadLock, held, cache, channels, people
<1>3. k \in Keys
  BY <1>1, <1>2 DEF Locals, LocalOf
<1>4. CASE ~LoadFits(c, k)
  <2>1. /\ \A u \in Threads : u # c => arg'[u] = arg[u]
        /\ pc' = [pc EXCEPT ![c] = AtRest] /\ AtRest \notin {"hello", "loadLock"} \cup Loading
    BY <1>1, <1>4 DEF LoadLock, Goto, AtRest, Loading, TypeOK
  <2>2. Lulled
    BY <1>1, <2>1, MovesLulled
  <2>3. QED
    BY <1>2, <2>2, InstHeld
<1>5. CASE LoadFits(c, k)
  <2>1. /\ arg' = [arg EXCEPT ![c].handle = models[k]]
        /\ \E l \in Loading : pc' = [pc EXCEPT ![c] = l]
    BY <1>5 DEF LoadLock, Goto, Loading
  <2>2. /\ arg'[c].key = k /\ \A d \in Clients : d # c => arg'[d] = arg[d] /\ pc'[d] = pc[d]
        /\ pc'[c] \in Loading /\ pc'[Closer] = pc[Closer]
    BY <1>1, <2>1 DEF TypeOK, Places
  <2>3. Arrived'
    <3>1. pc'[c] # "hello"
      BY <2>2 DEF Loading
    <3>2. \A d \in Clients : pc'[d] \in {"loadLock"} \cup Loading
                                => pc[d] \in {"loadLock"} \cup Loading
      BY <1>2, <2>2
    <3>3. Shut' = Shut /\ registered \subseteq Clients
      BY <1>1, <2>2 DEF Shut, TypeOK
    <3>4. \A d \in Clients : pc'[d] = "hello" => pc[d] = "hello"
      BY <2>2, <3>1
    <3>5. QED
      BY <1>2, <3>2, <3>3, <3>4 DEF InstInv, Arrived, held
  <2>4. Sum(Mem, (InstanceKeys(c) \cap Cached) \cup {k}) + SharedBytes(Peers(c)) <= Limit
    BY <1>3, <1>5, LoadHasPlace
  <2>5. ASSUME NEW d \in Clients, pc'[d] \in Loading
        PROVE  /\ arg'[d].key \in Keys
               /\ \/ pc[d] \in Loading /\ arg'[d].key = arg[d].key
                  \/ /\ UNCHANGED <<models, aliases, io, registered>>
                     /\ Sum(Mem, (InstanceKeys(d) \cap Cached) \cup {arg'[d].key})
                           + SharedBytes(Peers(d)) <= Limit
    <3>1. CASE d = c
      BY <1>2, <1>3, <2>2, <2>4, <3>1 DEF held
    <3>2. CASE d # c
      <4>1. pc[d] \in Loading /\ arg'[d] = arg[d] /\ LocalOf(d)
        BY <1>1, <2>2, <2>5, <3>2 DEF Locals
      <4>2. QED
        BY <4>1 DEF LocalOf, Loading
    <3>3. QED
      BY <3>1, <3>2
  <2>6. Frees
    BY <1>2, HeldFrees
  <2>7. InstancesInside'
    BY <1>1, <2>5, <2>6, FreesKeeps DEF InstInv
  <2>8. QED
    BY <2>3, <2>7 DEF InstInv
<1>6. QED
  BY <1>4, <1>5

\* Who loads or opens is the only one with the lifecycle lock.
LEMMA OneLoads ==
    ASSUME IInv, NEW c \in Clients, pc[c] \in Driving, NEW d \in Clients, pc[d] \in Driving
    PROVE  c = d
BY DEF IInv, Locks, LocksOf, Threads

\* A model that nobody has an alias of is cached: no reservation of a
\* generation changes until the load commits.
LEMMA InstLoadNative ==
    ASSUME IInv, InstInv, TypeOK', NEW c \in Clients, LoadNative(c)
    PROVE  InstInv'
<1> DEFINE k == arg[c].key
<1>1. /\ TypeOK /\ Places /\ c \in Threads /\ c # Closer /\ Closer \in Threads
      /\ Clients \subseteq Threads /\ Locals
  BY Names DEF IInv, Threads
<1>2. /\ pc[c] = "loadNative" /\ UNCHANGED <<aliases, io, registered, snapshot, dropping>>
  BY DEF LoadNative, channels, people
<1>3. k \in Keys /\ models[k] = None
  BY <1>1, <1>2 DEF Locals, LocalOf
<1>4. CASE UNCHANGED cache /\ pc' = [pc EXCEPT ![c] = AtRest] /\ arg' = [arg EXCEPT ![c] = NoArg]
  <2>1. AtRest \notin {"hello", "loadLock"} \cup Loading
    BY DEF AtRest, Loading
  <2>2. \A u \in Threads : u # c => arg'[u] = arg[u]
    BY <1>1, <1>4 DEF TypeOK
  <2>3. Lulled
    BY <1>1, <1>4, <2>1, <2>2, MovesLulled
  <2>4. QED
    BY <1>2, <1>4, <2>3, InstHeld DEF held, cache
<1>5. ASSUME NEW h \in Handles, models' = [models EXCEPT ![k] = h],
             arg' = [arg EXCEPT ![c].handle = h], pc' = [pc EXCEPT ![c] = "loadCommit"]
      PROVE  InstInv'
  <2>1. /\ arg'[c].key = k /\ \A d \in Clients : d # c => arg'[d] = arg[d] /\ pc'[d] = pc[d]
        /\ pc'[c] = "loadCommit" /\ pc'[Closer] = pc[Closer] /\ h # None
    BY <1>1, <1>5, Names DEF TypeOK, Places
  <2>2. Cached' = Cached \cup {k}
    BY <1>1, <1>3, <1>5, <2>1 DEF Cached, TypeOK
  <2>3. k \notin Cached
    BY <1>3 DEF Cached
  <2>4. Arrived'
    <3>1. \A d \in Clients : /\ pc'[d] = "hello" => pc[d] = "hello"
                             /\ pc'[d] \in {"loadLock"} \cup Loading
                                  => pc[d] \in {"loadLock"} \cup Loading
      BY <1>2, <2>1 DEF Loading
    <3>2. Shut' = Shut /\ registered \subseteq Clients
      BY <1>1, <2>1 DEF Shut, TypeOK
    <3>3. QED
      BY <1>2, <3>1, <3>2 DEF InstInv, Arrived
  <2>5. ASSUME NEW d \in Clients
        PROVE  /\ InstanceKeys(d)' = InstanceKeys(d) /\ SharedBytes(Peers(d))' = SharedBytes(Peers(d))
               /\ InstanceKeys(d) \cap (Cached \cup {k}) = InstanceKeys(d) \cap Cached
    <3>1. InstanceKeys(d) \subseteq Cached
      BY KeysCached DEF InstInv
    <3>2. QED
      BY <1>2, <2>3, <3>1 DEF InstanceKeys, Peers, SharedBytes
  <2>6. \A d \in Clients : InstanceReserved(d)' <= Limit
    BY <2>2, <2>5 DEF InstanceReserved, InstInv, InstancesInside
  <2>7. ASSUME NEW d \in Clients, pc'[d] \in Loading
        PROVE  (Sum(Mem, KeysWith(d)) + SharedBytes(Peers(d)))' <= Limit
    <3>1. pc[d] \in Loading /\ arg'[d].key = arg[d].key
      BY <1>2, <2>1, <2>7 DEF Loading
    <3>2. KeysWith(d)' = KeysWith(d)
      BY <2>2, <2>5, <3>1 DEF KeysWith
    <3>3. QED
      BY <2>5, <3>1, <3>2 DEF InstInv, InstancesInside
  <2>8. InstancesInside'
    BY <2>6, <2>7 DEF InstancesInside
  <2>9. QED
    BY <2>4, <2>8 DEF InstInv
<1>6. QED
  BY <1>4, <1>5 DEF LoadNative, Goto

\* The load takes the place that was kept for it.
LEMMA InstLoadCommit ==
    ASSUME IInv, InstInv, TypeOK', NEW c \in Clients, LoadCommit(c)
    PROVE  InstInv'
<1> DEFINE k == arg[c].key
<1>1. /\ TypeOK /\ Places /\ c \in Threads /\ c # Closer /\ Closer \in Threads
      /\ Clients \subseteq Threads /\ Locals
  BY Names DEF IInv, Threads
<1>2. /\ pc[c] = "loadCommit" /\ UNCHANGED <<models, io, registered, snapshot, dropping>>
      /\ aliases' = [aliases EXCEPT ![c] = @ \cup {k}] /\ arg' = [arg EXCEPT ![c] = NoArg]
      /\ pc' = [pc EXCEPT ![c] = AtRest]
  BY DEF LoadCommit, channels, people, Goto
<1>3. k \in Keys /\ models[k] # None
  <2>1. LocalOf(c)
    BY <1>1 DEF Locals
  <2>2. k \in Keys /\ models[k] \in Handles
    BY <1>2, <2>1 DEF LocalOf
  <2>3. QED
    BY <2>2, Names
<1>4. /\ aliases'[c] = aliases[c] \cup {k} /\ \A d \in Clients : d # c => aliases'[d] = aliases[d]
      /\ pc'[c] \notin {"hello", "loadLock"} \cup Loading
      /\ \A d \in Clients : d # c => pc'[d] = pc[d] /\ arg'[d] = arg[d]
      /\ pc'[Closer] = pc[Closer]
  <2>1. AtRest \notin {"hello", "loadLock"} \cup Loading
    BY DEF AtRest, Loading
  <2>2. QED
    BY <1>1, <1>2, <2>1 DEF TypeOK, Places
<1>5. Arrived'
  <2>1. ASSUME Shut', NEW d \in registered
        PROVE  \/ d \in snapshot \/ d = dropping[Closer]
               \/ aliases'[d] = {} /\ pc'[d] \notin {"loadLock"} \cup Loading
    <3>1. Shut /\ d \in Clients
      BY <1>1, <1>4, <2>1 DEF Shut, TypeOK
    <3>2. CASE d = c
      BY <1>2, <3>1, <3>2, <2>1 DEF InstInv, Arrived, Loading
    <3>3. CASE d # c
      BY <1>4, <2>1, <3>1, <3>3 DEF InstInv, Arrived
    <3>4. QED
      BY <3>2, <3>3
  <2>2. \A d \in Clients : pc'[d] = "hello" => pc[d] = "hello" /\ d # c
    BY <1>4
  <2>3. QED
    BY <1>2, <1>4, <2>1, <2>2 DEF InstInv, Arrived
<1>6. ASSUME NEW d \in Clients
      PROVE  /\ Peers(d)' = Peers(d) /\ SharedBytes(Peers(d))' = SharedBytes(Peers(d))
             /\ Cached' = Cached
             /\ c \notin Peers(d) => InstanceKeys(d)' = InstanceKeys(d)
             /\ c \in Peers(d) => /\ Peers(d) = Peers(c)
                                  /\ InstanceKeys(d)' = InstanceKeys(c) \cup {k}
  <2>1. Peers(d)' = Peers(d) /\ Peers(d) \subseteq Clients
    BY <1>1, <1>2 DEF Peers, TypeOK
  <2>2. SharedBytes(Peers(d))' = SharedBytes(Peers(d)) /\ Cached' = Cached
    BY <1>2, <2>1 DEF SharedBytes, Cached
  <2>3. ASSUME c \notin Peers(d) PROVE InstanceKeys(d)' = InstanceKeys(d)
    <3>1. \A e \in Peers(d) : aliases'[e] = aliases[e]
      BY <1>4, <2>1, <2>3
    <3>2. QED
      BY <2>1, <3>1 DEF InstanceKeys
  <2>4. ASSUME c \in Peers(d) PROVE Peers(d) = Peers(c) /\ InstanceKeys(d)' = InstanceKeys(c) \cup {k}
    <3>1. Peers(d) = Peers(c)
      BY <2>4 DEF Peers
    <3>2. \A e \in Peers(d) : aliases'[e] = IF e = c THEN aliases[c] \cup {k} ELSE aliases[e]
      BY <1>4, <2>1
    <3>3. QED
      BY <2>1, <2>4, <3>1, <3>2 DEF InstanceKeys
  <2>5. QED
    BY <2>1, <2>2, <2>3, <2>4
<1>7. ASSUME NEW d \in Clients PROVE InstanceReserved(d)' <= Limit
  <2>1. CASE c \notin Peers(d)
    BY <1>6, <2>1 DEF InstanceReserved, InstInv, InstancesInside
  <2>2. CASE c \in Peers(d)
    <3>1. k \in Cached
      BY <1>3 DEF Cached
    <3>2. (InstanceKeys(c) \cup {k}) \cap Cached = KeysWith(c)
      BY <3>1 DEF KeysWith
    <3>3. InstanceReserved(d)' = Sum(Mem, KeysWith(c)) + SharedBytes(Peers(c))
      BY <1>6, <2>2, <3>2 DEF InstanceReserved
    <3>4. QED
      BY <1>2, <3>3 DEF InstInv, InstancesInside, Loading
  <2>3. QED
    BY <2>1, <2>2
<1>8. ASSUME NEW d \in Clients PROVE pc'[d] \notin Loading
  <2>1. CASE d = c
    BY <1>4, <2>1
  <2>2. CASE d # c
    <3>1. pc[c] \in Driving
      BY <1>2 DEF Driving
    <3>2. pc[d] \notin Driving
      BY <2>2, <3>1, OneLoads
    <3>3. QED
      BY <1>4, <2>2, <3>2 DEF Driving, Loading
  <2>3. QED
    BY <2>1, <2>2
<1>9. QED
  BY <1>5, <1>7, <1>8 DEF InstInv, InstancesInside

\* A channel passes the check of the limit in the step that allocates it.
LEMMA InstOpenNative ==
    ASSUME IInv, InstInv, TypeOK', NEW c \in Clients, OpenNative(c)
    PROVE  InstInv'
<1> DEFINE k == arg[c].key
<1>1. /\ TypeOK /\ Places /\ c \in Threads /\ c # Closer /\ Closer \in Threads
      /\ Clients \subseteq Threads /\ Locals
  BY Names DEF IInv, Threads
<1>2. /\ pc[c] = "openNative" /\ UNCHANGED <<models, aliases, registered, snapshot, dropping>>
      /\ pc' = [pc EXCEPT ![c] = AtRest] /\ arg' = [arg EXCEPT ![c] = NoArg]
  BY DEF OpenNative, cache, people, Goto
<1>3. k \in Keys
  BY <1>1, <1>2 DEF Locals, LocalOf
<1>4. Lulled
  <2>1. AtRest \notin {"hello", "loadLock"} \cup Loading
    BY DEF AtRest, Loading
  <2>2. \A u \in Threads : u # c => arg'[u] = arg[u]
    BY <1>1, <1>2 DEF TypeOK
  <2>3. QED
    BY <1>1, <1>2, <2>1, <2>2, MovesLulled
<1>5. CASE io' = io
  BY <1>2, <1>4, <1>5, InstHeld DEF held
<1>6. ASSUME NEW x \in Channels, io' = [io EXCEPT ![c][k] = x], ChannelFits(c, k)
      PROVE  InstInv'
  <2>1. /\ \A d \in Clients, l \in Keys : d # c \/ l # k => io'[d][l] = io[d][l]
        /\ \A d \in Clients : d # c => io'[d] = io[d]
    BY <1>1, <1>6 DEF TypeOK
  <2>2. \A d \in Clients : /\ pc'[d] = "hello" => pc[d] = "hello" /\ d # c
                           /\ pc'[d] \in {"loadLock"} \cup Loading
                                => pc[d] = pc'[d] /\ arg'[d].key = arg[d].key
    BY <1>2, <1>4 DEF Lulled
  <2>3. Arrived'
    <3>1. registered \subseteq Clients /\ (Shut' => Shut)
      BY <1>1, <1>4 DEF TypeOK, Lulled
    <3>2. ASSUME Shut', NEW d \in registered
          PROVE  \/ d \in snapshot \/ d = dropping[Closer]
                 \/ aliases[d] = {} /\ pc'[d] \notin {"loadLock"} \cup Loading
      BY <2>2, <3>1, <3>2 DEF InstInv, Arrived
    <3>3. ASSUME NEW d \in Clients, pc'[d] = "hello"
          PROVE  aliases[d] = {} /\ \A l \in Keys : io'[d][l] = None
      BY <2>1, <2>2, <3>3 DEF InstInv, Arrived
    <3>4. QED
      BY <1>2, <3>2, <3>3 DEF Arrived
  <2>4. ASSUME NEW d \in Clients
        PROVE  /\ Peers(d)' = Peers(d) /\ Cached' = Cached
               /\ InstanceKeys(d)' = InstanceKeys(d)
               /\ Peers(d) \subseteq Clients
    BY <1>1, <1>2 DEF Peers, Cached, InstanceKeys, TypeOK
  <2>5. ASSUME NEW d \in Clients, c \notin Peers(d)
        PROVE  SharedBytes(Peers(d))' = SharedBytes(Peers(d))
    <3>1. \A e \in Peers(d) : io'[e] = io[e]
      BY <2>1, <2>4, <2>5
    <3>2. {p \in Peers(d) \X Keys : io'[p[1]][p[2]] # None}
            = {p \in Peers(d) \X Keys : io[p[1]][p[2]] # None}
      BY <3>1
    <3>3. QED
      BY <2>4, <3>2 DEF SharedBytes
  <2>6. ASSUME NEW d \in Clients, c \in Peers(d)
        PROVE  /\ Peers(d) = Peers(c)
               /\ SharedBytes(Peers(d))' <= SharedBytes(Peers(d)) + IoMem[k]
               /\ SharedBytes(Peers(d))' \in Nat
    <3> DEFINE f == [p \in Peers(d) \X Keys |-> IoMem[p[2]]]
               S == {p \in Peers(d) \X Keys : io[p[1]][p[2]] # None}
               T == {p \in Peers(d) \X Keys : io'[p[1]][p[2]] # None}
    <3>1. Peers(d) = Peers(c)
      BY <2>6 DEF Peers
    <3>2. SharedBytes(Peers(d)) = Sum(f, S) /\ SharedBytes(Peers(d))' = Sum(f, T)
      BY <2>4 DEF SharedBytes
    <3>3. IsFiniteSet(Peers(d) \X Keys)
      BY <1>1, ReservedType
    <3>4. IsFiniteSet(S) /\ IsFiniteSet(T) /\ IsFiniteSet(S \cup {<<c, k>>})
      <4>1. IsFiniteSet(S) /\ IsFiniteSet(T)
        BY <3>3, FS_Subset
      <4> HIDE DEF S, T
      <4>2. QED
        BY <4>1, FS_AddElement
    <3>5. T \subseteq S \cup {<<c, k>>}
      <4> SUFFICES ASSUME NEW e \in Peers(d), NEW l \in Keys, io'[e][l] # None, <<e, l>> # <<c, k>>
                   PROVE  <<e, l>> \in S
        OBVIOUS
      <4>1. io'[e][l] = io[e][l]
        BY <2>1, <2>4
      <4>2. QED
        BY <4>1
    <3>6. /\ \A p \in S \cup {<<c, k>>} : f[p] \in Nat
          /\ f[<<c, k>>] = IoMem[k]
      BY <1>3, <2>6, Sizes
    <3>7. Sum(f, S \cup {<<c, k>>}) <= Sum(f, S) + IoMem[k]
      <4> HIDE DEF S, f
      <4> QED
        BY <3>4, <3>6, SumOneMore
    <3>8. Sum(f, T) <= Sum(f, S \cup {<<c, k>>})
      <4> HIDE DEF S, T, f
      <4> QED
        BY <3>4, <3>5, <3>6, SumGrows
    <3>9. Sum(f, S) \in Nat /\ Sum(f, T) \in Nat /\ Sum(f, S \cup {<<c, k>>}) \in Nat
      <4> HIDE DEF S, T, f
      <4> QED
        BY <3>4, <3>5, <3>6, SumType
    <3>10. IoMem[k] \in Nat
      BY <1>3, Sizes
    <3>11. Sum(f, T) <= Sum(f, S) + IoMem[k]
      <4> HIDE DEF S, T, f
      <4> QED
        BY <3>7, <3>8, <3>9, <3>10
    <3>12. QED
      BY <3>1, <3>2, <3>9, <3>11
  <2>7. ASSUME NEW d \in Clients PROVE InstanceReserved(d)' <= Limit
    <3>1. CASE c \notin Peers(d)
      BY <2>4, <2>5, <3>1 DEF InstanceReserved, InstInv, InstancesInside
    <3>2. CASE c \in Peers(d)
      <4> DEFINE a == Sum(Mem, InstanceKeys(d) \cap Cached)
                 s == SharedBytes(Peers(d))
                 r == SharedBytes(Peers(d))'
      <4>1. a + s + IoMem[k] <= Limit
        <5>1. InstanceKeys(d) = InstanceKeys(c)
          BY <2>6, <3>2 DEF InstanceKeys
        <5>2. QED
          BY <1>6, <2>6, <3>2, <5>1 DEF ChannelFits, InstanceReserved
      <4>2. InstanceReserved(d)' = a + r /\ r <= s + IoMem[k] /\ r \in Nat
        BY <2>4, <2>6, <3>2 DEF InstanceReserved
      <4>3. a \in Nat /\ s \in Nat /\ IoMem[k] \in Nat /\ Limit \in Nat
        <5>1. InstanceKeys(d) \cap Cached \subseteq Keys /\ IoMem[k] \in Nat /\ Limit \in Nat
          BY <1>1, <1>3, ReservedType
        <5>2. QED
          BY <2>4, <5>1, MemType, SharedType
      <4> HIDE DEF a, s, r
      <4>4. QED
        BY <4>1, <4>2, <4>3
    <3>3. QED
      BY <3>1, <3>2
  <2>8. ASSUME NEW d \in Clients PROVE pc'[d] \notin Loading
    <3> SUFFICES ASSUME pc'[d] \in Loading
                 PROVE  FALSE
      OBVIOUS
    <3>1. pc[d] \in Loading
      BY <2>2
    <3>2. pc[c] \in Driving /\ pc[d] \in Driving
      BY <1>2, <3>1 DEF Driving, Loading
    <3>3. c = d
      BY <3>2, OneLoads
    <3>4. QED
      BY <1>2, <3>1, <3>3 DEF Loading
  <2>9. QED
    BY <2>3, <2>7, <2>8 DEF InstInv, InstancesInside
<1>7. QED
  BY <1>5, <1>6 DEF OpenNative, channels

\* At first nothing is reserved.
LEMMA InstFirst == Init => InstInv
<1> SUFFICES ASSUME Init
             PROVE  InstInv
  OBVIOUS
<1>1. Closer \in Threads /\ Clients \subseteq Threads /\ Closer \notin Clients
  BY Names DEF Threads
<1>2. ~Shut /\ \A c \in Clients : pc[c] = "gone"
  BY <1>1 DEF Init, Shut
<1>3. Arrived
  BY <1>2 DEF Arrived
<1>4. ASSUME NEW c \in Clients PROVE InstanceReserved(c) <= Limit
  <2>1. Peers(c) = {} /\ Cached = {}
    BY DEF Init, Peers, Cached
  <2>2. {p \in {} \X Keys : io[p[1]][p[2]] # None} = {}
    OBVIOUS
  <2>3. SharedBytes(Peers(c)) = 0
    BY <2>1, <2>2, SumOfNothing DEF SharedBytes
  <2>4. Sum(Mem, InstanceKeys(c) \cap Cached) = 0
    BY <2>1, SumOfNothing
  <2>5. InstanceReserved(c) = 0
    BY <2>3, <2>4 DEF InstanceReserved
  <2>6. QED
    BY <2>5, Sizes
<1>5. InstancesInside
  BY <1>2, <1>4 DEF InstancesInside, Loading
<1>6. QED
  BY <1>3, <1>5 DEF InstInv

\* Every step keeps the limits.
LEMMA InstNext == IInv /\ InstInv /\ [Next]_vars => InstInv'
<1> SUFFICES ASSUME IInv, InstInv, [Next]_vars
             PROVE  InstInv'
  OBVIOUS
<1>1. TypeOK'
  BY NextIInv DEF IInv
<1>2. CASE UNCHANGED vars
  <2>1. UNCHANGED held /\ UNCHANGED <<snapshot, dropping>> /\ UNCHANGED <<pc, arg>>
    BY <1>2 DEF vars, held, cache, channels, people, threads
  <2>2. QED
    BY <1>1, <2>1, StaysLulled, InstHeld
<1>3. ASSUME NEW t \in Threads, ThreadStep(t) PROVE InstInv'
  BY <1>1, <1>3, InstUnload, InstDropEnd DEF ThreadStep
<1>4. ASSUME NEW c \in Clients, Request(c) \/ ClientStep(c) \/ Revoke(c) PROVE InstInv'
  <2>1. CASE Request(c)
    BY <1>1, <2>1, InstRequest, InstAccept, InstBeginLoad, InstDisconnect DEF Request
  <2>2. CASE ClientStep(c)
    <3>1. c \in Threads
      BY DEF Threads
    <3>2. QED
      BY <1>1, <1>3, <2>2, <3>1, InstRequest, InstHello, InstLoadLock, InstLoadNative,
         InstLoadCommit, InstOpenNative, InstDisconnect DEF ClientStep, Leave
  <2>3. QED
    BY <1>1, <1>4, <2>1, <2>2, InstOthers
<1>5. CASE Close \/ CloserStep
  <2>1. Closer \in Threads
    BY DEF Threads
  <2>2. QED
    BY <1>1, <1>3, <1>5, <2>1, InstOthers, InstCloseShut, InstCloseClear DEF CloserStep
<1>6. QED
  BY <1>1, <1>2, <1>4, <1>5, InstOthers DEF Next

\* However many connections an application generation spreads its models
\* over, and whatever fails, what it has loaded and opened stays inside its
\* limit (server.py:959-985, 1037-1043).
THEOREM WithinLimits == Spec => []InstanceLimited
<1>1. Init => IInv /\ InstInv
  BY InitIInv, InstFirst
<1>2. IInv /\ InstInv /\ [Next]_vars => (IInv /\ InstInv)'
  BY NextIInv, InstNext
<1>3. IInv /\ InstInv => InstanceLimited
  BY DEF IInv, TypeOK, InstInv, InstancesInside, InstanceLimited
<1>4. QED
  BY <1>1, <1>2, <1>3, PTL DEF Spec

\* What native contexts occupy and what their channels do, as two sums.
LEMMA UsedIs ==
    ASSUME TypeOK
    PROVE  /\ \A h \in Loaded : h \in Handles /\ native[h] \in Keys /\ Mem[native[h]] \in Nat
           /\ \A x \in BoundChannels : /\ x \in Channels /\ buffers[x] \in Handles
                                       /\ native[buffers[x]] \in Keys
                                       /\ IoMem[native[buffers[x]]] \in Nat
           /\ Mem \in [Keys -> Nat] /\ IoMem \in [Keys -> Nat] /\ Budget \in Nat
<1>1. \A h \in Loaded : h \in Handles /\ native[h] \in Keys
  BY DEF Loaded, TypeOK
<1>2. \A x \in BoundChannels : x \in Channels /\ buffers[x] \in Handles
  BY DEF BoundChannels, TypeOK
<1>3. \A x \in BoundChannels : native[buffers[x]] \in Keys
  BY <1>2 DEF BoundChannels, TypeOK
<1>4. QED
  BY <1>1, <1>2, <1>3, Sizes

\* The two sums, as numbers.
LEMMA UsedType ==
    ASSUME TypeOK, IsFiniteSet(Loaded), IsFiniteSet(BoundChannels)
    PROVE  /\ Sum([h \in Loaded |-> Mem[native[h]]], Loaded) \in Nat
           /\ Sum([x \in BoundChannels |-> IoMem[native[buffers[x]]]], BoundChannels) \in Nat
           /\ Used \in Nat
<1> DEFINE f == [h \in Loaded |-> Mem[native[h]]]
           g == [x \in BoundChannels |-> IoMem[native[buffers[x]]]]
<1>1. (\A h \in Loaded : f[h] \in Nat) /\ \A x \in BoundChannels : g[x] \in Nat
  BY UsedIs
<1>2. Sum(f, Loaded) \in Nat /\ Sum(g, BoundChannels) \in Nat
  <2> HIDE DEF f, g
  <2> QED
    BY <1>1, SumType
<1>3. QED
  BY <1>2 DEF Used

\* While the reservations speak of everything, what is used is reserved: a
\* context by the model that is cached for it, a channel by its connection.
LEMMA UsedIsReserved ==
    ASSUME IInv, BudgetInv, pc[Closer] # "closeRelease"
    PROVE  Used <= Reserved /\ Used \in Nat /\ Reserved \in Nat
<1> DEFINE f == [h \in Loaded |-> Mem[native[h]]]
           g == [x \in BoundChannels |-> IoMem[native[buffers[x]]]]
           m == [h \in Loaded |-> native[h]]
           P == registered \X Keys
           S == {p \in P : io[p[1]][p[2]] # None}
           e == [p \in P |-> IoMem[p[2]]]
           Of(x) == {p \in S : io[p[1]][p[2]] = x /\ p[2] = native[buffers[x]]}
           n == [x \in BoundChannels |-> CHOOSE p \in Of(x) : TRUE]
<1>1. /\ TypeOK /\ Contexts /\ Buffers /\ ~fault /\ ChannelsKnown /\ registered \subseteq Clients
      /\ IsFiniteSet(Loaded) /\ IsFiniteSet(BoundChannels) /\ \A h : ~Owed(h)
  BY DEF IInv, BudgetInv, TypeOK, Owed
<1>2. /\ \A h \in Loaded : m[h] \in Cached /\ f[h] \in Nat /\ f[h] <= Mem[m[h]]
      /\ \A h, i \in Loaded : m[h] = m[i] => h = i
  <2>1. ASSUME NEW h \in Loaded PROVE native[h] \in Keys /\ models[native[h]] = h /\ h # None
    <3>1. h \in Handles /\ native[h] \in Keys /\ native[h] # None
      BY <1>1, UsedIs DEF Loaded
    <3>2. models[native[h]] = h
      BY <1>1, <3>1 DEF Contexts
    <3>3. QED
      BY <3>1, <3>2, Names
  <2>2. \A h \in Loaded : m[h] \in Cached
    BY <2>1 DEF Cached
  <2>3. \A h \in Loaded : f[h] \in Nat /\ f[h] <= Mem[m[h]]
    BY <1>1, UsedIs
  <2>4. \A h, i \in Loaded : m[h] = m[i] => h = i
    BY <2>1
  <2>5. QED
    BY <2>2, <2>3, <2>4
<1>3. IsFiniteSet(Cached) /\ \A k \in Cached : Mem[k] \in Nat
  <2>1. Cached \subseteq Keys
    BY DEF Cached
  <2>2. QED
    BY <2>1, Sizes, FS_Subset
<1>4. Sum(f, Loaded) <= Sum(Mem, Cached)
  <2> HIDE DEF f, m
  <2> QED
    BY <1>2, <1>3, SumInjects
<1>5. ASSUME NEW x \in BoundChannels PROVE Of(x) # {}
  <2>1. x \in Channels /\ buffers[x] # None /\ buffers[x] \in Handles
    BY <1>1, UsedIs DEF BoundChannels
  <2>2. OwnBuffer(x)
    BY <1>1, <2>1 DEF Buffers
  <2>3. PICK c \in Clients : \E k \in aliases[c] : io[c][k] = x /\ models[k] = buffers[x]
    BY <2>2 DEF OwnBuffer
  <2>4. PICK k \in aliases[c] : io[c][k] = x /\ models[k] = buffers[x]
    BY <2>3
  <2>5. k \in Keys /\ x # None
    <3>1. aliases[c] \subseteq Keys
      BY <1>1 DEF TypeOK
    <3>2. QED
      BY <2>1, <3>1, Names
  <2>6. native[buffers[x]] = k
    BY <1>1, <2>1, <2>4, <2>5 DEF Contexts
  <2>7. c \in registered
    <3>1. c \in registered \/ Cleared
      BY <1>1, <2>4, <2>5 DEF ChannelsKnown
    <3>2. pc[Closer] # "closed"
      BY <1>1, <2>1 DEF ChannelsKnown
    <3>3. QED
      BY <3>1, <3>2 DEF Cleared
  <2>8. <<c, k>> \in Of(x)
    BY <2>4, <2>5, <2>6, <2>7
  <2>9. QED
    BY <2>8
<1>6. \A x \in BoundChannels : n[x] \in Of(x)
  BY <1>5
<1>7. /\ \A x \in BoundChannels : n[x] \in S /\ g[x] \in Nat /\ g[x] <= e[n[x]]
      /\ \A x, y \in BoundChannels : n[x] = n[y] => x = y
  <2>1. ASSUME NEW x \in BoundChannels
        PROVE  /\ n[x] \in S /\ io[n[x][1]][n[x][2]] = x
               /\ n[x][2] = native[buffers[x]]
    <3> DEFINE p == n[x]
    <3>1. p \in Of(x)
      BY <1>6
    <3> HIDE DEF n
    <3>2. QED
      BY <3>1
  <2>2. \A x \in BoundChannels : g[x] \in Nat /\ g[x] <= e[n[x]]
    <3> SUFFICES ASSUME NEW x \in BoundChannels
                 PROVE  g[x] \in Nat /\ g[x] <= e[n[x]]
      OBVIOUS
    <3>1. g[x] = IoMem[native[buffers[x]]] /\ g[x] \in Nat
      BY <1>1, UsedIs
    <3>2. n[x] \in S /\ n[x][2] = native[buffers[x]]
      BY <2>1
    <3> HIDE DEF n, g
    <3>3. e[n[x]] = IoMem[n[x][2]]
      BY <3>2
    <3>4. QED
      BY <3>1, <3>2, <3>3
  <2> HIDE DEF n, g, e, S
  <2>3. QED
    BY <2>1, <2>2
<1>8. IsFiniteSet(S) /\ \A p \in S : e[p] \in Nat
  <2>1. IsFiniteSet(P)
    BY <1>1, Sizes, FS_Subset, FS_Product
  <2>2. IsFiniteSet(S)
    BY <2>1, FS_Subset
  <2>3. QED
    BY <2>2, Sizes
<1>9. Sum(g, BoundChannels) <= Sum(e, S)
  <2> HIDE DEF g, e, S, n
  <2> QED
    BY <1>7, <1>8, SumInjects
<1>10. /\ Sum(Mem, Cached) \in Nat /\ Sum(e, S) \in Nat
       /\ Sum(f, Loaded) \in Nat /\ Sum(g, BoundChannels) \in Nat
  <2>1. Sum(Mem, Cached) \in Nat
    BY <1>3, SumType
  <2>2. Sum(f, Loaded) \in Nat /\ Sum(g, BoundChannels) \in Nat
    BY <1>1, UsedType
  <2>3. Sum(e, S) \in Nat
    <3> HIDE DEF e, S
    <3> QED
      BY <1>8, SumType
  <2>4. QED
    BY <2>1, <2>2, <2>3
<1>11. Used = Sum(f, Loaded) + Sum(g, BoundChannels) /\ Reserved = Sum(Mem, Cached) + Sum(e, S)
  BY DEF Used, Reserved, SharedBytes
<1>12. QED
  <2> HIDE DEF f, g, e, S
  <2> QED
    BY <1>4, <1>9, <1>10, <1>11

(* A step that releases contexts and buffers, and takes none.              *)
Releases ==
    /\ \A h \in Handles : native'[h] \in {native[h], None}
    /\ \A x \in Channels : buffers'[x] \in {buffers[x], None}

\* Nothing more is used after such a step.
LEMMA UsedShrinks ==
    ASSUME TypeOK, TypeOK', IsFiniteSet(Loaded), IsFiniteSet(BoundChannels), Releases
    PROVE  /\ IsFiniteSet(Loaded)' /\ IsFiniteSet(BoundChannels)'
           /\ Used' <= Used /\ Used' \in Nat /\ Used \in Nat
<1> DEFINE f == [h \in Loaded |-> Mem[native[h]]]
           g == [x \in BoundChannels |-> IoMem[native[buffers[x]]]]
           S == Loaded'
           T == BoundChannels'
           d == [h \in Loaded' |-> Mem[native'[h]]]
           e == [x \in BoundChannels' |-> IoMem[native'[buffers'[x]]]]
<1>1. S \subseteq Loaded /\ \A h \in S : native'[h] = native[h]
  BY DEF Releases, Loaded
<1>2. /\ \A x \in T : /\ x \in BoundChannels /\ buffers'[x] = buffers[x]
                      /\ native'[buffers[x]] = native[buffers[x]]
      /\ T \subseteq BoundChannels
  <2> SUFFICES ASSUME NEW x \in T
               PROVE  /\ x \in BoundChannels /\ buffers'[x] = buffers[x]
                      /\ native'[buffers[x]] = native[buffers[x]]
    OBVIOUS
  <2>1. x \in Channels /\ buffers'[x] # None /\ native'[buffers'[x]] # None
    BY DEF BoundChannels
  <2>2. buffers'[x] = buffers[x] /\ buffers[x] \in Handles
    BY <2>1 DEF Releases, TypeOK
  <2>3. native'[buffers[x]] = native[buffers[x]]
    BY <2>1, <2>2 DEF Releases
  <2>4. QED
    BY <2>1, <2>2, <2>3 DEF BoundChannels
<1>3. IsFiniteSet(S) /\ IsFiniteSet(T)
  BY <1>1, <1>2, FS_Subset
<1>4. (\A h \in Loaded : f[h] \in Nat) /\ \A x \in BoundChannels : g[x] \in Nat
  BY UsedIs
<1>5. (\A h \in S : d[h] = f[h]) /\ \A x \in T : e[x] = g[x]
  BY <1>1, <1>2
<1>6. Used = Sum(f, Loaded) + Sum(g, BoundChannels) /\ Used' = Sum(d, S) + Sum(e, T)
  BY DEF Used
<1>7. /\ Sum(d, S) <= Sum(f, Loaded) /\ Sum(e, T) <= Sum(g, BoundChannels)
      /\ Sum(d, S) \in Nat /\ Sum(e, T) \in Nat
  <2> HIDE DEF f, g, d, e, S, T
  <2>1. (\A h \in S : d[h] \in Nat /\ d[h] <= f[h]) /\ \A x \in T : e[x] \in Nat /\ e[x] <= g[x]
    BY <1>1, <1>2, <1>4, <1>5
  <2>2. QED
    BY <1>1, <1>2, <1>3, <1>4, <2>1, SumGrows, SumType
<1>8. Sum(f, Loaded) \in Nat /\ Sum(g, BoundChannels) \in Nat
  BY UsedType
<1>9. QED
  <2> HIDE DEF f, g, d, e, S, T
  <2>1. Used' <= Used /\ Used' \in Nat /\ Used \in Nat
    BY <1>6, <1>7, <1>8
  <2>2. QED
    BY <1>3, <2>1 DEF S, T

(* A driver that is sealed is a fault, a fault stays, and there is none    *)
(* with a driver that can always be locked and torn down.                  *)
Told ==
    /\ fault => fault'
    /\ (sealed => fault) => (sealed' => fault')
    /\ Failures = {} /\ ~sealed /\ ~fault => ~fault'

\* Every step tells.
LEMMA FaultsAreTold ==
    ASSUME [Next]_vars
    PROVE  Told
<1>1. CASE UNCHANGED vars
  BY <1>1 DEF Told, vars, flags
<1>2. ASSUME NEW t \in Threads, ThreadStep(t) PROVE Told
  <2>1. CASE UnloadLock(t) \/ UnloadOp(t)
    BY <2>1 DEF Told, UnloadLock, UnloadOp, flags
  <2>2. CASE DropNext(t) \/ DropEnd(t)
    BY <2>2 DEF Told, DropNext, DropEnd, flags
  <2>3. CASE UnloadRelease(t)
    BY <2>3 DEF Told, UnloadRelease, TeardownFails
  <2>4. CASE UnloadIo(t)
    <3>1. CASE ~sealed /\ UNCHANGED <<fault, sealed>>
      BY <3>1 DEF Told
    <3>2. CASE TeardownFails /\ fault' = (fault \/ Dropping(t) \/ sealed')
      BY <3>2, Zenon DEF Told, TeardownFails
    <3>3. QED
      BY <2>4, <3>1, <3>2 DEF UnloadIo
  <2>5. QED
    BY <1>2, <2>1, <2>2, <2>3, <2>4 DEF ThreadStep
<1>3. ASSUME NEW c \in Clients, Disconnect(c) PROVE Told
  BY <1>3 DEF Told, Disconnect, BeginDrop, flags
<1>4. ASSUME NEW c \in Clients, Request(c) \/ ClientStep(c) \/ Revoke(c)
      PROVE  Told
  <2>1. CASE Request(c)
    BY <1>3, <2>1 DEF Told, Request, Accept, BeginLoad, BeginOpen, Infer, InferRefused, BeginUnload, flags
  <2>2. CASE Hello(c) \/ LoadLock(c) \/ LoadNative(c) \/ LoadCommit(c) \/ Answer(c) \/ Revoke(c)
    BY <2>2 DEF Told, Hello, LoadLock, LoadNative, LoadCommit, Answer, Revoke, flags
  <2>3. CASE OpenLock(c) \/ OpenOp(c) \/ OpenNative(c)
    BY <2>3 DEF Told, OpenLock, OpenOp, OpenNative, flags
  <2>4. CASE ThreadStep(c) \/ Leave(c)
    BY <1>2, <1>3, <2>4 DEF Threads, Leave
  <2>5. QED
    BY <1>4, <2>1, <2>2, <2>3, <2>4 DEF ClientStep
<1>5. CASE Close \/ CloserStep
  <2>1. Closer \in Threads
    BY DEF Threads
  <2>2. CASE CloseDrop
    BY <2>2 DEF Told, CloseDrop, BeginDrop, flags
  <2>3. CASE Close \/ CloseShut \/ CloseClear \/ Closed
    BY <2>3 DEF Told, Close, CloseShut, CloseClear, Closed, flags
  <2>4. CASE CloseRelease
    BY <2>4 DEF Told, CloseRelease, TeardownFails
  <2>5. QED
    BY <1>2, <1>5, <2>1, <2>2, <2>3, <2>4 DEF CloserStep
<1>6. CASE \/ \E j \in Jobs : Expire(j)
           \/ \E w \in Workers : WorkerStep(w)
  BY <1>6 DEF Told, Expire, WorkerStep, Pick, Discard, LockOp, OuterCheck, EnterGate, InnerAuthorize,
              InnerCheck, Refuse, Return, Finish, flags
<1>7. QED
  BY <1>1, <1>4, <1>5, <1>6 DEF Next

\* Steps that take no memory keep the budget.
LEMMA BudgetFrees ==
    ASSUME IInv, BudgetInv, TypeOK', ~fault', ~sealed', Releases, ChannelsKnown',
           \A c \in Clients : pc'[c] = "loadNative"
              => pc[c] = "loadNative" /\ arg'[c].key = arg[c].key
    PROVE  BudgetInv'
<1>1. TypeOK /\ Locals /\ IsFiniteSet(Loaded) /\ IsFiniteSet(BoundChannels) /\ Used <= Budget
  BY DEF IInv, BudgetInv
<1>2. /\ IsFiniteSet(Loaded)' /\ IsFiniteSet(BoundChannels)'
      /\ Used' <= Used /\ Used' \in Nat /\ Used \in Nat
  BY <1>1, UsedShrinks
<1>3. ASSUME NEW c \in Clients, pc'[c] = "loadNative"
      PROVE  Used' + Mem[arg'[c].key] <= Budget
  <2>1. pc[c] = "loadNative" /\ arg'[c].key = arg[c].key /\ c \in Threads
    BY <1>3 DEF Threads
  <2>2. arg[c].key \in Keys
    BY <1>1, <2>1 DEF Locals, LocalOf
  <2>3. Used + Mem[arg[c].key] <= Budget
    BY <2>1 DEF BudgetInv, LoadsInside
  <2>4. Mem[arg[c].key] \in Nat /\ Budget \in Nat
    BY <2>2, Sizes
  <2>5. QED
    BY <1>2, <2>1, <2>3, <2>4
<1>4. LoadsInside'
  BY <1>3 DEF LoadsInside
<1>5. Used' <= Budget
  BY <1>1, <1>2, Sizes
<1>6. QED
  BY <1>2, <1>4, <1>5 DEF BudgetInv

\* What is known of the channels, after a step of another than close().
LEMMA KnownStays ==
    ASSUME TypeOK, TypeOK', ChannelsKnown, Closer \in Threads,
           UNCHANGED snapshot, pc'[Closer] = pc[Closer], arg'[Closer] = arg[Closer],
           todo'[Closer] = todo[Closer], dropping'[Closer] = dropping[Closer],
           \A x \in Channels : buffers'[x] \in {buffers[x], None},
           \A c \in Clients, k \in Keys : io'[c][k] # None => io[c][k] # None,
           registered \subseteq registered',
           \A c \in Clients : pc'[c] \in Opening
              => c \in registered' \/ (pc[c] \in Opening /\ aliases'[c] \subseteq aliases[c])
    PROVE  ChannelsKnown'
<1>1. ASSUME NEW c \in Clients, NEW k \in Keys, io'[c][k] # None
      PROVE  (c \in registered' \/ Cleared') /\ Listed(c, k)'
  <2>1. (c \in registered \/ Cleared) /\ Listed(c, k)
    BY <1>1 DEF ChannelsKnown
  <2>2. QED
    BY <2>1 DEF Listed, Cleared
<1>2. \A c \in Clients : pc'[c] \in Opening => c \in registered' \/ aliases'[c] = {}
  BY DEF ChannelsKnown
<1>3. pc'[Closer] = "closed" => \A x \in Channels : buffers'[x] = None
  BY DEF ChannelsKnown
<1>4. QED
  BY <1>1, <1>2, <1>3 DEF ChannelsKnown

\* A step of a connection's thread that takes no memory.
LEMMA BudgetMoves ==
    ASSUME IInv, BudgetInv, TypeOK', ~fault', ~sealed', NEW c \in Clients, NEW l,
           pc' = [pc EXCEPT ![c] = l], l # "loadNative", UNCHANGED snapshot,
           \A u \in Threads : u # c => /\ arg'[u] = arg[u] /\ todo'[u] = todo[u]
                                       /\ dropping'[u] = dropping[u],
           Releases, registered \subseteq registered',
           \A d \in Clients, k \in Keys : io'[d][k] # None => io[d][k] # None,
           \A d \in Clients : d # c => aliases'[d] \subseteq aliases[d],
           l \in Opening => c \in registered' \/ (pc[c] \in Opening /\ aliases'[c] \subseteq aliases[c])
    PROVE  BudgetInv'
<1>1. /\ TypeOK /\ Places /\ ChannelsKnown /\ c \in Threads /\ c # Closer /\ Closer \in Threads
      /\ Clients \subseteq Threads
  BY Names DEF IInv, Threads, BudgetInv
<1>2. pc'[c] = l /\ \A u \in Threads : u # c => pc'[u] = pc[u]
  BY <1>1 DEF Places
<1>3. \A d \in Clients : pc'[d] \in Opening
         => d \in registered' \/ (pc[d] \in Opening /\ aliases'[d] \subseteq aliases[d])
  BY <1>1, <1>2
<1>4. ChannelsKnown'
  BY <1>1, <1>2, <1>3, KnownStays DEF Releases
<1>5. \A d \in Clients : pc'[d] = "loadNative" => pc[d] = "loadNative" /\ arg'[d].key = arg[d].key
  BY <1>1, <1>2
<1>6. QED
  BY <1>4, <1>5, BudgetFrees

\* Nobody's place changes.
LEMMA BudgetStill ==
    ASSUME IInv, BudgetInv, TypeOK', ~fault', ~sealed',
           UNCHANGED <<native, buffers, io, aliases, registered, pc, arg, todo, dropping, snapshot>>
    PROVE  BudgetInv'
<1>1. TypeOK /\ ChannelsKnown /\ Closer \in Threads
  BY DEF IInv, BudgetInv, Threads
<1>2. Releases
  BY DEF Releases
<1>3. ChannelsKnown'
  BY <1>1, <1>2, KnownStays DEF Releases
<1>4. QED
  BY <1>2, <1>3, BudgetFrees

\* Requests that take no memory, and a load that has ended.
LEMMA BudgetRequest ==
    ASSUME IInv, BudgetInv, TypeOK', ~fault', ~sealed', NEW c \in Clients,
           \/ Accept(c) \/ Hello(c) \/ BeginLoad(c) \/ BeginOpen(c) \/ OpenLock(c) \/ OpenOp(c)
           \/ Infer(c) \/ InferRefused(c) \/ Answer(c) \/ BeginUnload(c) \/ Disconnect(c)
           \/ LoadCommit(c)
    PROVE  BudgetInv'
<1>1. /\ TypeOK /\ Places /\ c \in Threads /\ c # Closer /\ Closer \in Threads
      /\ Clients \subseteq Threads /\ ~fault /\ Dropped
  BY Names DEF IInv, Threads, BudgetInv
<1>2. UNCHANGED <<native, buffers, io, snapshot>> /\ registered \subseteq registered'
  BY DEF Accept, Hello, BeginLoad, BeginOpen, OpenLock, OpenOp, Infer, InferRefused, Answer,
         BeginUnload, Disconnect, BeginDrop, LoadCommit, cache, channels, people
<1>3. \A u \in Threads : u # c => /\ arg'[u] = arg[u] /\ todo'[u] = todo[u]
                                  /\ dropping'[u] = dropping[u]
  BY <1>1 DEF Accept, Hello, BeginLoad, BeginOpen, OpenLock, OpenOp, Infer, InferRefused, Answer,
         BeginUnload, Disconnect, BeginDrop, LoadCommit, TypeOK, Places
<1>4. \A d \in Clients : d # c => aliases'[d] \subseteq aliases[d]
  BY <1>1 DEF Accept, Hello, BeginLoad, BeginOpen, OpenLock, OpenOp, Infer, InferRefused, Answer,
         BeginUnload, Disconnect, BeginDrop, LoadCommit, TypeOK
<1>5. \E l : /\ pc' = [pc EXCEPT ![c] = l] /\ l # "loadNative"
             /\ l \in Opening => c \in registered' \/ (pc[c] \in Opening /\ aliases'[c] \subseteq aliases[c])
  <2>1. CASE BeginOpen(c)
    <3>1. pc[c] = "idle" /\ ~Shut /\ registered' = registered
      BY <2>1 DEF BeginOpen, Admitted, people
    <3>2. c \in registered
      BY <1>1, <3>1 DEF Dropped, DropOf
    <3>3. QED
      BY <2>1, <3>1, <3>2 DEF BeginOpen, Goto
  <2>2. CASE OpenLock(c) \/ OpenOp(c)
    <3>1. pc[c] \in Opening /\ aliases'[c] \subseteq aliases[c]
      BY <2>2 DEF OpenLock, OpenOp, Opening
    <3>2. QED
      BY <2>2, <3>1 DEF OpenLock, OpenOp, Goto, AtRest
  <2>3. CASE \/ Accept(c) \/ Hello(c) \/ BeginLoad(c) \/ Infer(c) \/ InferRefused(c) \/ Answer(c)
             \/ BeginUnload(c) \/ Disconnect(c) \/ LoadCommit(c)
    <3>1. AtRest \notin Opening /\ AtRest # "loadNative"
      BY DEF AtRest, Opening
    <3>2. \E l : pc' = [pc EXCEPT ![c] = l] /\ l # "loadNative" /\ l \notin Opening
      <4>1. CASE Accept(c) \/ Hello(c) \/ BeginLoad(c) \/ BeginUnload(c)
        BY <3>1, <4>1 DEF Accept, Hello, BeginLoad, BeginUnload, Goto, Opening
      <4>2. CASE Infer(c) \/ InferRefused(c) \/ LoadCommit(c)
        BY <3>1, <4>2 DEF Infer, InferRefused, LoadCommit, Goto, Opening
      <4>3. CASE Answer(c)
        BY <3>1, <4>3 DEF Answer, Goto
      <4>4. CASE Disconnect(c)
        <5>1. pc' = [pc EXCEPT ![c] = "dropNext"]
          BY <4>4 DEF Disconnect, BeginDrop, Goto
        <5>2. "dropNext" # "loadNative" /\ "dropNext" \notin Opening
          BY DEF Opening
        <5>3. QED
          BY <5>1, <5>2
      <4>5. QED
        BY <2>3, <4>1, <4>2, <4>3, <4>4
    <3>3. QED
      BY <3>2
  <2>4. QED
    BY <2>1, <2>2, <2>3
<1>6. Releases /\ \A d \in Clients, k \in Keys : io'[d][k] # None => io[d][k] # None
  BY <1>2 DEF Releases
<1>7. QED
  BY <1>2, <1>3, <1>4, <1>5, <1>6, BudgetMoves

\* Workers, deadlines and revocation.
LEMMA BudgetOthers ==
    ASSUME IInv, BudgetInv, TypeOK', ~fault', ~sealed',
           \/ \E w \in Workers : WorkerStep(w)
           \/ \E j \in Jobs : Expire(j)
           \/ \E c \in Clients : Revoke(c)
           \/ UNCHANGED vars
    PROVE  BudgetInv'
<1>1. UNCHANGED <<native, buffers, io, aliases, registered, pc, arg, todo, dropping, snapshot>>
  BY DEF WorkerStep, Pick, Discard, LockOp, OuterCheck, EnterGate, InnerAuthorize, InnerCheck,
         Refuse, Return, Finish, Expire, Revoke, cache, channels, people, threads, vars
<1>2. QED
  BY <1>1, BudgetStill

\* An unload by the connection itself.
LEMMA BudgetUnload ==
    ASSUME IInv, BudgetInv, TypeOK', ~fault', ~sealed', NEW c \in Clients,
           UnloadLock(c) \/ UnloadOp(c) \/ UnloadIo(c) \/ UnloadRelease(c) \/ DropNext(c)
    PROVE  BudgetInv'
<1>1. /\ TypeOK /\ Places /\ c \in Threads /\ c # Closer
  BY Names DEF IInv, Threads
<1>2. Target(c) = c
  BY <1>1 DEF Target
<1>3. UNCHANGED <<registered, snapshot, dropping>>
  BY DEF UnloadLock, UnloadOp, UnloadIo, UnloadRelease, DropNext, people
<1>4. \A u \in Threads : u # c => arg'[u] = arg[u] /\ todo'[u] = todo[u]
  BY <1>1 DEF UnloadLock, UnloadOp, UnloadIo, UnloadRelease, DropNext, UnloadReturns, TypeOK, Places
<1>5. \E l : pc' = [pc EXCEPT ![c] = l] /\ l # "loadNative" /\ l \notin Opening
  <2>1. AtRest # "loadNative" /\ AtRest \notin Opening
    BY DEF AtRest, Opening
  <2>2. AfterUnload(c) # "loadNative" /\ AfterUnload(c) \notin Opening
    BY <2>1 DEF AfterUnload, Opening
  <2>3. QED
    BY <2>1, <2>2 DEF UnloadLock, UnloadOp, UnloadIo, UnloadRelease, DropNext, UnloadReturns, Goto,
                      Opening
<1>6. \A d \in Clients : d # c => aliases'[d] \subseteq aliases[d]
  <2>1. aliases' = aliases \/ aliases' = [aliases EXCEPT ![c] = aliases[c] \ {arg[c].key}]
    BY <1>2 DEF UnloadLock, UnloadOp, UnloadIo, UnloadRelease, DropNext
  <2>2. aliases \in [Clients -> SUBSET Keys]
    BY <1>1 DEF TypeOK
  <2>3. QED
    BY <2>1, <2>2
<1>7. \A d \in Clients, k \in Keys : io'[d][k] # None => io[d][k] # None
  <2>1. io' = io \/ io' = [io EXCEPT ![c][arg[c].key] = None]
    BY <1>2 DEF UnloadLock, UnloadOp, UnloadIo, UnloadRelease, DropNext, channels
  <2>2. io \in [Clients -> [Keys -> Channels \cup {None}]]
    BY <1>1 DEF TypeOK
  <2>3. QED
    BY <2>1, <2>2
<1>8. Releases
  <2>1. buffers' = buffers \/ buffers' = [buffers EXCEPT ![io[c][arg[c].key]] = None]
    BY <1>2 DEF UnloadLock, UnloadOp, UnloadIo, UnloadRelease, DropNext, channels
  <2>2. native' = native \/ native' = [native EXCEPT ![arg[c].handle] = None]
    BY DEF UnloadLock, UnloadOp, UnloadIo, UnloadRelease, DropNext, cache
  <2>3. QED
    BY <1>1, <2>1, <2>2 DEF Releases, TypeOK
<1>9. QED
  BY <1>1, <1>3, <1>4, <1>5, <1>6, <1>7, <1>8, BudgetMoves

\* A load that passes the budget has its place in it.
LEMMA BudgetLoadLock ==
    ASSUME IInv, BudgetInv, TypeOK', ~fault', ~sealed', NEW c \in Clients, LoadLock(c)
    PROVE  BudgetInv'
<1> DEFINE k == arg[c].key
<1>1. /\ TypeOK /\ Places /\ c \in Threads /\ c # Closer /\ Closer \in Threads
      /\ Clients \subseteq Threads /\ Locals /\ Locks /\ ChannelsKnown
  BY Names DEF IInv, Threads, BudgetInv
<1>2. /\ pc[c] = "loadLock" /\ drv = None
      /\ UNCHANGED <<native, buffers, io, aliases, registered, snapshot, todo, dropping>>
  BY DEF LoadLock, cache, channels, people
<1>3. Releases
  BY <1>2 DEF Releases
<1>4. \A u \in Threads : u # c => arg'[u] = arg[u]
  BY <1>1 DEF LoadLock, TypeOK
<1>5. ASSUME NEW l, l # "loadNative", l \notin Opening, pc' = [pc EXCEPT ![c] = l]
      PROVE  BudgetInv'
  BY <1>2, <1>3, <1>4, <1>5, BudgetMoves
<1>6. CASE pc' = [pc EXCEPT ![c] = "loadNative"] /\ LoadFits(c, k) /\ models[k] = None
  <2>1. k \in Keys
    BY <1>1, <1>2 DEF Locals, LocalOf
  <2>2. arg' = [arg EXCEPT ![c].handle = models[k]]
    BY <1>6 DEF LoadLock
  <2>3. /\ arg'[c].key = k /\ pc'[c] = "loadNative"
        /\ \A u \in Threads : u # c => pc'[u] = pc[u]
    BY <1>1, <1>6, <2>2 DEF TypeOK, Places
  <2>4. pc[Closer] # "closeRelease"
    <3>1. LocksOf(Closer) /\ Closer # None
      BY <1>1, Names DEF Locks
    <3>2. QED
      BY <1>2, <3>1 DEF LocksOf, Driving
  <2>5. Used + Mem[k] <= Budget
    <3>1. Used <= Reserved /\ Used \in Nat /\ Reserved \in Nat
      BY <2>4, UsedIsReserved
    <3>2. Reserved + Mem[k] <= Budget
      BY <1>6 DEF LoadFits
    <3>3. Mem[k] \in Nat /\ Budget \in Nat
      BY <2>1, Sizes
    <3>4. QED
      BY <3>1, <3>2, <3>3
  <2>6. ChannelsKnown'
    <3>1. \A d \in Clients : pc'[d] \in Opening
             => d \in registered' \/ (pc[d] \in Opening /\ aliases'[d] \subseteq aliases[d])
      BY <1>1, <1>2, <2>3 DEF Opening
    <3>2. QED
      BY <1>1, <1>2, <1>3, <1>4, <2>3, <3>1, KnownStays DEF Releases
  <2>7. UNCHANGED <<Loaded, BoundChannels, Used>>
    BY <1>2 DEF Loaded, BoundChannels, Used
  <2>8. ASSUME NEW d \in Clients, pc'[d] = "loadNative"
        PROVE  Used' + Mem[arg'[d].key] <= Budget
    <3>1. CASE d = c
      BY <2>3, <2>5, <2>7, <3>1
    <3>2. CASE d # c
      <4>1. pc[d] = "loadNative" /\ arg'[d] = arg[d]
        BY <1>1, <1>4, <2>3, <2>8, <3>2
      <4>2. QED
        BY <2>7, <4>1 DEF BudgetInv, LoadsInside
    <3>3. QED
      BY <3>1, <3>2
  <2>9. LoadsInside'
    BY <2>8 DEF LoadsInside
  <2>10. QED
    BY <2>6, <2>7, <2>9 DEF BudgetInv
<1>7. \/ pc' = [pc EXCEPT ![c] = "loadNative"] /\ LoadFits(c, k) /\ models[k] = None
      \/ pc' = [pc EXCEPT ![c] = "loadCommit"]
      \/ pc' = [pc EXCEPT ![c] = AtRest]
  BY DEF LoadLock, Goto
<1>8. "loadCommit" \notin Opening /\ AtRest # "loadNative" /\ AtRest \notin Opening
  BY DEF AtRest, Opening
<1>9. QED
  BY <1>5, <1>6, <1>7, <1>8

\* The context the load allocates takes the place that was kept for it.
LEMMA BudgetLoadNative ==
    ASSUME IInv, BudgetInv, TypeOK', ~fault', ~sealed', NEW c \in Clients, LoadNative(c)
    PROVE  BudgetInv'
<1> DEFINE k == arg[c].key
<1>1. /\ TypeOK /\ Places /\ c \in Threads /\ c # Closer /\ Closer \in Threads
      /\ Clients \subseteq Threads /\ Locals /\ Locks /\ Buffers /\ ChannelsKnown /\ ~fault
      /\ IsFiniteSet(Loaded) /\ IsFiniteSet(BoundChannels)
  BY Names DEF IInv, Threads, BudgetInv
<1>2. /\ pc[c] = "loadNative"
      /\ UNCHANGED <<buffers, io, aliases, registered, snapshot, todo, dropping>>
  BY DEF LoadNative, channels, people
<1>3. k \in Keys
  BY <1>1, <1>2 DEF Locals, LocalOf
<1>4. \A u \in Threads : u # c => arg'[u] = arg[u]
  BY <1>1 DEF LoadNative, TypeOK
<1>5. CASE UNCHANGED cache /\ pc' = [pc EXCEPT ![c] = AtRest]
  <2>1. AtRest # "loadNative" /\ AtRest \notin Opening
    BY DEF AtRest, Opening
  <2>2. Releases
    BY <1>2, <1>5 DEF Releases, cache
  <2>3. QED
    BY <1>2, <1>4, <1>5, <2>1, <2>2, BudgetMoves
<1>6. ASSUME NEW h \in Handles, ~InUse(h), native' = [native EXCEPT ![h] = k],
             pc' = [pc EXCEPT ![c] = "loadCommit"]
      PROVE  BudgetInv'
  <2> DEFINE f == [i \in Loaded |-> Mem[native[i]]]
             d == [i \in Loaded' |-> Mem[native'[i]]]
             g == [x \in BoundChannels |-> IoMem[native[buffers[x]]]]
             e == [x \in BoundChannels' |-> IoMem[native'[buffers'[x]]]]
  <2>1. /\ native[h] = None /\ native'[h] = k /\ k # None
        /\ \A i \in Handles : i # h => native'[i] = native[i]
    BY <1>1, <1>3, <1>6, Names DEF InUse, TypeOK
  <2>2. pc'[c] = "loadCommit" /\ \A u \in Threads : u # c => pc'[u] = pc[u]
    BY <1>1, <1>6 DEF Places
  <2>3. \A i : ~Owed(i)
    <3>1. LocksOf(c) /\ LocksOf(Closer)
      BY <1>1 DEF Locks
    <3>2. QED
      BY <1>1, <1>2, <3>1 DEF LocksOf, Driving, Owed
  <2>4. \A x \in Channels : buffers[x] # h
    <3> SUFFICES ASSUME NEW x \in Channels, buffers[x] = h
                 PROVE  FALSE
      OBVIOUS
    <3>1. OwnBuffer(x)
      BY <1>1, <1>6, <2>3, Names DEF Buffers
    <3>2. PICK b \in Clients : \E l \in aliases[b] : models[l] = h
      BY <3>1 DEF OwnBuffer
    <3>3. aliases[b] \subseteq Keys
      BY <1>1 DEF TypeOK
    <3>4. QED
      BY <1>6, <3>2, <3>3 DEF InUse
  <2>5. Loaded' = Loaded \cup {h} /\ h \notin Loaded
    BY <2>1 DEF Loaded
  <2>6. BoundChannels' = BoundChannels
    <3>1. \A x \in Channels : buffers[x] # None => native'[buffers[x]] = native[buffers[x]]
      BY <1>1, <2>1, <2>4 DEF TypeOK
    <3>2. QED
      BY <1>2, <3>1 DEF BoundChannels
  <2>7. \A x \in BoundChannels : native'[buffers'[x]] = native[buffers[x]]
    <3> SUFFICES ASSUME NEW x \in BoundChannels
                 PROVE  native'[buffers[x]] = native[buffers[x]]
      BY <1>2
    <3>1. x \in Channels /\ buffers[x] \in Handles
      BY <1>1, UsedIs
    <3>2. QED
      BY <2>1, <2>4, <3>1
  <2>8. Used = Sum(f, Loaded) + Sum(g, BoundChannels)
    BY DEF Used
  <2>9. Used' = Sum(d, Loaded \cup {h}) + Sum(g, BoundChannels)
    <3>1. Used' = Sum(d, Loaded') + Sum(e, BoundChannels')
      BY DEF Used
    <3>2. e = g
      BY <2>6, <2>7
    <3>3. QED
      BY <2>5, <2>6, <3>1, <3>2
  <2>10. (\A i \in Loaded : d[i] = f[i] /\ f[i] \in Nat) /\ d[h] = Mem[k] /\ Mem[k] \in Nat
    <3>1. \A i \in Loaded : i \in Handles /\ f[i] \in Nat
      BY <1>1, UsedIs
    <3>2. Mem[k] \in Nat
      BY <1>3, Sizes
    <3>3. QED
      BY <2>1, <2>5, <3>1, <3>2
  <2>11. /\ Sum(d, Loaded \cup {h}) <= Sum(d, Loaded) + Mem[k]
         /\ Sum(d, Loaded) = Sum(f, Loaded) /\ Sum(f, Loaded) \in Nat
         /\ Sum(d, Loaded \cup {h}) \in Nat /\ IsFiniteSet(Loaded \cup {h})
    <3> HIDE DEF d, f, k
    <3>1. IsFiniteSet(Loaded \cup {h})
      BY <1>1, FS_AddElement
    <3>2. \A i \in Loaded \cup {h} : d[i] \in Nat
      BY <2>10
    <3>3. Sum(d, Loaded \cup {h}) <= Sum(d, Loaded) + d[h]
      BY <1>1, <3>2, SumOneMore
    <3>4. Sum(d, Loaded) = Sum(f, Loaded)
      BY <2>10, SumSame
    <3>5. Sum(f, Loaded) \in Nat /\ Sum(d, Loaded \cup {h}) \in Nat
      BY <1>1, <2>10, <3>1, <3>2, SumType
    <3>6. QED
      BY <2>10, <3>1, <3>3, <3>4, <3>5
  <2>12. Sum(g, BoundChannels) \in Nat
    BY <1>1, UsedType
  <2>13. Used + Mem[k] <= Budget /\ Budget \in Nat
    BY <1>2, Sizes DEF BudgetInv, LoadsInside
  <2>14. Used' <= Budget
    <3> HIDE DEF d, f, g, k
    <3> QED
      BY <2>8, <2>9, <2>10, <2>11, <2>12, <2>13
  <2>15. LoadsInside'
    <3> SUFFICES ASSUME NEW b \in Clients, pc'[b] = "loadNative"
                 PROVE  FALSE
      BY DEF LoadsInside
    <3>1. b # c /\ pc[b] = "loadNative"
      BY <1>1, <2>2
    <3>2. QED
      BY <1>2, <3>1, OneLoads DEF Driving
  <2>16. ChannelsKnown'
    <3>1. \A b \in Clients : pc'[b] \in Opening
             => b \in registered' \/ (pc[b] \in Opening /\ aliases'[b] \subseteq aliases[b])
      BY <1>1, <1>2, <2>2 DEF Opening
    <3>2. QED
      BY <1>1, <1>2, <1>4, <2>2, <3>1, KnownStays
  <2>17. IsFiniteSet(Loaded)' /\ IsFiniteSet(BoundChannels)'
    BY <1>1, <2>5, <2>6, <2>11
  <2>18. QED
    BY <2>14, <2>15, <2>16, <2>17 DEF BudgetInv
<1>7. QED
  BY <1>5, <1>6 DEF LoadNative, Goto

\* A channel that passes the budget takes what the check found free.
LEMMA BudgetOpenNative ==
    ASSUME IInv, BudgetInv, TypeOK', ~fault', ~sealed', NEW c \in Clients, OpenNative(c)
    PROVE  BudgetInv'
<1> DEFINE k == arg[c].key
           h == arg[c].handle
<1>1. /\ TypeOK /\ Places /\ c \in Threads /\ c # Closer /\ Closer \in Threads
      /\ Clients \subseteq Threads /\ Locals /\ Locks /\ Contexts /\ Dropped /\ ChannelsKnown
      /\ ~fault /\ IsFiniteSet(Loaded) /\ IsFiniteSet(BoundChannels) /\ c # None
  BY Names DEF IInv, Threads, BudgetInv
<1>2. /\ pc[c] = "openNative"
      /\ UNCHANGED <<native, models, aliases, registered, snapshot, todo, dropping>>
      /\ pc' = [pc EXCEPT ![c] = AtRest] /\ arg' = [arg EXCEPT ![c] = NoArg]
  BY DEF OpenNative, cache, people, Goto
<1>3. k \in Keys /\ k \in aliases[c] /\ h \in Handles /\ models[k] = h
  BY <1>1, <1>2 DEF Locals, LocalOf
<1>4. \A u \in Threads : u # c => arg'[u] = arg[u]
  BY <1>1, <1>2 DEF TypeOK
<1>5. AtRest # "loadNative" /\ AtRest \notin Opening
  BY DEF AtRest, Opening
<1>6. CASE UNCHANGED channels
  <2>1. Releases /\ io' = io
    BY <1>2, <1>6 DEF Releases, channels
  <2>2. QED
    BY <1>2, <1>4, <1>5, <2>1, BudgetMoves
<1>7. ASSUME NEW x \in Channels, ~ChannelInUse(x), ChannelFits(c, k),
             io' = [io EXCEPT ![c][k] = x], buffers' = [buffers EXCEPT ![x] = h]
      PROVE  BudgetInv'
  <2> DEFINE f == [i \in Loaded |-> Mem[native[i]]]
             d == [i \in Loaded' |-> Mem[native'[i]]]
             g == [y \in BoundChannels |-> IoMem[native[buffers[y]]]]
             e == [y \in BoundChannels' |-> IoMem[native'[buffers'[y]]]]
  <2>1. /\ buffers[x] = None /\ buffers'[x] = h /\ native[h] = k /\ k # None /\ h # None
        /\ \A y \in Channels : y # x => buffers'[y] = buffers[y]
    <3>1. h # None /\ k # None
      BY <1>3, Names
    <3>2. native[h] = k
      BY <1>1, <1>3, <3>1 DEF Contexts
    <3>3. QED
      BY <1>1, <1>7, <3>1, <3>2 DEF ChannelInUse, TypeOK
  <2>2. Loaded' = Loaded
    BY <1>2 DEF Loaded
  <2>3. BoundChannels' = BoundChannels \cup {x} /\ x \notin BoundChannels
    BY <1>2, <2>1 DEF BoundChannels
  <2>4. pc[Closer] # "closeRelease"
    <3>1. LocksOf(c) /\ LocksOf(Closer)
      BY <1>1 DEF Locks
    <3>2. QED
      BY <1>1, <1>2, <3>1 DEF LocksOf, Driving
  <2>5. Used + IoMem[k] <= Budget
    <3>1. Used <= Reserved /\ Used \in Nat /\ Reserved \in Nat
      BY <2>4, UsedIsReserved
    <3>2. Reserved + IoMem[k] <= Budget
      BY <1>7 DEF ChannelFits
    <3>3. IoMem[k] \in Nat /\ Budget \in Nat
      BY <1>3, Sizes
    <3>4. QED
      BY <3>1, <3>2, <3>3
  <2>6. Used = Sum(f, Loaded) + Sum(g, BoundChannels)
    BY DEF Used
  <2>7. Used' = Sum(f, Loaded) + Sum(e, BoundChannels \cup {x})
    <3>1. Used' = Sum(d, Loaded') + Sum(e, BoundChannels')
      BY DEF Used
    <3>2. d = f
      BY <1>2, <2>2
    <3>3. QED
      BY <2>2, <2>3, <3>1, <3>2
  <2>8. /\ \A y \in BoundChannels : e[y] = g[y] /\ g[y] \in Nat
        /\ e[x] = IoMem[k] /\ IoMem[k] \in Nat
    <3>1. \A y \in BoundChannels : y \in Channels /\ g[y] \in Nat
      BY <1>1, UsedIs
    <3>2. IoMem[k] \in Nat
      BY <1>3, Sizes
    <3>3. \A y \in BoundChannels : e[y] = g[y]
      BY <1>2, <2>1, <2>3, <3>1
    <3>4. e[x] = IoMem[k]
      BY <1>2, <2>1, <2>3
    <3>5. QED
      BY <3>1, <3>2, <3>3, <3>4
  <2>9. /\ Sum(e, BoundChannels \cup {x}) <= Sum(e, BoundChannels) + IoMem[k]
        /\ Sum(e, BoundChannels) = Sum(g, BoundChannels) /\ Sum(g, BoundChannels) \in Nat
        /\ Sum(e, BoundChannels \cup {x}) \in Nat /\ IsFiniteSet(BoundChannels \cup {x})
    <3> HIDE DEF e, g, k
    <3>1. IsFiniteSet(BoundChannels \cup {x})
      BY <1>1, FS_AddElement
    <3>2. \A y \in BoundChannels \cup {x} : e[y] \in Nat
      BY <2>8
    <3>3. Sum(e, BoundChannels \cup {x}) <= Sum(e, BoundChannels) + e[x]
      BY <1>1, <3>2, SumOneMore
    <3>4. Sum(e, BoundChannels) = Sum(g, BoundChannels)
      BY <2>8, SumSame
    <3>5. Sum(g, BoundChannels) \in Nat /\ Sum(e, BoundChannels \cup {x}) \in Nat
      BY <1>1, <2>8, <3>1, <3>2, SumType
    <3>6. QED
      BY <2>8, <3>1, <3>3, <3>4, <3>5
  <2>10. Sum(f, Loaded) \in Nat /\ Budget \in Nat
    BY <1>1, UsedType, Sizes
  <2>11. Used' <= Budget
    <3> HIDE DEF d, f, g, e, k
    <3> QED
      BY <2>5, <2>6, <2>7, <2>8, <2>9, <2>10
  <2>12. /\ \A u \in Threads : u # c => pc'[u] = pc[u]
         /\ pc'[c] = AtRest
    BY <1>1, <1>2 DEF Places
  <2>13. LoadsInside'
    <3> SUFFICES ASSUME NEW b \in Clients, pc'[b] = "loadNative"
                 PROVE  FALSE
      BY DEF LoadsInside
    <3>1. b # c /\ pc[b] = "loadNative"
      BY <1>1, <1>5, <2>12
    <3>2. QED
      BY <1>2, <3>1, OneLoads DEF Driving
  <2>14. c \in registered
    BY <1>1, <1>2, <1>3 DEF ChannelsKnown, Opening
  <2>15. /\ pc'[Closer] = pc[Closer] /\ arg'[Closer] = arg[Closer]
         /\ todo' = todo /\ dropping' = dropping
    BY <1>1, <1>2, <1>4, <2>12
  <2>16. Listed(c, k)
    <3> SUFFICES ASSUME c = dropping[Closer]
                 PROVE  Listed(c, k)
      BY DEF Listed
    <3>1. pc[Closer] \in Ending
      BY <1>1 DEF Places, PlaceOf
    <3>2. Shut
      BY <3>1 DEF Shut, Ending, Unloading
    <3>3. LateOpen(c) /\ c \notin snapshot
      BY <1>1 DEF Dropped, ChannelsKnown
    <3>4. QED
      BY <1>2, <1>3, <3>2, <3>3 DEF LateOpen, Opening, Listed, Unloading
  <2>17. pc[Closer] # "closed"
    <3> SUFFICES ASSUME pc[Closer] = "closed"
                 PROVE  FALSE
      OBVIOUS
    <3>1. snapshot = {} /\ dropping[Closer] = None /\ Shut
      BY <1>1 DEF Places, PlaceOf, Cleared, Ending, Unloading, Shut
    <3>2. LateOpen(c)
      BY <1>1 DEF Dropped
    <3>3. QED
      BY <1>1, <1>2, <1>3, <3>1, <3>2 DEF LateOpen, Opening
  <2>18. ChannelsKnown'
    <3>1. ASSUME NEW b \in Clients, NEW l \in Keys, io'[b][l] # None
          PROVE  (b \in registered' \/ Cleared') /\ Listed(b, l)'
      <4>1. CASE b = c /\ l = k
        BY <1>2, <2>14, <2>15, <2>16, <4>1 DEF Listed
      <4>2. CASE ~(b = c /\ l = k)
        <5>1. io'[b][l] = io[b][l]
          BY <1>1, <1>7, <4>2 DEF TypeOK
        <5>2. (b \in registered \/ Cleared) /\ Listed(b, l)
          BY <1>1, <3>1, <5>1 DEF ChannelsKnown
        <5>3. QED
          BY <1>2, <2>15, <5>2 DEF Listed, Cleared
      <4>3. QED
        BY <4>1, <4>2
    <3>2. \A b \in Clients : pc'[b] \in Opening => b \in registered' \/ aliases'[b] = {}
      <4>1. \A b \in Clients : pc'[b] \in Opening => pc[b] \in Opening
        BY <1>1, <1>5, <2>12
      <4>2. QED
        BY <1>1, <1>2, <4>1 DEF ChannelsKnown
    <3>3. dropping'[Closer] \notin snapshot'
      BY <1>1, <1>2 DEF ChannelsKnown
    <3>4. QED
      BY <2>15, <2>17, <3>1, <3>2, <3>3 DEF ChannelsKnown
  <2>19. IsFiniteSet(Loaded)' /\ IsFiniteSet(BoundChannels)'
    BY <1>1, <2>2, <2>3, <2>9
  <2>20. QED
    BY <2>11, <2>13, <2>18, <2>19 DEF BudgetInv
<1>8. QED
  BY <1>6, <1>7 DEF OpenNative

\* A connection that ends by itself has given its channels back.
LEMMA BudgetDropEnd ==
    ASSUME IInv, BudgetInv, TypeOK', ~fault', ~sealed', NEW c \in Clients, DropEnd(c)
    PROVE  BudgetInv'
<1>1. /\ TypeOK /\ Places /\ c \in Threads /\ c # Closer /\ Closer \in Threads
      /\ Clients \subseteq Threads /\ Dropped /\ Buffers /\ ChannelsKnown /\ ~fault
  BY Names DEF IInv, Threads, BudgetInv
<1>2. /\ pc[c] = "dropEnd" /\ registered' = registered \ {dropping[c]}
      /\ dropping' = [dropping EXCEPT ![c] = None] /\ todo' = [todo EXCEPT ![c] = {}]
      /\ pc' = [pc EXCEPT ![c] = "gone"]
      /\ UNCHANGED <<native, buffers, io, aliases, arg, snapshot>>
  BY <1>1 DEF DropEnd, Goto, cache, channels
<1>3. dropping[c] = c /\ aliases[c] = {}
  BY <1>1, <1>2 DEF Places, PlaceOf, Dropped, DropOf
<1>4. /\ pc'[c] = "gone" /\ \A u \in Threads : u # c => pc'[u] = pc[u]
      /\ dropping'[Closer] = dropping[Closer] /\ todo'[Closer] = todo[Closer]
  BY <1>1, <1>2 DEF Places, TypeOK
<1>5. ASSUME NEW b \in Clients, NEW l \in Keys, io'[b][l] # None
      PROVE  (b \in registered' \/ Cleared') /\ Listed(b, l)'
  <2>1. (b \in registered \/ Cleared) /\ Listed(b, l)
    BY <1>1, <1>2, <1>5 DEF ChannelsKnown
  <2>2. Cleared' = Cleared /\ Listed(b, l)'
    BY <1>1, <1>2, <1>4, <2>1 DEF Cleared, Listed
  <2>3. ~Cleared => b # c
    BY <1>1, <1>2, <1>3, <1>5 DEF Buffers
  <2>4. QED
    BY <1>2, <1>3, <2>1, <2>2, <2>3
<1>6. \A b \in Clients : pc'[b] \in Opening => b \in registered' \/ aliases'[b] = {}
  <2>1. \A b \in Clients : pc'[b] \in Opening => b # c /\ pc[b] \in Opening
    BY <1>1, <1>4 DEF Opening
  <2>2. QED
    BY <1>1, <1>2, <1>3, <2>1 DEF ChannelsKnown
<1>7. ChannelsKnown'
  <2>1. dropping'[Closer] \notin snapshot'
    BY <1>1, <1>2, <1>4 DEF ChannelsKnown
  <2>2. pc'[Closer] = "closed" => \A x \in Channels : buffers'[x] = None
    BY <1>1, <1>2, <1>4 DEF ChannelsKnown
  <2>3. QED
    BY <1>5, <1>6, <2>1, <2>2 DEF ChannelsKnown
<1>8. Releases
  BY <1>2 DEF Releases
<1>9. \A b \in Clients : pc'[b] = "loadNative" => pc[b] = "loadNative" /\ arg'[b].key = arg[b].key
  BY <1>1, <1>2, <1>4
<1>10. QED
  BY <1>7, <1>8, <1>9, BudgetFrees

\* A step of the thread that closes the service.
LEMMA BudgetCloses ==
    ASSUME IInv, BudgetInv, TypeOK', ~fault', ~sealed', Releases,
           \A c \in Clients : pc'[c] = pc[c] /\ arg'[c] = arg[c] /\ aliases'[c] \subseteq aliases[c],
           \A c \in Clients, k \in Keys : io'[c][k] # None =>
              io[c][k] # None /\ (c \in registered' \/ Cleared') /\ Listed(c, k)',
           \A c \in Clients : pc[c] \in Opening /\ c \in registered /\ aliases[c] # {}
              => c \in registered',
           dropping'[Closer] \notin snapshot',
           pc'[Closer] = "closed" => \A x \in Channels : buffers[x] = None
    PROVE  BudgetInv'
<1>1. ASSUME NEW c \in Clients, pc'[c] \in Opening PROVE c \in registered' \/ aliases'[c] = {}
  <2>1. pc[c] \in Opening
    BY <1>1
  <2>2. c \in registered \/ aliases[c] = {}
    BY <2>1 DEF BudgetInv, ChannelsKnown
  <2>3. QED
    BY <2>1, <2>2
<1>2. pc'[Closer] = "closed" => \A x \in Channels : buffers'[x] = None
  BY DEF Releases
<1>3. ChannelsKnown'
  BY <1>1, <1>2 DEF ChannelsKnown
<1>4. \A c \in Clients : pc'[c] = "loadNative" => pc[c] = "loadNative" /\ arg'[c].key = arg[c].key
  OBVIOUS
<1>5. QED
  BY <1>3, <1>4, BudgetFrees

\* Where it stands, and what is known of the others.
LEMMA ClosingIs ==
    ASSUME IInv, BudgetInv
    PROVE  /\ TypeOK /\ Places /\ Closer \in Threads /\ Clients \subseteq Threads
           /\ Closer \notin Clients /\ ChannelsKnown /\ None \notin Clients
           /\ ~fault /\ Contexts /\ Buffers /\ Dropped
BY Names DEF IInv, BudgetInv, Threads

\* Outside of a drop it has no client.
LEMMA CloserFree ==
    ASSUME IInv, pc[Closer] \notin Ending
    PROVE  dropping[Closer] = None
<1>1. Closer \in Threads /\ PlaceOf(Closer)
  BY DEF IInv, Places, Threads
<1>2. QED
  BY <1>1 DEF PlaceOf

\* close() up to where it drops its clients, and after.
LEMMA BudgetClose ==
    ASSUME IInv, BudgetInv, TypeOK', ~fault', ~sealed',
           Close \/ CloseShut \/ CloseClear \/ CloseRelease \/ Closed
    PROVE  BudgetInv'
<1>1. /\ TypeOK /\ Places /\ Closer \in Threads /\ Clients \subseteq Threads
      /\ Closer \notin Clients /\ ChannelsKnown /\ None \notin Clients
  BY ClosingIs
<1>2. /\ pc[Closer] \in {"serving", "closing", "dropEach", "closeRelease"}
      /\ pc' = pc \/ \E l : pc' = [pc EXCEPT ![Closer] = l]
      /\ UNCHANGED <<arg, aliases, io, registered, dropping>>
      /\ snapshot' \in {snapshot, registered}
  <2>1. CASE Close \/ CloseShut
    BY <2>1 DEF Close, CloseShut, Goto, channels, people
  <2>2. CASE CloseClear \/ CloseRelease \/ Closed
    BY <2>2 DEF CloseClear, CloseRelease, Closed, Goto, channels, people
  <2>3. QED
    BY <2>1, <2>2
<1>3. dropping[Closer] = None
  BY <1>2, CloserFree DEF Ending, Unloading
<1>4. \A c \in Clients : pc'[c] = pc[c] /\ arg'[c] = arg[c] /\ aliases'[c] \subseteq aliases[c]
  BY <1>1, <1>2 DEF Places
<1>5. Releases
  <2>1. CASE CloseRelease
    BY <1>1, <2>1 DEF CloseRelease, Releases, TypeOK
  <2>2. CASE Close \/ CloseShut \/ CloseClear \/ Closed
    BY <2>2 DEF Close, CloseShut, CloseClear, Closed, Releases, cache, channels
  <2>3. QED
    BY <2>1, <2>2
<1>6. Cleared => Cleared'
  <2>1. CASE Close \/ CloseShut \/ CloseClear
    BY <2>1 DEF Close, CloseShut, CloseClear, Cleared
  <2>2. CASE CloseRelease
    BY <2>2 DEF CloseRelease, Cleared
  <2>3. CASE Closed
    BY <1>1, <2>3 DEF Closed, Cleared, Goto, Places
  <2>4. QED
    BY <2>1, <2>2, <2>3
<1>7. ASSUME NEW c \in Clients, NEW k \in Keys, io'[c][k] # None
      PROVE  io[c][k] # None /\ (c \in registered' \/ Cleared') /\ Listed(c, k)'
  <2>1. io[c][k] # None /\ (c \in registered \/ Cleared)
    BY <1>1, <1>2, <1>7 DEF ChannelsKnown
  <2>2. Listed(c, k)'
    BY <1>1, <1>2, <1>3 DEF Listed
  <2>3. QED
    BY <1>2, <1>6, <2>1, <2>2
<1>8. dropping'[Closer] \notin snapshot'
  BY <1>1, <1>2, <1>3 DEF TypeOK
<1>9. ASSUME pc'[Closer] = "closed" PROVE \A x \in Channels : buffers[x] = None
  <2>1. Closed
    BY <1>1, <1>9 DEF Close, CloseShut, CloseClear, CloseRelease, Goto, Places
  <2>2. pc[Closer] = "closeRelease" /\ todo[Closer] = {}
    BY <2>1 DEF Closed
  <2>3. SUFFICES ASSUME NEW x \in Channels, buffers[x] # None
                 PROVE  FALSE
    OBVIOUS
  <2>4. OwnBuffer(x)
    BY <2>2, <2>3, ClosingIs DEF Buffers, Owed
  <2>5. PICK c \in Clients : \E k \in aliases[c] : models[k] = buffers[x]
    BY <2>4 DEF OwnBuffer
  <2>6. PICK k \in aliases[c] : models[k] = buffers[x]
    BY <2>5
  <2>7. k \in Keys
    BY <1>1 DEF TypeOK
  <2>8. models[k] = None
    BY <2>2, <2>7, ClosingIs DEF Contexts
  <2>9. QED
    BY <2>3, <2>6, <2>8
<1>10. QED
  BY <1>2, <1>4, <1>5, <1>7, <1>8, <1>9, BudgetCloses

\* It takes the next client of its snapshot, with all of its channels.
LEMMA BudgetCloseDrop ==
    ASSUME IInv, BudgetInv, TypeOK', ~fault', ~sealed', CloseDrop
    PROVE  BudgetInv'
<1>1. PICK d \in snapshot : /\ pc[Closer] = "dropEach" /\ snapshot' = snapshot \ {d}
                            /\ BeginDrop(Closer, d)
  BY DEF CloseDrop
<1>2. /\ TypeOK /\ Places /\ Closer \in Threads /\ Clients \subseteq Threads
      /\ Closer \notin Clients /\ ChannelsKnown /\ Buffers
  BY ClosingIs
<1>3. /\ dropping' = [dropping EXCEPT ![Closer] = d] /\ todo' = [todo EXCEPT ![Closer] = aliases[d]]
      /\ pc' = [pc EXCEPT ![Closer] = "dropNext"]
      /\ UNCHANGED <<native, buffers, io, aliases, arg, registered>>
  BY <1>1 DEF BeginDrop, Goto, cache, channels
<1>4. dropping'[Closer] = d /\ todo'[Closer] = aliases[d] /\ pc'[Closer] = "dropNext"
  BY <1>2, <1>3 DEF TypeOK, Places
<1>5. \A c \in Clients : pc'[c] = pc[c] /\ arg'[c] = arg[c] /\ aliases'[c] \subseteq aliases[c]
  BY <1>2, <1>3 DEF Places
<1>6. Releases
  BY <1>3 DEF Releases
<1>7. ASSUME NEW c \in Clients, NEW k \in Keys, io'[c][k] # None
      PROVE  io[c][k] # None /\ (c \in registered' \/ Cleared') /\ Listed(c, k)'
  <2>1. ~Cleared
    BY <1>1 DEF Cleared
  <2>2. c \in registered /\ k \in aliases[c]
    BY <1>2, <1>3, <1>7, <2>1 DEF ChannelsKnown, Buffers
  <2>3. Listed(c, k)'
    BY <1>4, <2>2 DEF Listed
  <2>4. QED
    BY <1>3, <1>7, <2>2, <2>3
<1>8. QED
  BY <1>1, <1>3, <1>4, <1>5, <1>6, <1>7, BudgetCloses

\* It drops a client: each of its channels waits to be closed, is being
\* closed, or is closed.
LEMMA BudgetCloserUnload ==
    ASSUME IInv, BudgetInv, TypeOK', ~fault', ~sealed',
           UnloadLock(Closer) \/ UnloadOp(Closer) \/ UnloadIo(Closer) \/ UnloadRelease(Closer)
    PROVE  BudgetInv'
<1> DEFINE d == dropping[Closer]
           k == arg[Closer].key
<1>1. /\ TypeOK /\ Places /\ Closer \in Threads /\ Clients \subseteq Threads
      /\ Closer \notin Clients /\ ChannelsKnown /\ Buffers /\ Contexts
  BY ClosingIs
<1>2. pc[Closer] \in {"unloadLock"} \cup Unloading
  BY DEF UnloadLock, UnloadOp, UnloadIo, UnloadRelease, Unloading
<1>3. /\ LocalOf(Closer) /\ Target(Closer) = d /\ d \in Clients /\ ~Cleared /\ Dropping(Closer)
  BY <1>1, <1>2, EndingIs DEF Ending, Target
<1>4. k \in Keys
  BY <1>2, <1>3 DEF LocalOf
<1>5. UNCHANGED <<registered, snapshot, dropping, todo>>
  BY DEF UnloadLock, UnloadOp, UnloadIo, UnloadRelease, people
<1>6. Releases
  <2>1. buffers' = buffers \/ buffers' = [buffers EXCEPT ![io[d][k]] = None]
    BY <1>3 DEF UnloadLock, UnloadOp, UnloadIo, UnloadRelease, channels
  <2>2. native' = native \/ native' = [native EXCEPT ![arg[Closer].handle] = None]
    BY DEF UnloadLock, UnloadOp, UnloadIo, UnloadRelease, cache
  <2>3. QED
    BY <1>1, <2>1, <2>2 DEF Releases, TypeOK
<1>7. \A c \in Clients : aliases'[c] \subseteq aliases[c]
  <2>1. aliases' = aliases \/ aliases' = [aliases EXCEPT ![d] = aliases[d] \ {k}]
    BY <1>3 DEF UnloadLock, UnloadOp, UnloadIo, UnloadRelease
  <2>2. aliases \in [Clients -> SUBSET Keys]
    BY <1>1 DEF TypeOK
  <2>3. QED
    BY <2>1, <2>2
<1>8. io \in [Clients -> [Keys -> Channels \cup {None}]]
  BY <1>1 DEF TypeOK
<1>9. \A c \in Clients, l \in Keys : io'[c][l] # None => io[c][l] # None
  <2>1. io' = io \/ io' = [io EXCEPT ![d][k] = None]
    BY <1>3 DEF UnloadLock, UnloadOp, UnloadIo, UnloadRelease, channels
  <2>2. QED
    BY <1>8, <2>1
<1>10. arg \in [Threads -> ArgRecord]
  BY <1>1 DEF TypeOK, ArgRecord
<1>11. \/ /\ \E l : pc' = [pc EXCEPT ![Closer] = l] /\ l \in Unloading
          /\ arg'[Closer].key = k /\ \A u \in Threads : u # Closer => arg'[u] = arg[u]
       \/ /\ pc' = [pc EXCEPT ![Closer] = "dropNext"]
          /\ io'[d][k] = None /\ \A u \in Threads : u # Closer => arg'[u] = arg[u]
  <2>1. CASE UnloadLock(Closer)
    <3> DEFINE h == IF k \in aliases[d] THEN models[k] ELSE None
    <3>1. CASE h = None
      <4>1. /\ pc' = [pc EXCEPT ![Closer] = "dropNext"] /\ arg' = [arg EXCEPT ![Closer] = NoArg]
            /\ io' = io
        BY <1>3, <2>1, <3>1 DEF UnloadLock, Goto, AfterUnload
      <4>2. io[d][k] = None
        <5> SUFFICES ASSUME io[d][k] # None
                     PROVE  FALSE
          OBVIOUS
        <5>1. k \in aliases[d]
          BY <1>1, <1>3, <1>4 DEF Buffers
        <5>2. models[k] # None
          BY <1>1, <1>3, <5>1 DEF Contexts
        <5>3. QED
          BY <3>1, <5>1, <5>2
      <4>3. QED
        BY <1>10, <4>1, <4>2
    <3>2. CASE h # None
      <4>1. /\ pc' = [pc EXCEPT ![Closer] = "unloadOp"]
            /\ arg' = [arg EXCEPT ![Closer].handle = h]
        BY <1>3, <2>1, <3>2 DEF UnloadLock, Goto
      <4>2. arg'[Closer].key = k /\ \A u \in Threads : u # Closer => arg'[u] = arg[u]
        <5> HIDE DEF h
        <5> QED
          BY <1>1, <1>10, <4>1 DEF ArgRecord
      <4>3. QED
        BY <4>1, <4>2 DEF Unloading
    <3>3. QED
      BY <3>1, <3>2
  <2>2. CASE UnloadOp(Closer)
    BY <2>2 DEF UnloadOp, Goto, Unloading
  <2>3. CASE UnloadIo(Closer)
    <3>1. pc' = [pc EXCEPT ![Closer] = "unloadRelease"] /\ arg' = arg
      BY <1>3, <2>3 DEF UnloadIo, Goto
    <3>2. QED
      BY <3>1 DEF Unloading
  <2>4. CASE UnloadRelease(Closer)
    <3>1. /\ pc' = [pc EXCEPT ![Closer] = "dropNext"] /\ arg' = [arg EXCEPT ![Closer] = NoArg]
          /\ io' = io /\ pc[Closer] = "unloadRelease"
      BY <1>3, <2>4 DEF UnloadRelease, UnloadReturns, Goto, AfterUnload, channels
    <3>2. io[d][k] = None
      BY <1>3, <3>1 DEF LocalOf
    <3>3. QED
      BY <1>10, <3>1, <3>2
  <2>5. QED
    BY <2>1, <2>2, <2>3, <2>4
<1>12. \A c \in Clients : pc'[c] = pc[c] /\ arg'[c] = arg[c]
  BY <1>1, <1>11 DEF Places
<1>13. ASSUME NEW c \in Clients, NEW l \in Keys, io'[c][l] # None
       PROVE  io[c][l] # None /\ (c \in registered' \/ Cleared') /\ Listed(c, l)'
  <2>1. io[c][l] # None /\ c \in registered /\ Listed(c, l)
    BY <1>1, <1>3, <1>9, <1>13 DEF ChannelsKnown
  <2>2. Listed(c, l)'
    <3> SUFFICES ASSUME c = d
                 PROVE  Listed(c, l)'
      BY <1>5 DEF Listed
    <3>1. l \in todo[Closer] \/ l = k
      BY <2>1 DEF Listed
    <3>2. \/ pc'[Closer] \in Unloading /\ arg'[Closer].key = k
          \/ pc'[Closer] = "dropNext" /\ l # k
      BY <1>1, <1>11, <1>13 DEF Places
    <3>3. QED
      BY <1>5, <3>1, <3>2 DEF Listed, Unloading
  <2>3. QED
    BY <1>5, <2>1, <2>2
<1>14. dropping'[Closer] \notin snapshot'
  BY <1>1, <1>5 DEF ChannelsKnown
<1>15. pc'[Closer] # "closed"
  BY <1>1, <1>11 DEF Places, Unloading
<1>16. QED
  BY <1>5, <1>6, <1>7, <1>12, <1>13, <1>14, <1>15, BudgetCloses

\* It goes on to the next alias.
LEMMA BudgetCloserNext ==
    ASSUME IInv, BudgetInv, TypeOK', ~fault', ~sealed', DropNext(Closer)
    PROVE  BudgetInv'
<1>1. /\ TypeOK /\ Places /\ Closer \in Threads /\ Clients \subseteq Threads
      /\ Closer \notin Clients /\ ChannelsKnown
  BY ClosingIs
<1>2. /\ pc[Closer] = "dropNext"
      /\ UNCHANGED <<native, buffers, io, aliases, registered, snapshot, dropping>>
  BY DEF DropNext, cache, channels, people
<1>3. ~Cleared
  BY <1>2 DEF Cleared
<1>4. \/ /\ todo[Closer] = {} /\ pc' = [pc EXCEPT ![Closer] = "dropEnd"] /\ UNCHANGED <<arg, todo>>
      \/ \E k \in todo[Closer] : /\ pc' = [pc EXCEPT ![Closer] = "unloadLock"]
                                 /\ arg' = [arg EXCEPT ![Closer].key = k]
                                 /\ todo' = [todo EXCEPT ![Closer] = todo[Closer] \ {k}]
  BY DEF DropNext, Goto
<1>5. \A c \in Clients : pc'[c] = pc[c] /\ arg'[c] = arg[c]
  BY <1>1, <1>4 DEF Places, TypeOK
<1>6. pc'[Closer] \in {"dropEnd", "unloadLock"}
  BY <1>1, <1>4 DEF Places
<1>7. ASSUME NEW c \in Clients, NEW l \in Keys, io'[c][l] # None
      PROVE  io[c][l] # None /\ (c \in registered' \/ Cleared') /\ Listed(c, l)'
  <2>1. io[c][l] # None /\ c \in registered /\ Listed(c, l)
    BY <1>1, <1>2, <1>3, <1>7 DEF ChannelsKnown
  <2>2. Listed(c, l)'
    <3> SUFFICES ASSUME c = dropping[Closer]
                 PROVE  Listed(c, l)'
      BY <1>2 DEF Listed
    <3>1. l \in todo[Closer]
      BY <1>2, <2>1 DEF Listed, Unloading
    <3>2. PICK k \in todo[Closer] : /\ pc' = [pc EXCEPT ![Closer] = "unloadLock"]
                                    /\ arg' = [arg EXCEPT ![Closer].key = k]
                                    /\ todo' = [todo EXCEPT ![Closer] = todo[Closer] \ {k}]
      BY <1>4, <3>1
    <3>3. pc'[Closer] = "unloadLock" /\ arg'[Closer].key = k /\ todo'[Closer] = todo[Closer] \ {k}
      <4>1. arg \in [Threads -> ArgRecord]
        BY <1>1 DEF TypeOK, ArgRecord
      <4>2. QED
        BY <1>1, <3>2, <4>1 DEF Places, ArgRecord
    <3>4. QED
      BY <3>1, <3>3 DEF Listed, Unloading
  <2>3. QED
    BY <1>2, <2>1, <2>2
<1>8. Releases
  BY <1>2 DEF Releases
<1>9. dropping'[Closer] \notin snapshot'
  BY <1>1, <1>2 DEF ChannelsKnown
<1>10. QED
  BY <1>2, <1>5, <1>6, <1>7, <1>8, <1>9, BudgetCloses

\* A client it has dropped has no channel and opens none.
LEMMA BudgetCloserEnd ==
    ASSUME IInv, BudgetInv, TypeOK', ~fault', ~sealed', DropEnd(Closer)
    PROVE  BudgetInv'
<1> DEFINE d == dropping[Closer]
<1>1. /\ TypeOK /\ Places /\ Closer \in Threads /\ Clients \subseteq Threads
      /\ Closer \notin Clients /\ ChannelsKnown /\ None \notin Clients /\ Dropped /\ ~fault
  BY ClosingIs
<1>2. /\ pc[Closer] = "dropEnd" /\ registered' = registered \ {d}
      /\ dropping' = [dropping EXCEPT ![Closer] = None]
      /\ pc' = [pc EXCEPT ![Closer] = "dropEach"]
      /\ UNCHANGED <<native, buffers, io, aliases, arg, snapshot>>
  BY DEF DropEnd, Goto, cache, channels
<1>3. /\ \A c \in Clients : pc'[c] = pc[c] /\ arg'[c] = arg[c] /\ aliases'[c] \subseteq aliases[c]
      /\ pc'[Closer] = "dropEach" /\ dropping'[Closer] = None
  BY <1>1, <1>2 DEF Places, TypeOK
<1>4. ~Cleared /\ Shut /\ Releases
  BY <1>2 DEF Cleared, Shut, Releases
<1>5. ASSUME NEW c \in Clients, NEW l \in Keys, io'[c][l] # None
      PROVE  io[c][l] # None /\ (c \in registered' \/ Cleared') /\ Listed(c, l)'
  <2>1. io[c][l] # None /\ c \in registered /\ Listed(c, l)
    BY <1>1, <1>2, <1>4, <1>5 DEF ChannelsKnown
  <2>2. c # d
    BY <1>2, <2>1 DEF Listed, Unloading
  <2>3. Listed(c, l)'
    BY <1>1, <1>3 DEF Listed
  <2>4. QED
    BY <1>2, <2>1, <2>2, <2>3
<1>6. ASSUME NEW c \in Clients, pc[c] \in Opening, c \in registered, aliases[c] # {}
      PROVE  c \in registered'
  <2>1. LateOpen(c)
    BY <1>1 DEF Dropped
  <2>2. c # d
    BY <1>1, <1>2, <1>4, <1>6, <2>1 DEF LateOpen, ChannelsKnown, Unloading
  <2>3. QED
    BY <1>2, <1>6, <2>2
<1>7. dropping'[Closer] \notin snapshot'
  BY <1>1, <1>2, <1>3 DEF TypeOK
<1>8. QED
  BY <1>3, <1>4, <1>5, <1>6, <1>7, BudgetCloses

\* At first nothing is used.
LEMMA BudgetFirst == Init => BudgetInv
<1> SUFFICES ASSUME Init
             PROVE  BudgetInv
  OBVIOUS
<1>1. Closer \in Threads /\ Clients \subseteq Threads /\ Closer \notin Clients
  BY Names DEF Threads
<1>2. pc[Closer] = "serving" /\ \A c \in Clients : pc[c] = "gone"
  BY <1>1 DEF Init
<1>3. Loaded = {} /\ BoundChannels = {}
  BY DEF Init, Loaded, BoundChannels
<1>4. Used = 0
  BY <1>3, SumOfNothing DEF Used
<1>5. ChannelsKnown
  <2>1. \A c \in Clients, k \in Keys : io[c][k] = None
    BY DEF Init
  <2>2. snapshot = {}
    BY DEF Init
  <2>3. QED
    BY <1>2, <2>1, <2>2 DEF ChannelsKnown, Opening
<1>6. LoadsInside
  BY <1>2 DEF LoadsInside
<1>7. IsFiniteSet(Loaded) /\ IsFiniteSet(BoundChannels)
  BY <1>3, FS_EmptySet
<1>8. ~fault /\ ~sealed
  BY DEF Init
<1>9. QED
  BY <1>4, <1>5, <1>6, <1>7, <1>8, Sizes DEF BudgetInv

\* Every step keeps the budget, until there is a fault.
LEMMA BudgetNext == IInv /\ BudgetInv /\ [Next]_vars => fault' \/ BudgetInv'
<1> SUFFICES ASSUME IInv, BudgetInv, [Next]_vars, ~fault'
             PROVE  BudgetInv'
  OBVIOUS
<1>1. TypeOK'
  BY NextIInv DEF IInv
<1>2. ~fault' /\ ~sealed'
  BY FaultsAreTold DEF BudgetInv, Told
<1>3. ASSUME NEW c \in Clients, ThreadStep(c) PROVE BudgetInv'
  BY <1>1, <1>2, <1>3, BudgetUnload, BudgetDropEnd DEF ThreadStep
<1>4. ASSUME NEW c \in Clients, Request(c) \/ ClientStep(c) \/ Revoke(c) PROVE BudgetInv'
  <2>1. CASE Request(c)
    BY <1>1, <1>2, <2>1, BudgetRequest DEF Request
  <2>2. CASE ClientStep(c)
    BY <1>1, <1>2, <1>3, <2>2, BudgetRequest, BudgetLoadLock, BudgetLoadNative, BudgetOpenNative
       DEF ClientStep, Leave
  <2>3. QED
    BY <1>1, <1>2, <1>4, <2>1, <2>2, BudgetOthers
<1>5. CASE Close \/ CloserStep
  BY <1>1, <1>2, <1>5, BudgetClose, BudgetCloseDrop, BudgetCloserUnload, BudgetCloserNext,
     BudgetCloserEnd DEF CloserStep, ThreadStep
<1>6. QED
  BY <1>1, <1>2, <1>4, <1>5, BudgetOthers DEF Next

\* The memory that native contexts and channels occupy stays inside the
\* budget, through concurrent loads and opens, disconnects and close(), and
\* through maintenance that fails, until a fault is recorded (server.py:950-957,
\* 1027-1036).  After that a client is forgotten whose release failed: its
\* channels are no longer counted, and a load that had been admitted goes on.
THEOREM WithinBudget == Spec => [](fault \/ BudgetRespected)
<1>1. Init => IInv /\ (fault \/ BudgetInv)
  BY InitIInv, BudgetFirst
<1>2. IInv /\ (fault \/ BudgetInv) /\ [Next]_vars => IInv' /\ (fault' \/ BudgetInv')
  BY NextIInv, BudgetNext, FaultsAreTold DEF Told
<1>3. (fault \/ BudgetInv) => (fault \/ BudgetRespected)
  BY DEF BudgetInv, BudgetRespected, Used, Loaded, BoundChannels
<1>4. QED
  BY <1>1, <1>2, <1>3, PTL DEF Spec

\* With a driver that can always be locked and torn down that is: always.
THEOREM WithinBudgetAlways == ASSUME Failures = {} PROVE Spec => []BudgetRespected
<1>1. Init => ~fault /\ ~sealed
  BY DEF Init
<1>2. ~fault /\ ~sealed /\ [Next]_vars => ~fault' /\ ~sealed'
  BY FaultsAreTold DEF Told
<1>3. Spec => []~fault
  BY <1>1, <1>2, PTL DEF Spec
<1>4. (fault \/ BudgetRespected) /\ ~fault => BudgetRespected
  OBVIOUS
<1>5. QED
  BY <1>3, <1>4, WithinBudget, PTL
=============================================================================
