-------------------------- MODULE InferenceService --------------------------
(***************************************************************************)
(* The request side of the inference daemon, market/inferenced/server.py:  *)
(* connection threads that load, infer, open shared IO, unload and drop    *)
(* their client; scheduler workers that run the jobs; and close().  They   *)
(* meet in the model cache, the per-client aliases and DMA channels, the   *)
(* lifecycle lock _driver_lock and one operation_lock per model.           *)
(*                                                                         *)
(* Two components are used through what they promise.  A maintenance call  *)
(* of RknnBackend is one step taken when no worker is inside the native    *)
(* gate (NpuFence shows that it excludes everything else), and a queued    *)
(* job is picked by any worker when its model is free (FairScheduler shows *)
(* which one and that it is picked).                                       *)
(*                                                                         *)
(* A client names each of its models by one alias, so an alias is the key. *)
(* Handles, channels and jobs are slots: one is reused when nothing in the *)
(* program refers to it any more.                                          *)
(***************************************************************************)
EXTENDS Integers, FiniteSets

CONSTANTS
    Clients,      \* connections; each has its thread
    Closer,       \* the thread that runs close()
    Workers, Keys, Handles, Channels, Jobs,
    None,
    InstanceOf,   \* the admitted application generation of a connection
    Mem, IoMem,   \* memory_mb of a model, size of a channel on it
    Budget,       \* memory_budget_mb
    Limit,        \* memory_limit_mb of each application generation
    Failures      \* how maintenance can fail: "timeout", "teardown"

Threads == Clients \cup {Closer}

ASSUME Sizes ==
    /\ IsFiniteSet(Clients) /\ IsFiniteSet(Keys)
    /\ Mem \in [Keys -> Nat]
    /\ IoMem \in [Keys -> Nat]
    /\ Budget \in Nat /\ Limit \in Nat
    /\ Failures \subseteq {"timeout", "teardown"}

\* A thread is a connection's, a worker or the one that closes; Python's None
\* is none of the objects.
ASSUME Names ==
    /\ Closer \notin Clients /\ Workers \cap Threads = {}
    /\ None \notin Threads \cup Workers \cup Keys \cup Handles \cup Channels \cup Jobs

VARIABLES
    models,     \* _models: the handle cached for a key
    native,     \* the key a handle's native context was loaded for
    owners,     \* _Model.aliases of a handle
    opLock,     \* _Model.operation_lock of a handle
    aliases,    \* _Client.aliases
    io,         \* _Client.shared_io
    buffers,    \* the handle a channel's native buffers are bound to
    poisoned,   \* channels with poisoned set
    registered, closing,  \* _clients, _Client.closing
    auth,       \* the client's launch record is still published
    drv,        \* _driver_lock
    fault,      \* _fault is set
    sealed,     \* the driver fence is quarantined
    stopping,   \* _stopping
    job,        \* the jobs of the scheduler and whether a caller waits
    wpc, wjob,  \* workers
    pc, arg, todo, dropping,  \* threads: label, local variables
    snapshot,   \* the clients close() still has to drop
    late        \* history: workers whose job lost its authority before
                \* the admission check at the native boundary

cache == <<models, native, owners>>
channels == <<io, buffers, poisoned>>
people == <<registered, closing, auth>>
flags == <<fault, sealed, stopping>>
work == <<job, wpc, wjob, late>>
threads == <<pc, arg, todo, dropping, snapshot>>
vars == <<cache, opLock, aliases, channels, people, drv, flags, work, threads>>

NoArg == [key |-> None, handle |-> None, job |-> None]
FreeJob == [st |-> "free", client |-> None, key |-> None, handle |-> None,
            chan |-> None, expired |-> FALSE, waited |-> FALSE]

Inside == {"inside", "authed", "native"}
GateFree == \A w \in Workers : wpc[w] \notin Inside

Init ==
    /\ models = [k \in Keys |-> None]
    /\ native = [h \in Handles |-> None]
    /\ owners = [h \in Handles |-> {}]
    /\ opLock = [h \in Handles |-> None]
    /\ aliases = [c \in Clients |-> {}]
    /\ io = [c \in Clients |-> [k \in Keys |-> None]]
    /\ buffers = [x \in Channels |-> None]
    /\ poisoned = {}
    /\ registered = {} /\ closing = {}
    /\ auth = [c \in Clients |-> FALSE]
    /\ drv = None
    /\ fault = FALSE /\ sealed = FALSE /\ stopping = FALSE
    /\ job = [j \in Jobs |-> FreeJob]
    /\ wpc = [w \in Workers |-> "idle"]
    /\ wjob = [w \in Workers |-> None]
    /\ pc = [t \in Threads |-> IF t = Closer THEN "serving" ELSE "gone"]
    /\ arg = [t \in Threads |-> NoArg]
    /\ todo = [t \in Threads |-> {}]
    /\ dropping = [t \in Threads |-> None]
    /\ snapshot = {}
    /\ late = {}

Goto(t, label) == pc' = [pc EXCEPT ![t] = label]

----------------------------------------------------------------------------
(* Memory accounting (_load, _shared_bytes, _check_shared_budget).         *)

\* The sum of f over S, as the number of megabytes when each is told apart by
\* its place; a form that can be reasoned about without induction.
Sum(f, S) == Cardinality(UNION {{x} \X (1 .. f[x]) : x \in S})

SharedBytes(C) ==
    Sum([p \in C \X Keys |-> IoMem[p[2]]], {p \in C \X Keys : io[p[1]][p[2]] # None})
Cached == {k \in Keys : models[k] # None}
Peers(c) == {d \in registered : InstanceOf[d] = InstanceOf[c]}
InstanceKeys(c) == UNION {aliases[d] : d \in Peers(c)}
Reserved == Sum(Mem, Cached) + SharedBytes(registered)
InstanceReserved(c) == Sum(Mem, InstanceKeys(c) \cap Cached) + SharedBytes(Peers(c))

\* Mutant: only the service budget is looked at.
LoadFitsService(c, k) == models[k] = None => Reserved + Mem[k] <= Budget

LoadFits(c, k) ==
    /\ models[k] = None => Reserved + Mem[k] <= Budget
    /\ k \notin InstanceKeys(c) => InstanceReserved(c) + Mem[k] <= Limit
ChannelFits(c, k) ==
    /\ Reserved + IoMem[k] <= Budget
    /\ InstanceReserved(c) + IoMem[k] <= Limit

----------------------------------------------------------------------------
(* Jobs.                                                                   *)

Finished(r, outcome) == IF r.waited THEN [r EXCEPT !.st = outcome] ELSE FreeJob

\* scheduler.cancel_client
Cancel(c) ==
    job' = [j \in Jobs |-> IF job[j].client = c /\ job[j].st = "queued"
                           THEN Finished(job[j], "error") ELSE job[j]]

\* Workers that have not come to the check that reads what changes, and that
\* run a job of one of the clients C.
Unchecked == {w \in Workers : wpc[w] \in {"lockOp", "outer", "gate", "inside"}}
RunningFor(C) == {w \in Workers : wpc[w] # "idle" /\ job[wjob[w]].client \in C}

InUse(h) == \/ h \in {models[k] : k \in Keys}
            \/ native[h] # None
            \/ \E j \in Jobs : job[j].handle = h
            \/ \E t \in Threads : arg[t].handle = h
ChannelInUse(x) == \/ buffers[x] # None
                   \/ \E c \in Clients, k \in Keys : io[c][k] = x
                   \/ \E j \in Jobs : job[j].chan = x

----------------------------------------------------------------------------
(* Connections.                                                            *)

\* Between requests a thread waits in recv, until close() shuts its socket
\* down; the loop around it ends when the service is stopping.
AtRest == IF stopping THEN "leave" ELSE "idle"
Shut == pc[Closer] \notin {"serving", "closing"}

\* A new connection, in a slot nothing of an earlier one refers to.
Accept(c) ==
    /\ pc[c] = "gone" /\ ~stopping
    /\ aliases[c] = {}
    /\ \A k \in Keys : io[c][k] = None
    /\ \A j \in Jobs : job[j].client # c
    /\ Goto(c, "hello")
    /\ UNCHANGED <<cache, opLock, aliases, channels, people, drv, flags, work,
                   arg, todo, dropping, snapshot>>

\* hello: the peer is the process of a launch record appmgr has published,
\* or the connection ends.  close() may have run meanwhile.
Hello(c) ==
    /\ pc[c] = "hello"
    /\ \/ /\ registered' = registered \cup {c}
          /\ closing' = closing \ {c}
          /\ auth' = [auth EXCEPT ![c] = TRUE]
          /\ Goto(c, AtRest)
       \/ /\ Goto(c, "gone")
          /\ UNCHANGED people
    /\ UNCHANGED <<cache, opLock, aliases, channels, drv, flags, work, arg, todo, dropping, snapshot>>

\* appmgr unlinks or replaces the launch record, or the peer dies.
Revoke(c) ==
    /\ auth[c]
    /\ auth' = [auth EXCEPT ![c] = FALSE]
    /\ late' = late \cup (Unchecked \cap RunningFor({c}))
    /\ UNCHANGED <<cache, opLock, aliases, channels, registered, closing, drv, flags,
                   job, wpc, wjob, threads>>

\* _dispatch admits an operation other than unload.
Admitted(c) == pc[c] = "idle" /\ ~Shut /\ auth[c] /\ ~fault

BeginLoad(c) ==
    /\ Admitted(c)
    /\ \E k \in Keys \ aliases[c] : arg' = [arg EXCEPT ![c].key = k]
    /\ Goto(c, "loadLock")
    /\ UNCHANGED <<cache, opLock, aliases, channels, people, drv, flags, work, todo, dropping, snapshot>>

\* Mutant: the cache and the budgets are read without keeping the lock.
LoadUnlocked(c) ==
    LET k == arg[c].key IN
    /\ pc[c] = "loadLock"
    /\ drv = None
    /\ LoadFits(c, k)
    /\ arg' = [arg EXCEPT ![c].handle = models[k]]
    /\ Goto(c, IF models[k] = None THEN "loadNative" ELSE "loadCommit")
    /\ UNCHANGED <<cache, opLock, aliases, channels, people, drv, flags, work, todo, dropping, snapshot>>

\* The budgets are checked under the lifecycle lock, which the load keeps.
LoadLock(c) ==
    LET k == arg[c].key IN
    /\ pc[c] = "loadLock"
    /\ drv = None
    /\ IF LoadFits(c, k)
       THEN /\ drv' = c
            /\ arg' = [arg EXCEPT ![c].handle = models[k]]
            /\ Goto(c, IF models[k] = None THEN "loadNative" ELSE "loadCommit")
       ELSE /\ arg' = [arg EXCEPT ![c] = NoArg]
            /\ Goto(c, AtRest)
            /\ UNCHANGED drv
    /\ UNCHANGED <<cache, opLock, aliases, channels, people, flags, work, todo, dropping, snapshot>>

\* backend.load: a failure that was rolled back, a timeout of the driver
\* lock and a quarantined driver all leave no context behind.
LoadNative(c) ==
    LET k == arg[c].key IN
    /\ pc[c] = "loadNative"
    /\ GateFree
    /\ \/ /\ ~sealed
          /\ \E h \in Handles :
                /\ ~InUse(h)
                /\ native' = [native EXCEPT ![h] = k]
                /\ models' = [models EXCEPT ![k] = h]
                /\ owners' = [owners EXCEPT ![h] = {}]
                /\ arg' = [arg EXCEPT ![c].handle = h]
          /\ Goto(c, "loadCommit")
          /\ UNCHANGED <<drv, sealed, fault>>
       \/ /\ \/ UNCHANGED <<sealed, fault>>
             \/ /\ "teardown" \in Failures /\ ~sealed
                /\ sealed' = TRUE /\ fault' = TRUE
          /\ drv' = None
          /\ arg' = [arg EXCEPT ![c] = NoArg]
          /\ Goto(c, AtRest)
          /\ UNCHANGED cache
    /\ UNCHANGED <<opLock, aliases, channels, people, stopping, work, todo, dropping, snapshot>>

LoadCommit(c) ==
    LET h == arg[c].handle IN
    /\ pc[c] = "loadCommit"
    /\ owners' = [owners EXCEPT ![h] = @ \cup {c}]
    /\ aliases' = [aliases EXCEPT ![c] = @ \cup {arg[c].key}]
    /\ drv' = None
    /\ arg' = [arg EXCEPT ![c] = NoArg]
    /\ Goto(c, AtRest)
    /\ UNCHANGED <<models, native, opLock, channels, people, flags, work, todo, dropping, snapshot>>

\* open_shared_io: lifecycle lock, then the model's operation lock, so that
\* no inference of any client is bound to the context meanwhile.
BeginOpen(c) ==
    /\ Admitted(c)
    /\ \E k \in aliases[c] : arg' = [arg EXCEPT ![c].key = k]
    /\ Goto(c, "openLock")
    /\ UNCHANGED <<cache, opLock, aliases, channels, people, drv, flags, work, todo, dropping, snapshot>>

OpenLock(c) ==
    LET h == models[arg[c].key] IN
    /\ pc[c] = "openLock"
    /\ drv = None
    /\ IF h = None \/ arg[c].key \notin aliases[c]
       THEN /\ arg' = [arg EXCEPT ![c] = NoArg]
            /\ Goto(c, AtRest)
            /\ UNCHANGED drv
       ELSE /\ drv' = c
            /\ arg' = [arg EXCEPT ![c].handle = h]
            /\ Goto(c, "openOp")
    /\ UNCHANGED <<cache, opLock, aliases, channels, people, flags, work, todo, dropping, snapshot>>

OpenOp(c) ==
    LET h == arg[c].handle IN
    /\ pc[c] = "openOp"
    /\ opLock[h] = None
    /\ opLock' = [opLock EXCEPT ![h] = c]
    /\ Goto(c, "openNative")
    /\ UNCHANGED <<cache, aliases, channels, people, drv, flags, work, arg, todo, dropping, snapshot>>

\* Revalidation, estimate, allocation, registration.  An allocation that
\* fails is rolled back, or seals the driver when the rollback fails.
OpenNative(c) ==
    LET k == arg[c].key
        h == arg[c].handle
    IN  /\ pc[c] = "openNative"
        /\ GateFree
        /\ \/ /\ auth[c] /\ ~sealed
              /\ io[c][k] = None /\ ChannelFits(c, k)
              /\ \E x \in Channels :
                    /\ ~ChannelInUse(x)
                    /\ io' = [io EXCEPT ![c][k] = x]
                    /\ buffers' = [buffers EXCEPT ![x] = h]
                    /\ poisoned' = poisoned \ {x}
              /\ UNCHANGED <<sealed, fault>>
           \/ UNCHANGED <<channels, sealed, fault>>
           \/ /\ "teardown" \in Failures /\ ~sealed
              /\ auth[c] /\ io[c][k] = None /\ ChannelFits(c, k)
              /\ sealed' = TRUE /\ fault' = TRUE
              /\ UNCHANGED channels
        /\ opLock' = [opLock EXCEPT ![h] = None]
        /\ drv' = None
        /\ arg' = [arg EXCEPT ![c] = NoArg]
        /\ Goto(c, AtRest)
        /\ UNCHANGED <<cache, aliases, people, stopping, work, todo, dropping, snapshot>>

\* Mutant: the alias's channel is used again after an error.
InferOnPoisoned(c) ==
    /\ Admitted(c) /\ ~stopping
    /\ \E k \in aliases[c], j \in Jobs :
          /\ models[k] # None
          /\ job[j] = FreeJob
          /\ job' = [job EXCEPT ![j] =
                       [st |-> "queued", client |-> c, key |-> k, handle |-> models[k],
                        chan |-> io[c][k], expired |-> FALSE, waited |-> TRUE]]
          /\ arg' = [arg EXCEPT ![c].job = j]
    /\ Goto(c, "await")
    /\ UNCHANGED <<cache, opLock, aliases, channels, people, drv, flags,
                   wpc, wjob, late, todo, dropping, snapshot>>

\* infer and infer_shared: the job keeps the model and channel it looked up.
Infer(c) ==
    /\ Admitted(c) /\ ~stopping
    /\ \E k \in aliases[c], j \in Jobs :
          /\ models[k] # None
          /\ job[j] = FreeJob
          /\ \E x \in {None} \cup ({io[c][k]} \ poisoned) :
                job' = [job EXCEPT ![j] =
                          [st |-> "queued", client |-> c, key |-> k, handle |-> models[k],
                           chan |-> x, expired |-> FALSE, waited |-> TRUE]]
          /\ arg' = [arg EXCEPT ![c].job = j]
    /\ Goto(c, "await")
    /\ UNCHANGED <<cache, opLock, aliases, channels, people, drv, flags,
                   wpc, wjob, late, todo, dropping, snapshot>>

\* A request on a channel that is refused before it is queued (malformed, a
\* full or closed queue, a model that is gone) poisons the channel too.
InferRefused(c) ==
    /\ Admitted(c)
    /\ \E k \in Keys :
          /\ io[c][k] \notin poisoned \cup {None}
          /\ poisoned' = poisoned \cup {io[c][k]}
    /\ Goto(c, AtRest)
    /\ UNCHANGED <<cache, opLock, aliases, io, buffers, people, drv, flags, work,
                   arg, todo, dropping, snapshot>>

\* job.result() returned or raised.  After any error the channel is poisoned
\* and what the client still has queued is cancelled.
Answer(c) ==
    LET j == arg[c].job
        gaveUp == job[j].st \in {"queued", "running"}
        failed == job[j].st # "ok"
        left == [job EXCEPT ![j] = IF gaveUp THEN [@ EXCEPT !.waited = FALSE] ELSE FreeJob]
    IN  /\ pc[c] = "await"
        /\ gaveUp => job[j].expired
        /\ IF failed /\ job[j].chan # None
           THEN /\ poisoned' = poisoned \cup {job[j].chan}
                /\ job' = [i \in Jobs |->
                              IF left[i].client = c /\ left[i].st = "queued"
                              THEN FreeJob ELSE left[i]]
           ELSE /\ job' = left
                /\ UNCHANGED poisoned
        /\ arg' = [arg EXCEPT ![c] = NoArg]
        /\ Goto(c, AtRest)
        /\ UNCHANGED <<cache, opLock, aliases, io, buffers, people, drv, flags,
                       wpc, wjob, late, todo, dropping, snapshot>>

\* A request's deadline passes.
Expire(j) ==
    /\ job[j].st \in {"queued", "running"}
    /\ ~job[j].expired
    /\ job' = [job EXCEPT ![j].expired = TRUE]
    /\ UNCHANGED <<cache, opLock, aliases, channels, people, drv, flags,
                   wpc, wjob, late, threads>>

----------------------------------------------------------------------------
(* _unload and _drop_client, run by thread t on behalf of client c: c's    *)
(* own thread, or close().                                                 *)

Target(t) == IF t = Closer THEN dropping[t] ELSE t
Dropping(t) == dropping[t] # None
AfterUnload(t) == IF Dropping(t) THEN "dropNext" ELSE AtRest

BeginUnload(c) ==
    /\ pc[c] = "idle" /\ ~Shut /\ ~fault
    /\ \E k \in aliases[c] : arg' = [arg EXCEPT ![c].key = k]
    /\ Goto(c, "unloadLock")
    /\ UNCHANGED <<cache, opLock, aliases, channels, people, drv, flags, work, todo, dropping, snapshot>>

\* Mutant: an alias without a channel is not told apart.
UnloadNoChannel(t) ==
    LET c == Target(t)
        k == arg[t].key
    IN  /\ pc[t] = "unloadLock"
        /\ drv = None
        /\ k \notin aliases[c] \/ models[k] = None
        /\ aliases' = [aliases EXCEPT ![c] = @ \ {k}]
        /\ poisoned' = poisoned \cup {io[c][k]}
        /\ arg' = [arg EXCEPT ![t] = NoArg]
        /\ Goto(t, AfterUnload(t))
        /\ UNCHANGED <<cache, opLock, io, buffers, people, drv, flags, work, todo, dropping, snapshot>>

\* An alias whose model is gone (close() has cleared the cache) only loses
\* its entry, and its channel is poisoned.
UnloadLock(t) ==
    LET c == Target(t)
        k == arg[t].key
        h == IF k \in aliases[c] THEN models[k] ELSE None
    IN  /\ pc[t] = "unloadLock"
        /\ drv = None
        /\ IF h = None
           THEN /\ aliases' = [aliases EXCEPT ![c] = @ \ {k}]
                /\ poisoned' = poisoned \cup ({io[c][k]} \ {None})
                /\ arg' = [arg EXCEPT ![t] = NoArg]
                /\ Goto(t, AfterUnload(t))
                /\ UNCHANGED drv
           ELSE /\ drv' = t
                /\ arg' = [arg EXCEPT ![t].handle = h]
                /\ Goto(t, "unloadOp")
                /\ UNCHANGED <<aliases, poisoned>>
        /\ UNCHANGED <<cache, opLock, io, buffers, people, flags, work, todo, dropping, snapshot>>

\* Waits for the model's running job, also one whose caller has given up.
UnloadOp(t) ==
    LET c == Target(t)
        x == io[c][arg[t].key]
        h == arg[t].handle
    IN  /\ pc[t] = "unloadOp"
        /\ opLock[h] = None
        /\ opLock' = [opLock EXCEPT ![h] = t]
        /\ IF x = None
           THEN Goto(t, "unloadRelease") /\ UNCHANGED poisoned
           ELSE Goto(t, "unloadIo") /\ poisoned' = poisoned \cup {x}
        /\ UNCHANGED <<cache, aliases, io, buffers, people, drv, flags, work,
                       arg, todo, dropping, snapshot>>

\* Mutant: the lifecycle lock is not left.
UnloadKeepsDriver(t, label) ==
    /\ opLock' = [opLock EXCEPT ![arg[t].handle] = None]
    /\ arg' = [arg EXCEPT ![t] = NoArg]
    /\ Goto(t, label)
    /\ UNCHANGED drv

\* Both locks are left, and a failure inside _drop_client ends it.
UnloadReturns(t, label) ==
    /\ opLock' = [opLock EXCEPT ![arg[t].handle] = None]
    /\ drv' = None
    /\ arg' = [arg EXCEPT ![t] = NoArg]
    /\ Goto(t, label)

\* How a native release or close fails: the kernel lock times out, the
\* driver is already quarantined, or the teardown itself fails and seals it.
TeardownFails ==
    \/ "timeout" \in Failures /\ ~sealed /\ UNCHANGED sealed
    \/ sealed /\ UNCHANGED sealed
    \/ "teardown" \in Failures /\ ~sealed /\ sealed' = TRUE

UnloadIo(t) ==
    LET c == Target(t)
        k == arg[t].key
    IN  /\ pc[t] = "unloadIo"
        /\ GateFree
        /\ \/ /\ ~sealed
              /\ buffers' = [buffers EXCEPT ![io[c][k]] = None]
              /\ io' = [io EXCEPT ![c][k] = None]
              /\ Goto(t, "unloadRelease")
              /\ UNCHANGED <<fault, sealed, opLock, drv, arg>>
           \/ /\ TeardownFails
              /\ fault' = (fault \/ Dropping(t) \/ sealed')
              /\ UnloadReturns(t, IF Dropping(t) THEN "dropEnd" ELSE AtRest)
              /\ UNCHANGED <<io, buffers>>
        /\ UNCHANGED <<cache, aliases, poisoned, people, stopping, work, todo, dropping, snapshot>>

\* The last alias releases the context before the cache forgets it.
UnloadRelease(t) ==
    LET c == Target(t)
        k == arg[t].key
        h == arg[t].handle
        forget == aliases' = [aliases EXCEPT ![c] = @ \ {k}]
    IN  /\ pc[t] = "unloadRelease"
        /\ \/ /\ owners[h] # {c}
              /\ owners' = [owners EXCEPT ![h] = @ \ {c}]
              /\ forget
              /\ UnloadReturns(t, AfterUnload(t))
              /\ UNCHANGED <<models, native, fault, sealed>>
           \/ /\ owners[h] = {c}
              /\ GateFree /\ ~sealed
              /\ native' = [native EXCEPT ![h] = None]
              /\ models' = [models EXCEPT ![k] = IF @ = h THEN None ELSE @]
              /\ owners' = [owners EXCEPT ![h] = {}]
              /\ forget
              /\ UnloadReturns(t, AfterUnload(t))
              /\ UNCHANGED <<fault, sealed>>
           \/ /\ owners[h] = {c}
              /\ GateFree /\ TeardownFails
              /\ fault' = TRUE
              /\ UnloadReturns(t, IF Dropping(t) THEN "dropEnd" ELSE AtRest)
              /\ UNCHANGED <<cache, aliases>>
        /\ UNCHANGED <<channels, people, stopping, work, todo, dropping, snapshot>>

\* EOF, a failed send, or close() ends the connection.
BeginDrop(t, c) ==
    /\ closing' = closing \cup {c}
    /\ late' = late \cup {w \in RunningFor({c}) : wpc[w] # "native"}
    /\ Cancel(c)
    /\ dropping' = [dropping EXCEPT ![t] = c]
    /\ todo' = [todo EXCEPT ![t] = aliases[c]]
    /\ Goto(t, "dropNext")
    /\ UNCHANGED <<cache, opLock, aliases, channels, registered, auth, drv, flags,
                   wpc, wjob, arg>>

Disconnect(c) == pc[c] \in {"idle", "leave"} /\ BeginDrop(c, c) /\ UNCHANGED snapshot
Leave(c) == (pc[c] = "leave" \/ Shut) /\ Disconnect(c)

DropNext(t) ==
    /\ pc[t] = "dropNext"
    /\ IF todo[t] = {}
       THEN Goto(t, "dropEnd") /\ UNCHANGED <<arg, todo>>
       ELSE \E k \in todo[t] :
               /\ arg' = [arg EXCEPT ![t].key = k]
               /\ todo' = [todo EXCEPT ![t] = @ \ {k}]
               /\ Goto(t, "unloadLock")
    /\ UNCHANGED <<cache, opLock, aliases, channels, people, drv, flags, work, dropping, snapshot>>

DropEnd(t) ==
    /\ pc[t] = "dropEnd"
    /\ registered' = registered \ {dropping[t]}
    /\ dropping' = [dropping EXCEPT ![t] = None]
    /\ todo' = [todo EXCEPT ![t] = {}]
    /\ Goto(t, IF t = Closer THEN "dropEach" ELSE "gone")
    /\ UNCHANGED <<cache, opLock, aliases, channels, closing, auth, drv, flags, work, arg, snapshot>>

----------------------------------------------------------------------------
(* close().                                                                *)

\* Stop accepting, close the scheduler: what is queued is answered.  While
\* this thread joins the scheduler's, the connections are still served.
Close ==
    /\ pc[Closer] = "serving"
    /\ stopping' = TRUE
    /\ job' = [j \in Jobs |-> IF job[j].st = "queued"
                              THEN Finished(job[j], "error") ELSE job[j]]
    /\ late' = late \cup {w \in RunningFor(Clients) : wpc[w] # "native"}
    /\ Goto(Closer, "closing")
    /\ UNCHANGED <<cache, opLock, aliases, channels, people, drv, fault, sealed,
                   wpc, wjob, arg, todo, dropping, snapshot>>

\* The join ended or timed out: the connections are shut down.
CloseShut ==
    /\ pc[Closer] = "closing"
    /\ snapshot' = registered
    /\ Goto(Closer, "dropEach")
    /\ UNCHANGED <<cache, opLock, aliases, channels, people, drv, flags, work,
                   arg, todo, dropping>>

\* This thread drops the registered clients, whose own threads go on.
CloseDrop ==
    \E c \in snapshot :
        /\ pc[Closer] = "dropEach"
        /\ snapshot' = snapshot \ {c}
        /\ BeginDrop(Closer, c)

\* Mutant: the cache is cleared and its models are forgotten.
CloseForgets ==
    /\ pc[Closer] = "dropEach" /\ snapshot = {}
    /\ drv = None
    /\ drv' = Closer
    /\ models' = [k \in Keys |-> None]
    /\ Goto(Closer, "closeRelease")
    /\ UNCHANGED <<native, owners, opLock, aliases, channels, people, flags, work,
                   arg, todo, dropping, snapshot>>

\* After the join, which may time out: the cache is cleared first, so that
\* no worker passes its admission check, and only then released.
CloseClear ==
    /\ pc[Closer] = "dropEach" /\ snapshot = {}
    /\ drv = None
    /\ drv' = Closer
    /\ todo' = [todo EXCEPT ![Closer] = {models[k] : k \in Cached}]
    /\ models' = [k \in Keys |-> None]
    /\ Goto(Closer, "closeRelease")
    /\ UNCHANGED <<native, owners, opLock, aliases, channels, people, flags, work,
                   arg, dropping, snapshot>>

CloseRelease ==
    /\ pc[Closer] = "closeRelease"
    /\ GateFree
    /\ \E h \in todo[Closer] :
          \/ /\ ~sealed
             /\ native' = [native EXCEPT ![h] = None]
             /\ buffers' = [x \in Channels |-> IF buffers[x] = h THEN None ELSE buffers[x]]
             /\ todo' = [todo EXCEPT ![Closer] = @ \ {h}]
             /\ UNCHANGED <<fault, sealed>>
          \/ /\ TeardownFails
             /\ fault' = TRUE
             /\ todo' = [todo EXCEPT ![Closer] = {}]
             /\ UNCHANGED <<native, buffers>>
    /\ UNCHANGED <<models, owners, opLock, aliases, io, poisoned, people, drv, stopping,
                   work, pc, arg, dropping, snapshot>>

Closed ==
    /\ pc[Closer] = "closeRelease" /\ todo[Closer] = {}
    /\ drv' = None
    /\ Goto(Closer, "closed")
    /\ UNCHANGED <<cache, opLock, aliases, channels, people, flags, work, arg, todo, dropping, snapshot>>

----------------------------------------------------------------------------
(* Workers: execute() and the native part of RknnBackend.infer.            *)

Step(w, from, to) == wpc[w] = from /\ wpc' = [wpc EXCEPT ![w] = to]

Pick(w) ==
    /\ Step(w, "idle", "lockOp")
    /\ ~stopping
    /\ \E j \in Jobs :
          /\ job[j].st = "queued" /\ ~job[j].expired
          /\ \A v \in Workers : wpc[v] # "idle" => job[wjob[v]].key # job[j].key
          /\ job' = [job EXCEPT ![j].st = "running"]
          /\ wjob' = [wjob EXCEPT ![w] = j]
    /\ UNCHANGED <<cache, opLock, aliases, channels, people, drv, flags, late, threads>>

\* A pass over the queues finishes the jobs that expired there.
Discard(w) ==
    /\ wpc[w] = "idle" /\ ~stopping
    /\ \E j \in Jobs :
          /\ job[j].st = "queued" /\ job[j].expired
          /\ job' = [job EXCEPT ![j] = Finished(@, "error")]
    /\ UNCHANGED <<cache, opLock, aliases, channels, people, drv, flags, wpc, wjob, late, threads>>

LockOp(w) ==
    LET h == job[wjob[w]].handle IN
    /\ Step(w, "lockOp", "outer")
    /\ opLock[h] = None
    /\ opLock' = [opLock EXCEPT ![h] = w]
    /\ UNCHANGED <<cache, aliases, channels, people, drv, flags, job, wjob, late, threads>>

\* Mutant: a closing client and a stopping service are not looked at.
CurrentModel(r) ==
    /\ ~fault
    /\ models[r.key] = r.handle
    /\ r.key \in aliases[r.client] /\ r.client \in owners[r.handle]
    /\ r.chan # None => io[r.client][r.key] = r.chan /\ r.chan \notin poisoned
    /\ ~r.expired

\* The part of validate_admission that is read under _lock, and the deadline.
Current(r) ==
    /\ ~fault /\ ~stopping
    /\ r.client \notin closing
    /\ models[r.key] = r.handle
    /\ r.key \in aliases[r.client] /\ r.client \in owners[r.handle]
    /\ r.chan # None => io[r.client][r.key] = r.chan /\ r.chan \notin poisoned
    /\ ~r.expired

\* A first look before waiting for the gate and the kernel lock.
OuterCheck(w) ==
    /\ Step(w, "outer", "gate")
    /\ auth[job[wjob[w]].client] /\ Current(job[wjob[w]])
    /\ UNCHANGED <<cache, opLock, aliases, channels, people, drv, flags,
                   job, wjob, late, threads>>

EnterGate(w) ==
    /\ Step(w, "gate", "inside")
    /\ UNCHANGED <<cache, opLock, aliases, channels, people, drv, flags,
                   job, wjob, late, threads>>

\* The decisive look, under the gate's read side and the shared kernel lock:
\* the authorizer first, then the service's own state.
InnerAuthorize(w) ==
    /\ Step(w, "inside", "authed")
    /\ auth[job[wjob[w]].client]
    /\ ~sealed
    /\ UNCHANGED <<cache, opLock, aliases, channels, people, drv, flags,
                   job, wjob, late, threads>>

\* Mutant: the outer check is trusted.
InnerTrusts(w) ==
    /\ Step(w, "authed", "native")
    /\ UNCHANGED <<cache, opLock, aliases, channels, people, drv, flags,
                   job, wjob, late, threads>>

InnerCheck(w) ==
    /\ Step(w, "authed", "native")
    /\ Current(job[wjob[w]])
    /\ UNCHANGED <<cache, opLock, aliases, channels, people, drv, flags,
                   job, wjob, late, threads>>

\* Mutant: only a successful job leaves the model's operation lock.
FinishKeepsLock(w, outcome) ==
    /\ job' = [job EXCEPT ![wjob[w]] = Finished(@, outcome)]
    /\ opLock' = IF outcome = "ok"
                 THEN [opLock EXCEPT ![job[wjob[w]].handle] = None] ELSE opLock
    /\ wpc' = [wpc EXCEPT ![w] = "idle"]
    /\ wjob' = [wjob EXCEPT ![w] = None]
    /\ late' = late \ {w}
    /\ UNCHANGED <<cache, aliases, channels, people, drv, flags, threads>>

\* The job ends: gate and operation lock are left, the caller is told.
Finish(w, outcome) ==
    /\ job' = [job EXCEPT ![wjob[w]] = Finished(@, outcome)]
    /\ opLock' = [opLock EXCEPT ![job[wjob[w]].handle] = None]
    /\ wpc' = [wpc EXCEPT ![w] = "idle"]
    /\ wjob' = [wjob EXCEPT ![w] = None]
    /\ late' = late \ {w}
    /\ UNCHANGED <<cache, aliases, channels, people, drv, flags, threads>>

\* A check fails, or waiting for the kernel lock times out.
Refuse(w) ==
    LET r == job[wjob[w]] IN
    /\ \/ wpc[w] \in {"outer", "inside"} /\ ~(auth[r.client] /\ Current(r))
       \/ wpc[w] = "authed" /\ ~Current(r)
       \/ wpc[w] = "inside" /\ (sealed \/ "timeout" \in Failures)
    /\ Finish(w, "error")

Return(w) == wpc[w] = "native" /\ \E o \in {"ok", "error"} : Finish(w, o)

----------------------------------------------------------------------------
ThreadStep(t) ==
    UnloadLock(t) \/ UnloadOp(t) \/ UnloadIo(t) \/ UnloadRelease(t) \/ DropNext(t) \/ DropEnd(t)

ClientStep(c) ==
    \/ Hello(c) \/ LoadLock(c) \/ LoadNative(c) \/ LoadCommit(c)
    \/ OpenLock(c) \/ OpenOp(c) \/ OpenNative(c)
    \/ Answer(c) \/ ThreadStep(c) \/ Leave(c)

Request(c) ==
    \/ Accept(c) \/ BeginLoad(c) \/ BeginOpen(c) \/ Infer(c) \/ InferRefused(c)
    \/ BeginUnload(c) \/ Disconnect(c)

CloserStep == CloseShut \/ CloseDrop \/ CloseClear \/ CloseRelease \/ Closed \/ ThreadStep(Closer)

WorkerStep(w) ==
    \/ Pick(w) \/ Discard(w) \/ LockOp(w) \/ OuterCheck(w) \/ EnterGate(w)
    \/ InnerAuthorize(w) \/ InnerCheck(w) \/ Refuse(w) \/ Return(w)

Next ==
    \/ \E c \in Clients : Request(c) \/ ClientStep(c) \/ Revoke(c)
    \/ \E j \in Jobs : Expire(j)
    \/ Close \/ CloserStep
    \/ \E w \in Workers : WorkerStep(w)

Spec == Init /\ [][Next]_vars

\* Every thread and worker that can take a step does; callers, appmgr and
\* the operator may do nothing.
FairSpec ==
    /\ Spec
    /\ \A c \in Clients : WF_vars(ClientStep(c))
    /\ \A w \in Workers : WF_vars(WorkerStep(w))
    /\ \A j \in Jobs : WF_vars(Expire(j))
    /\ WF_vars(CloserStep)

----------------------------------------------------------------------------
\* Every variable has the shape of the attribute or local it models.
TypeOK ==
    /\ models \in [Keys -> Handles \cup {None}]
    /\ native \in [Handles -> Keys \cup {None}]
    /\ owners \in [Handles -> SUBSET Clients]
    /\ opLock \in [Handles -> Threads \cup Workers \cup {None}]
    /\ aliases \in [Clients -> SUBSET Keys]
    /\ io \in [Clients -> [Keys -> Channels \cup {None}]]
    /\ buffers \in [Channels -> Handles \cup {None}]
    /\ poisoned \subseteq Channels
    /\ registered \subseteq Clients /\ closing \subseteq Clients
    /\ auth \in [Clients -> BOOLEAN]
    /\ drv \in Threads \cup {None}
    /\ fault \in BOOLEAN /\ sealed \in BOOLEAN /\ stopping \in BOOLEAN
    /\ job \in [Jobs -> [st : {"free", "queued", "running", "ok", "error"},
                        client : Clients \cup {None}, key : Keys \cup {None},
                        handle : Handles \cup {None}, chan : Channels \cup {None},
                        expired : BOOLEAN, waited : BOOLEAN]]
    /\ wpc \in [Workers -> {"idle", "lockOp", "outer", "gate"} \cup Inside]
    /\ wjob \in [Workers -> Jobs \cup {None}]
    /\ arg \in [Threads -> [key : Keys \cup {None}, handle : Handles \cup {None},
                            job : Jobs \cup {None}]]
    /\ dropping \in [Threads -> Clients \cup {None}]
    /\ snapshot \subseteq Clients /\ late \subseteq Workers

\* "The model/IO must stay alive until the native call (not merely its
\* response) has ended": whatever unload, disconnect, timeout, re-open and
\* close() do, a native inference has its context and its channel's buffers,
\* and it has them for itself: the context's operation lock is its own.
NoUseAfterRelease ==
    \A w \in Workers : wpc[w] = "native" =>
        LET r == job[wjob[w]] IN
        /\ native[r.handle] = r.key
        /\ r.chan # None => buffers[r.chan] = r.handle
        /\ opLock[r.handle] = w

\* The reservations bound the memory that native contexts and channels
\* really occupy: through concurrent loads, failed allocations, disconnects
\* and shutdown the daemon stays inside its budget.
BudgetRespected ==
    LET loaded == {h \in Handles : native[h] # None}
        bound == {x \in Channels : buffers[x] # None /\ native[buffers[x]] # None}
    IN  Sum([h \in loaded |-> Mem[native[h]]], loaded)
        + Sum([x \in bound |-> IoMem[native[buffers[x]]]], bound) <= Budget

\* And each application generation inside its own limit, however many
\* connections it spreads its models over.
InstanceLimited == \A c \in registered : InstanceReserved(c) <= Limit

\* "Never authorize its reuse after an error": two requests that may reach
\* the native layer never have the same DMA channel, though the first one's
\* caller has given up.
ChannelOneJob ==
    \A i, j \in Jobs :
        i # j /\ job[i].st = "running" /\ job[j].st \in {"queued", "running"}
        /\ job[i].chan # None => job[i].chan # job[j].chan

\* A revoked launch record, a closing client and a stopping service are
\* noticed at the native boundary: a worker that was still waiting for the
\* context, the gate or the kernel lock when it happened does not infer.
AdmissionDecides == \A w \in late : wpc[w] # "native"

\* When close() is done and every connection thread has ended, no native
\* context or buffer is left, unless the driver failed.
CloseReleasesAll ==
    pc[Closer] = "closed" /\ (\A c \in Clients : pc[c] = "gone") /\ ~fault =>
        /\ \A h \in Handles : native[h] = None
        /\ \A x \in Channels : buffers[x] = None

\* Outside of load and unload the cache, the reference sets and the native
\* contexts agree: each cached model is loaded and has an owner, each owner
\* has its alias, no context or buffer is loaded that nobody refers to, and
\* no owner's connection is gone.
CacheConsistent ==
    drv = None /\ ~fault /\ ~stopping =>
        /\ \A k \in Cached : native[models[k]] = k /\ owners[models[k]] # {}
        /\ \A h \in Handles : native[h] # None =>
              /\ models[native[h]] = h
              /\ owners[h] = {c \in Clients : native[h] \in aliases[c]}
              /\ \A c \in owners[h] : pc[c] # "gone"
        /\ \A x \in Channels : buffers[x] # None =>
              \E c \in Clients : \E k \in aliases[c] : io[c][k] = x

\* No sequence of requests, disconnects and close() leaks a context or a
\* channel, or leaves an alias of one that is gone.
NothingLeaks == CacheConsistent /\ CloseReleasesAll

\* Every request is answered: a waiting connection is never stuck behind a
\* lock, a busy model or a quarantined driver.
RequestsEnd ==
    \A c \in Clients : (pc[c] \notin {"idle", "gone"}) ~> (pc[c] \in {"idle", "gone"})

\* close() comes to its end, and so does every connection thread.
CloseEnds == stopping ~> (pc[Closer] = "closed" /\ \A c \in Clients : pc[c] = "gone")
=============================================================================
