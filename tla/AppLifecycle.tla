---------------------------- MODULE AppLifecycle ----------------------------
(***************************************************************************)
(* The life of the applications under appmgr: the coordinator and the      *)
(* supervisor, the durable lifecycle document (state.json), the resource   *)
(* journal, the run records beside each application, the launch records    *)
(* inferenced trusts, and the one mutation gate every change holds.        *)
(*                                                                         *)
(* A transaction holds the gate from its first step to its last; its       *)
(* durable writes are separate steps, so the daemon can die between any    *)
(* two of them.  What runs beside it needs no gate: processes exit,        *)
(* SIGCHLD reaps them, GET requests drain the reaped exits.                *)
(*                                                                         *)
(* A generation stands for the pair (instance id, generation), which the   *)
(* code only compares for equality, and for the process id it is launched  *)
(* with; a number nobody refers to any more is used again.                 *)
(***************************************************************************)
EXTENDS Naturals, FiniteSets

CONSTANTS
    Apps,        \* installed, managed applications
    Gens,        \* generations: positive naturals, enough of them
    Scheduled,   \* applications whose plan uses the shared inference service
    Exclusive,   \* applications that claim the one exclusive device
    Restartable, \* applications whose manifest says restart: on-failure
    MaxAttempts, \* health.restart.max_attempts; one window, nothing ages out
    Kinds,       \* which faults the environment may cause
    MaxFaults,   \* bound: how many of them
    MaxOps       \* bound: user and shutdown transactions

ASSUME ConstantsAssumption ==
    /\ Gens \subseteq Nat \ {0}
    /\ Scheduled \subseteq Apps /\ Exclusive \subseteq Apps /\ Restartable \subseteq Apps
    /\ MaxAttempts \in Nat /\ MaxFaults \in Nat /\ MaxOps \in Nat
    /\ Kinds \subseteq {"exit", "dstate", "write", "revoke", "unready",
                        "dependency", "hot", "crash", "orphan", "reboot"}

VARIABLES
    rec,       \* state.json: one lifecycle record per application
    alloc,     \* resource journal: <<app, generation>> with a reservation
    auth,      \* launch records in /run: <<app, generation>>
    run,       \* run.pgid, run.boot_id, run.pid of each application
    procs,     \* live processes: <<app, generation, part>>
    children,  \* Popen objects of this daemon not reaped yet
    exits,     \* reaped exits not drained yet
    lastExit,  \* generation last_exit.json speaks of, 0 if none
    dep,       \* the dependency probes succeed
    task,      \* the transaction that holds the gate
    call,      \* the coordinator call it is in
    recon,     \* the reconciler thread between two transactions
    faults, ops

durable == <<rec, alloc, auth, run>>
world   == <<procs, children, exits, lastExit>>
vars    == <<rec, alloc, auth, run, procs, children, exits, lastExit, dep,
             task, call, recon, faults, ops>>

Waiting   == {"waiting_dependency", "waiting_resource"}
LivePhase == {"starting", "running"}
Unspawned == {"installed", "stopped", "preparing_env"}
Observed  == Waiting \cup LivePhase \cup Unspawned \cup
             {"stopping", "failed", "backoff", "crash_loop"}
Parts == {"leader", "helper", "dstate"}

TypeOK ==
    /\ rec \in [Apps -> [desired: {"running", "stopped"}, obs: Observed,
                         gen: Gens \cup {0}, inst: BOOLEAN, pid: Gens \cup {0},
                         teardown: BOOLEAN, hist: 0..MaxAttempts, retry: BOOLEAN]]
    /\ alloc \subseteq Apps \X Gens /\ auth \subseteq Apps \X Gens
    /\ run \in [Apps -> [gen: Gens \cup {0}, stage: 0..3, old: BOOLEAN]]
    /\ procs \subseteq Apps \X Gens \X Parts
    /\ children \subseteq Apps \X Gens /\ exits \subseteq Apps \X Gens
    /\ lastExit \in [Apps -> Gens \cup {0}]
    /\ recon \in [boot: BOOLEAN, todo: SUBSET Apps]
    /\ faults \in 0..MaxFaults /\ ops \in 0..MaxOps

NoRun  == [gen |-> 0, stage |-> 0, old |-> FALSE]
NoTask == [job |-> "idle", step |-> "", app |-> {}, todo |-> {}, swept |-> {},
           exit |-> FALSE]
NoCall == [pc |-> "", op |-> "", app |-> {}, gen |-> 0, pid |-> 0, rv |-> "no",
           fence |-> FALSE, up |-> FALSE]

Init ==
    /\ rec = [a \in Apps |-> [desired |-> "stopped", obs |-> "installed", gen |-> 0,
                              inst |-> FALSE, pid |-> 0, teardown |-> FALSE,
                              hist |-> 0, retry |-> FALSE]]
    /\ alloc = {} /\ auth = {} /\ run = [a \in Apps |-> NoRun]
    /\ procs = {} /\ children = {} /\ exits = {} /\ lastExit = [a \in Apps |-> 0]
    /\ dep = TRUE /\ task = NoTask /\ call = NoCall
    /\ recon = [boot |-> FALSE, todo |-> {}] /\ faults = 0 /\ ops = 0

-----------------------------------------------------------------------------
\* What the supervisor reads.

Group(a, g)  == {p \in procs : p[1] = a /\ p[2] = g}
Leader(a, g) == <<a, g, "leader">> \in procs
\* killpg(pgid, 0).
GroupAlive(a, g) == Group(a, g) # {}
HasRecord(a) == run[a].stage > 0
\* is_running: a committed run.pid whose process lives and is ours.
Running(a) == IF run[a].stage = 3 /\ Leader(a, run[a].gen) THEN run[a].gen ELSE 0
\* A dead leader's group may be signalled only with a boot id of this boot.
Trusted(a) == run[a].stage >= 2 /\ ~run[a].old

Fault(kind) == kind \in Kinds /\ faults < MaxFaults /\ faults' = faults + 1
\* The same, where the fault is one outcome of a step.
Maybe(kind, bad) == IF bad THEN Fault(kind) ELSE faults' = faults

\* SIGKILL to a group: its leader dies; a helper in an uninterruptible sleep
\* stays until the kernel lets it go.
Killed(a, g, stays) ==
    (procs \ Group(a, g)) \cup (IF stays THEN {<<a, g, "dstate">>} ELSE {})
\* An "orphan" is a group no record on disk could contain.
MayStay(a, g, stays) ==
    /\ stays => \E part \in {"helper", "dstate"} : <<a, g, part>> \in procs
    /\ IF <<a, g, "dstate">> \in procs THEN faults' = faults
       ELSE Maybe(IF run[a].stage < 2 THEN "orphan" ELSE "dstate", stays)

\* transition() and set_desired(): one atomic replacement of state.json.
Put(a, fields) == rec' = [rec EXCEPT ![a] = fields]
Desire(a, d) == Put(a, [rec[a] EXCEPT !.desired = d])
Pending(a) == Put(a, [rec[a] EXCEPT !.obs = "stopping", !.teardown = TRUE])
Retired(r, obs) == [r EXCEPT !.obs = obs, !.pid = 0, !.teardown = FALSE]

\* Every generation something still refers to.
InUse(a) ==
    {rec[a].gen, rec[a].pid, run[a].gen} \cup {p[2] : p \in {q \in procs : q[1] = a}}
    \cup {x[2] : x \in {y \in alloc \cup auth \cup children \cup exits : y[1] = a}}

\* Where a call goes next; the task reads the outcome at "ok" and "fail".
Goto(pc) == call' = [call EXCEPT !.pc = pc]
Ok(up) == call' = [call EXCEPT !.pc = "ok", !.up = up]
At(pc) == call.pc = pc
Call(op, a) == [NoCall EXCEPT !.pc = "begin", !.op = op, !.app = {a}]
StopCall(a, desired) ==
    [NoCall EXCEPT !.pc = "intent", !.op = desired, !.app = {a},
                   !.gen = rec[a].gen, !.pid = rec[a].pid]
App == CHOOSE a \in call.app : TRUE
Starting == call.op \notin {"stopped", "running"}

-----------------------------------------------------------------------------
\* AppCoordinator.start up to the spawn.

\* No new identity over an incomplete teardown or a leftover run record; a
\* live process is adopted; an admission wait keeps its identity; every other
\* attempt mints a generation.  Bound: while there is one left to mint.
Admit ==
    LET a == App
        reuse == /\ call.op \in {"boot_restore", "reconcile_wait"}
                 /\ rec[a].desired = "running" /\ rec[a].obs \in Waiting
                 /\ rec[a].inst /\ ~rec[a].teardown
    IN /\ At("begin") /\ UNCHANGED <<alloc, auth, run, procs, children, exits, dep,
                                     task, recon, faults, ops>>
       /\ \/ /\ Running(a) = 0 /\ (rec[a].teardown \/ HasRecord(a))
             /\ Goto("fail") /\ UNCHANGED <<rec, lastExit>>
          \/ /\ Running(a) # 0 /\ Desire(a, "running")
             /\ call' = [call EXCEPT !.pc = "adopt", !.pid = Running(a)]
             /\ UNCHANGED lastExit
          \/ /\ Running(a) = 0 /\ ~rec[a].teardown /\ ~HasRecord(a) /\ reuse
             /\ call' = [call EXCEPT !.pc = "probe", !.gen = rec[a].gen]
             /\ UNCHANGED <<rec, lastExit>>
          \/ /\ Running(a) = 0 /\ ~rec[a].teardown /\ ~HasRecord(a) /\ ~reuse
             /\ Gens \ InUse(a) # {}
             /\ LET g == CHOOSE x \in Gens \ InUse(a) : TRUE
                IN /\ Put(a, [rec[a] EXCEPT
                              !.gen = g, !.desired = "running", !.obs = "preparing_env",
                              !.inst = TRUE, !.pid = 0, !.teardown = FALSE, !.retry = FALSE,
                              !.hist = IF call.op = "start" THEN 0 ELSE @])
                   /\ lastExit' = [lastExit EXCEPT ![a] = IF @ = g THEN 0 ELSE @]
                   /\ call' = [call EXCEPT !.pc = "probe", !.gen = g]

\* Mutant: adoption trusts that the dead daemon had published the record.
AdoptUnpublished ==
    /\ At("adopt") /\ Put(App, [rec[App] EXCEPT !.obs = "running", !.pid = call.pid])
    /\ Ok(TRUE)
    /\ UNCHANGED <<alloc, auth, run, world, dep, task, recon, faults, ops>>

\* The idempotent start of a live process finishes what a dead daemon left.
Adopt ==
    LET a == App IN
    /\ At("adopt") /\ Put(a, [rec[a] EXCEPT !.obs = "running", !.pid = call.pid])
    /\ IF a \in Scheduled THEN Goto("republish") ELSE Ok(TRUE)
    /\ UNCHANGED <<alloc, auth, run, world, dep, task, recon, faults, ops>>

Republish ==
    LET a == App IN
    /\ At("republish")
    /\ IF Leader(a, call.pid) THEN auth' = auth \cup {<<a, call.pid>>} /\ Ok(TRUE)
       ELSE auth' = auth /\ Goto("fail")   \* its /proc entry cannot be read
    /\ UNCHANGED <<rec, alloc, run, world, dep, task, recon, faults, ops>>

\* A missing dependency is a wait, not a crash; an interrupted admission's
\* reservation goes first.
Probe ==
    LET a == App IN
    /\ At("probe")
    /\ IF dep
       THEN /\ Put(a, [rec[a] EXCEPT !.obs = "waiting_resource"])
            /\ Goto("reserve") /\ UNCHANGED alloc
       ELSE /\ alloc' = alloc \ {<<a, call.gen>>}
            /\ Goto("defer") /\ UNCHANGED rec
    /\ UNCHANGED <<auth, run, world, dep, task, recon, faults, ops>>

Defer ==
    /\ At("defer") /\ Put(App, [rec[App] EXCEPT !.obs = "waiting_dependency"])
    /\ Ok(FALSE)
    /\ UNCHANGED <<alloc, auth, run, world, dep, task, recon, faults, ops>>

\* ResourceManager.reserve: idempotent for the generation, else the instance
\* and the exclusive device must have no other owner.
Conflict(a, g) ==
    \E x \in alloc \ {<<a, g>>} : x[1] = a \/ {x[1], a} \subseteq Exclusive
Reserve ==
    LET a == App
        free == <<a, call.gen>> \in alloc \/ ~Conflict(a, call.gen)
    IN /\ At("reserve")
       /\ alloc' = IF free THEN alloc \cup {<<a, call.gen>>} ELSE alloc
       /\ IF free THEN Goto("commit") ELSE Ok(FALSE)
       /\ UNCHANGED <<rec, auth, run, world, dep, task, recon, faults, ops>>

-----------------------------------------------------------------------------
\* supervisor.start: spawn, three identity files, on_spawn, READY.

Commit ==
    /\ At("commit") /\ Put(App, [rec[App] EXCEPT !.obs = "starting"])
    /\ Goto("spawn")
    /\ UNCHANGED <<alloc, auth, run, world, dep, task, recon, faults, ops>>

Popen ==
    LET a == App IN
    /\ At("spawn")
    /\ \E parts \in {{"leader"}, {"leader", "helper"}} :
          procs' = procs \cup {<<a, call.gen, p>> : p \in parts}
    /\ children' = children \cup {<<a, call.gen>>}
    /\ call' = [call EXCEPT !.pc = "ids", !.rv = IF a \in Scheduled THEN "no" ELSE "yes"]
    /\ UNCHANGED <<durable, exits, lastExit, dep, task, recon, faults, ops>>

\* run.pgid, then run.boot_id, then run.pid, which commits the record.
WriteRunIds ==
    LET a == App IN
    /\ At("ids") /\ run[a].stage < 3
    /\ \E bad \in BOOLEAN :
          /\ Maybe("write", bad)
          /\ IF bad THEN run' = run /\ Goto("term")
             ELSE /\ run' = [run EXCEPT ![a] = [gen |-> call.gen, stage |-> @.stage + 1,
                                                old |-> FALSE]]
                  /\ call' = [call EXCEPT !.pc = IF run[a].stage = 2 THEN "bind" ELSE "ids"]
    /\ UNCHANGED <<rec, alloc, auth, world, dep, task, recon, ops>>

\* Mutant: the process is published without being named in state.json.
OnSpawnUnnamed ==
    /\ At("bind") /\ UNCHANGED rec
    /\ call' = [call EXCEPT !.pc = IF App \in Scheduled THEN "publish" ELSE "ready",
                            !.pid = call.gen]
    /\ UNCHANGED <<alloc, auth, run, world, dep, task, recon, faults, ops>>

\* _on_spawn: name the process in the lifecycle record, then publish.
OnSpawn ==
    LET a == App IN
    /\ At("bind") /\ Put(a, [rec[a] EXCEPT !.obs = "starting", !.pid = call.gen])
    /\ call' = [call EXCEPT !.pc = IF a \in Scheduled THEN "publish" ELSE "ready",
                            !.pid = call.gen]
    /\ UNCHANGED <<alloc, auth, run, world, dep, task, recon, faults, ops>>

Publish ==
    LET a == App IN
    /\ At("publish")
    /\ IF Running(a) = call.gen
       THEN auth' = auth \cup {<<a, call.gen>>} /\ Goto("ready")
       ELSE auth' = auth /\ Goto("term")   \* resolve_identity refused
    /\ UNCHANGED <<rec, alloc, run, world, dep, task, recon, faults, ops>>

\* READY arrives, or the leader is dead or mute until the timeout.
AwaitReady ==
    LET a == App IN
    /\ At("ready")
    /\ \E bad \in BOOLEAN :
          /\ ~bad => Leader(a, call.gen)
          /\ IF Leader(a, call.gen) THEN Maybe("unready", bad) ELSE faults' = faults
          /\ IF bad THEN rec' = rec /\ Goto("term")
             ELSE /\ Put(a, [rec[a] EXCEPT !.obs = "running", !.pid = call.gen, !.retry = FALSE])
                  /\ Ok(TRUE)
    /\ UNCHANGED <<alloc, auth, run, world, dep, task, recon, ops>>

-----------------------------------------------------------------------------
\* AppCoordinator.stop, and the teardown it shares with a failed start.

StopIntent ==
    /\ At("intent") /\ Desire(App, call.op) /\ Goto("stopping")
    /\ UNCHANGED <<alloc, auth, run, world, dep, task, recon, faults, ops>>

StopPhase ==
    /\ At("stopping") /\ Put(App, [rec[App] EXCEPT !.obs = "stopping"]) /\ Goto("term")
    /\ UNCHANGED <<alloc, auth, run, world, dep, task, recon, faults, ops>>

\* The group the teardown may signal: the spawned one, or the recorded one.
Target == IF Starting THEN call.gen ELSE run[App].gen
Addressable == Starting \/ Running(App) # 0 \/ Trusted(App)

\* InferenceAuthorizationRegistry.revoke: nothing to do without a process or
\* a record; the removal itself can fail.
Revocation(next) ==
    LET x == <<App, call.pid>> IN
    \E bad \in BOOLEAN :
        /\ bad => x \in auth
        /\ Maybe("revoke", bad)
        /\ auth' = IF bad THEN auth ELSE auth \ {x}
        /\ call' = [call EXCEPT !.pc = next, !.rv = IF bad THEN "err" ELSE "yes"]

\* SIGTERM and the grace period.  A group that leaves by itself keeps its
\* authorization until then; any other is fenced before the SIGKILL.
Terminate ==
    LET a == App
        alive == Leader(a, Target) /\ (Starting \/ Running(a) # 0)
    IN /\ At("term")
       /\ UNCHANGED <<rec, alloc, run, children, exits, lastExit, dep, task, recon, ops>>
       /\ \/ /\ ~Addressable
             /\ Goto("fence") /\ UNCHANGED <<auth, procs, faults>>
          \/ /\ Addressable /\ alive /\ <<a, Target, "dstate">> \notin procs
             /\ procs' = procs \ Group(a, Target)
             /\ Goto("fence") /\ UNCHANGED <<auth, faults>>
          \/ /\ Addressable /\ call.rv # "yes"
             /\ Revocation("kill") /\ UNCHANGED procs
          \/ /\ Addressable /\ call.rv = "yes"
             /\ Goto("kill") /\ UNCHANGED <<auth, procs, faults>>

Kill ==
    /\ At("kill")
    /\ \E stays \in BOOLEAN :
          /\ MayStay(App, Target, stays)
          /\ procs' = Killed(App, Target, stays)
    /\ Goto("fence")
    /\ UNCHANGED <<durable, children, exits, lastExit, dep, task, recon, ops>>

\* Mutant: the leader alone is taken for the whole group.
FenceHeldByLeader(a, g) == Addressable /\ Leader(a, g)

FenceHeld(a, g) == Addressable /\ GroupAlive(a, g)

\* _assert_process_fence_cleared: only an empty group retires the exit event
\* and the run record; otherwise both stay for the next attempt.
Fence ==
    LET a == App
        x == <<a, Target>>
        held == FenceHeld(a, Target)
        reaped == x \in children /\ ~Leader(a, Target)
        queued == IF reaped THEN exits \cup {x} ELSE exits
        drained == {y \in queued : y[1] = a /\ ~GroupAlive(a, y[2])}
        news == IF drained = {} THEN {lastExit[a]}
                ELSE IF x \in drained THEN {x[2]} ELSE {y[2] : y \in drained}
    IN /\ At("fence")
       /\ children' = IF reaped THEN children \ {x} ELSE children
       /\ IF held
          THEN /\ exits' = queued
               /\ UNCHANGED <<run, lastExit>>
               /\ call' = [call EXCEPT !.pc = "revoke", !.fence = TRUE]
          ELSE /\ exits' = queued \ drained
               /\ \E g \in news : lastExit' = [lastExit EXCEPT ![a] = g]
               /\ run' = [run EXCEPT ![a] = NoRun]
               /\ Goto("revoke")
       /\ UNCHANGED <<rec, alloc, auth, procs, dep, task, recon, faults, ops>>

Revoke ==
    /\ At("revoke")
    /\ IF call.rv = "yes" THEN Goto("settle") /\ UNCHANGED <<auth, faults>>
       ELSE Revocation("settle")
    /\ UNCHANGED <<rec, alloc, run, world, dep, task, recon, ops>>

\* A surviving group or an authorization that cannot be removed keeps the
\* identity and the reservations; otherwise the reservations go.
Settle ==
    LET a == App IN
    /\ At("settle")
    /\ IF call.fence \/ (Starting /\ HasRecord(a))
       THEN /\ Put(a, [rec[a] EXCEPT !.obs = "stopping", !.teardown = TRUE,
                                     !.pid = IF Starting THEN call.gen ELSE @])
            /\ Goto("fail") /\ UNCHANGED alloc
       ELSE IF call.rv = "err"
       THEN /\ Put(a, [rec[a] EXCEPT !.obs = IF Starting THEN "failed" ELSE "stopping",
                                     !.teardown = TRUE])
            /\ Goto("fail") /\ UNCHANGED alloc
       ELSE /\ alloc' = IF Starting \/ rec[a].inst THEN alloc \ {<<a, call.gen>>} ELSE alloc
            /\ Goto("retire") /\ UNCHANGED rec
    /\ UNCHANGED <<auth, run, world, dep, task, recon, faults, ops>>

\* A stop is complete; a failed start is a failure, or a wait when the
\* dependency vanished under the launch.
Stopped ==
    /\ At("retire") /\ ~Starting
    /\ Put(App, [Retired(rec[App], "stopped") EXCEPT !.hist = 0, !.retry = FALSE])
    /\ Ok(FALSE)
    /\ UNCHANGED <<alloc, auth, run, world, dep, task, recon, faults, ops>>

FailedStart ==
    LET a == App IN
    /\ At("retire") /\ Starting
    /\ IF dep THEN Put(a, Retired(rec[a], "failed")) /\ Goto("fail")
       ELSE /\ Put(a, [Retired(rec[a], "waiting_dependency") EXCEPT !.inst = FALSE])
            /\ Ok(FALSE)
    /\ UNCHANGED <<alloc, auth, run, world, dep, task, recon, faults, ops>>

CallStep ==
    \/ Admit \/ Adopt \/ Republish \/ Probe \/ Defer \/ Reserve
    \/ Commit \/ Popen \/ WriteRunIds \/ OnSpawn \/ Publish \/ AwaitReady
    \/ StopIntent \/ StopPhase \/ Terminate \/ Kill \/ Fence \/ Revoke
    \/ Settle \/ Stopped \/ FailedStart

-----------------------------------------------------------------------------
\* Transactions: who holds the gate and which call comes next.

Idle == task.job = "idle"
Begin(job, step, apps, todo) ==
    task' = [NoTask EXCEPT !.job = job, !.step = step, !.app = apps, !.todo = todo]
End == task' = NoTask /\ call' = NoCall
Done == call.pc \in {"ok", "fail"}
Subject == CHOOSE a \in task.app : TRUE

\* do_start, do_stop (or the memory controller's hold), do_restart.
UserOp(a) ==
    /\ Idle /\ ops < MaxOps /\ ops' = ops + 1
    /\ \/ Begin("start", "", {a}, {}) /\ call' = Call("start", a)
       \/ Begin("stop", "", {a}, {}) /\ call' = StopCall(a, "stopped")
       \/ Begin("restart", "stop", {a}, {}) /\ call' = StopCall(a, "stopped")
    /\ UNCHANGED <<durable, world, dep, recon, faults>>

UserDone ==
    /\ task.job \in {"start", "stop", "restart"} /\ Done
    /\ IF task.step = "stop" /\ call.pc = "ok"
       THEN task' = [task EXCEPT !.step = ""] /\ call' = Call("restart", Subject)
       ELSE End
    /\ UNCHANGED <<durable, world, dep, recon, faults, ops>>

\* One pass of the reconciler, the restoration after a restart, and the
\* orderly shutdown share their loops over the applications.
StaleRecord(a) == run[a].stage = 3 /\ Running(a) = 0
\* Mutant: only marked teardowns and fences are retried, no forgotten stop.
NeedsRecoveryMarked(a, boot) ==
    \/ rec[a].obs = "stopping" \/ rec[a].teardown
    \/ Running(a) = 0 /\ (HasRecord(a) \/ a \in task.swept)
    \/ /\ boot /\ Running(a) = 0 /\ rec[a].obs \in LivePhase \cup {"preparing_env"}

NeedsRecovery(a, boot) ==
    \/ rec[a].obs = "stopping" \/ rec[a].teardown
    \/ Running(a) = 0 /\ HasRecord(a)
    \/ Running(a) = 0 /\ a \in task.swept
    \/ /\ boot /\ Running(a) = 0 /\ ~HasRecord(a)
       /\ rec[a].obs \in LivePhase \cup {"preparing_env"}
    \/ /\ rec[a].desired = "stopped"
       /\ \/ Running(a) # 0 \/ HasRecord(a)
          \/ rec[a].obs \in Waiting \cup LivePhase \cup {"preparing_env"}

BeginTick ==
    /\ Idle /\ (recon.boot \/ recon.todo = {})
    /\ Begin(IF recon.boot THEN "boot" ELSE "tick", "sweep", {}, Apps)
    /\ UNCHANGED <<durable, world, dep, call, recon, faults, ops>>

\* sweep_stale: a dead leader's same-boot group is killed; its record goes
\* once the group is empty.  A record without run.pid is not touched.
Sweep ==
    /\ task.step = "sweep"
    /\ IF ~\E a \in task.todo : StaleRecord(a)
       THEN /\ task' = [task EXCEPT !.step = "recover", !.todo = Apps]
            /\ UNCHANGED <<run, procs, faults>>
       ELSE \E a \in task.todo, stays \in BOOLEAN :
            LET g == run[a].gen
                left == Trusted(a) /\ (stays \/ <<a, g>> \in children)   \* a zombie counts
            IN /\ StaleRecord(a) /\ MayStay(a, g, stays) /\ (stays => Trusted(a))
               /\ procs' = IF Trusted(a) THEN Killed(a, g, stays) ELSE procs
               /\ run' = IF left THEN run ELSE [run EXCEPT ![a] = NoRun]
               /\ task' = [task EXCEPT !.todo = @ \ {a},
                                       !.swept = IF left THEN @ ELSE @ \cup {a}]
    /\ UNCHANGED <<rec, alloc, auth, children, exits, lastExit, dep, call, recon, ops>>

\* _recover_incomplete_teardowns: retry every unfinished teardown with the
\* intent the user last recorded.
Recover ==
    /\ task.step = "recover" /\ call.pc \in {"", "ok", "fail"}
    /\ LET due == {a \in task.todo : NeedsRecovery(a, task.job = "boot")}
       IN IF due = {}
          THEN task' = [task EXCEPT !.step = "alloc", !.swept = {}] /\ call' = NoCall
          ELSE \E a \in due : /\ task' = [task EXCEPT !.todo = @ \ {a}]
                              /\ call' = StopCall(a, rec[a].desired)
    /\ UNCHANGED <<durable, world, dep, recon, faults, ops>>

\* reconcile_allocations: a reservation stays while a run record exists, and
\* while its generation runs, waits, starts, stops or awaits its teardown.
ReconcileAllocations ==
    LET keep(a) == /\ rec[a].inst
                   /\ \/ Running(a) # 0 \/ HasRecord(a) \/ rec[a].teardown
                      \/ rec[a].obs \in Waiting \cup LivePhase \cup {"stopping"}
    IN /\ task.step = "alloc"
       /\ alloc' = {x \in alloc : HasRecord(x[1]) \/ (keep(x[1]) /\ x[2] = rec[x[1]].gen)}
       /\ LET desired == {a \in Apps : rec[a].desired = "running"}
          IN IF task.job = "boot"
             THEN task' = [task EXCEPT !.step = "restore", !.todo = desired]
                  /\ recon' = [boot |-> FALSE, todo |-> {}]
             ELSE task' = NoTask /\ recon' = [recon EXCEPT !.todo = desired]
       /\ UNCHANGED <<rec, auth, run, world, dep, call, faults, ops>>

\* _boot_restore_locked: adopt what runs, start what should, skip a fence.
Restore ==
    /\ task.step = "restore" /\ call.pc \in {"", "ok", "fail"}
    /\ LET todo == {a \in task.todo :
                      Running(a) # 0 \/ (rec[a].obs # "stopping" /\ ~rec[a].teardown)}
       IN IF todo = {} THEN End
          ELSE \E a \in todo :
                 /\ task' = [task EXCEPT !.todo = @ \ {a}]
                 /\ call' = Call(IF Running(a) # 0 THEN "boot_adopt" ELSE "boot_restore", a)
    /\ UNCHANGED <<durable, world, dep, recon, faults, ops>>

\* _shutdown_apps, then the daemon exits and a new one starts.
BeginShutdown ==
    /\ Idle /\ ops < MaxOps /\ ops' = ops + 1 /\ "crash" \in Kinds
    /\ Begin("shutdown", "stop", {}, Apps)
    /\ UNCHANGED <<durable, world, dep, call, recon, faults>>

Shutdown ==
    /\ task.job = "shutdown" /\ call.pc \in {"", "ok", "fail"}
    /\ LET due == {a \in task.todo :
                     \/ Running(a) # 0 \/ HasRecord(a) \/ rec[a].teardown
                     \/ rec[a].obs \in LivePhase \cup {"stopping"}}
       IN IF due = {}
          THEN End /\ children' = {} /\ exits' = {} /\ recon' = [boot |-> TRUE, todo |-> {}]
          ELSE /\ \E a \in due : /\ task' = [task EXCEPT !.todo = @ \ {a}]
                                 /\ call' = StopCall(a, rec[a].desired)
               /\ UNCHANGED <<children, exits, recon>>
    /\ UNCHANGED <<durable, procs, lastExit, dep, faults, ops>>

-----------------------------------------------------------------------------
\* reconcile_one, one gate section per application of the pass.

\* Mutant: the intent is not read again.
BeginOneStale(a) ==
    /\ Idle /\ ~recon.boot /\ a \in recon.todo
    /\ recon' = [recon EXCEPT !.todo = @ \ {a}]
    /\ Begin("one", "decide", {a}, {})
    /\ UNCHANGED <<durable, world, dep, call, faults, ops>>

\* The list of the pass is old: the intent is read again under the gate.
BeginOne(a) ==
    /\ Idle /\ ~recon.boot /\ a \in recon.todo
    /\ recon' = [recon EXCEPT !.todo = @ \ {a}]
    /\ IF rec[a].desired = "running" THEN Begin("one", "decide", {a}, {}) ELSE task' = task
    /\ UNCHANGED <<durable, world, dep, call, faults, ops>>

Policy == task' = [task EXCEPT !.step = "policy"]

\* A live process: record it, stop it when too hot, forgive old attempts
\* once it has been stable.  A dead one: see whether its generation is over.
Decide ==
    LET a == Subject
        r == Running(a)
        seen == [rec[a] EXCEPT !.obs = IF @ \in LivePhase THEN @ ELSE "running", !.pid = r]
    IN /\ task.step = "decide"
       /\ UNCHANGED <<alloc, auth, run, world, dep, recon, ops>>
       /\ \/ /\ r = 0 /\ HasRecord(a) /\ Pending(a) /\ End /\ UNCHANGED faults
          \/ /\ r # 0 /\ Put(a, seen) /\ End /\ UNCHANGED faults
          \/ /\ r # 0 /\ rec[a].hist > 0 /\ End /\ UNCHANGED faults
             /\ Put(a, [seen EXCEPT !.obs = "running", !.hist = 0, !.retry = FALSE])
          \/ /\ r # 0 /\ Fault("hot") /\ Put(a, seen)
             /\ task' = [task EXCEPT !.step = "cool"]
             /\ call' = [StopCall(a, "running") EXCEPT !.pid = r]
          \/ /\ r = 0 /\ ~HasRecord(a) /\ rec[a].obs \in LivePhase /\ rec[a].pid # 0
             /\ task' = [task EXCEPT !.step = "revoke", !.exit = lastExit[a] = rec[a].pid]
             /\ UNCHANGED <<rec, call, faults>>
          \/ /\ r = 0 /\ ~HasRecord(a) /\ ~(rec[a].obs \in LivePhase /\ rec[a].pid # 0)
             /\ Policy /\ UNCHANGED <<rec, call, faults>>

\* A hot application waits with no identity: its next attempt is a new one.
Cool ==
    LET a == Subject IN
    /\ task.step = "cool" /\ Done /\ End
    /\ IF call.pc = "fail" THEN rec' = rec
       ELSE Put(a, [Retired(rec[a], "waiting_resource") EXCEPT !.inst = FALSE])
    /\ UNCHANGED <<alloc, auth, run, world, dep, recon, faults, ops>>

\* observe(): revoke, release, publish the crash, in this order.
ObserveRevoke ==
    LET a == Subject
        x == <<a, rec[a].pid>>
    IN /\ task.step = "revoke"
       /\ \E bad \in BOOLEAN :
             /\ bad => x \in auth
             /\ Maybe("revoke", bad)
             /\ IF bad
                THEN /\ Put(a, [rec[a] EXCEPT !.obs = "failed", !.teardown = TRUE])
                     /\ auth' = auth /\ task' = NoTask
                ELSE /\ auth' = auth \ {x} /\ rec' = rec
                     /\ task' = [task EXCEPT !.step = "release"]
       /\ UNCHANGED <<alloc, run, world, dep, call, recon, ops>>

ObserveRelease ==
    /\ task.step = "release"
    /\ alloc' = alloc \ {<<Subject, rec[Subject].gen>>}
    /\ task' = [task EXCEPT !.step = "crashed"]
    /\ UNCHANGED <<rec, auth, run, world, dep, call, recon, faults, ops>>

\* An exit nobody waited for counts as a lost process, not as a crash.
ObserveCrash ==
    LET a == Subject IN
    /\ task.step = "crashed" /\ Put(a, Retired(rec[a], "failed"))
    /\ IF task.exit
       THEN Policy /\ call' = call
       ELSE task' = [task EXCEPT !.step = "called"] /\ call' = Call("reconcile_restore", a)
    /\ UNCHANGED <<alloc, auth, run, world, dep, recon, faults, ops>>

\* Mutant: the attempt that makes the budget full does not count.
BudgetLeftOneMore(a) == rec[a].hist <= MaxAttempts

BudgetLeft(a) == rec[a].hist < MaxAttempts

\* Waits are retried, lost generations restored, crashes restarted within
\* the manifest's budget, one backoff before each attempt.
RestartPolicy ==
    LET a == Subject
        obs == rec[a].obs
        attempt(op) == task' = [task EXCEPT !.step = "called"] /\ call' = Call(op, a)
    IN /\ task.step = "policy"
       /\ UNCHANGED <<alloc, auth, run, world, dep, recon, faults, ops>>
       /\ \/ /\ obs \in Waiting /\ attempt("reconcile_wait") /\ UNCHANGED rec
          \/ /\ obs \in Unspawned
             /\ attempt("reconcile_restore") /\ UNCHANGED rec
          \/ /\ obs \notin Waiting \cup Unspawned
             /\ \/ a \notin Restartable /\ End /\ UNCHANGED rec
                \/ /\ a \in Restartable /\ ~BudgetLeft(a) /\ End
                   /\ Put(a, [rec[a] EXCEPT !.obs = "crash_loop", !.retry = FALSE])
                \/ /\ a \in Restartable /\ BudgetLeft(a) /\ ~rec[a].retry /\ End
                   /\ Put(a, [rec[a] EXCEPT !.obs = "backoff", !.retry = TRUE])
                \/ /\ a \in Restartable /\ BudgetLeft(a) /\ rec[a].retry
                   /\ attempt("auto_restart") /\ UNCHANGED rec

\* Only an attempt that spawned, or failed, consumes the budget.
OneDone ==
    LET a == Subject
        spent == [rec[a] EXCEPT !.hist = @ + 1, !.retry = FALSE,
                                !.obs = IF call.pc = "ok" THEN "running" ELSE "failed"]
    IN /\ task.step = "called" /\ Done /\ End
       /\ IF call.op = "auto_restart" /\ (call.pc = "fail" \/ call.up)
          THEN Put(a, spent) ELSE rec' = rec
       /\ UNCHANGED <<alloc, auth, run, world, dep, recon, faults, ops>>

TaskStep ==
    \/ UserDone \/ Sweep \/ Recover \/ ReconcileAllocations \/ Restore \/ Shutdown
    \/ Decide \/ Cool \/ ObserveRevoke \/ ObserveRelease \/ ObserveCrash
    \/ RestartPolicy \/ OneDone

Reconciler == BeginTick \/ \E a \in Apps : BeginOne(a)

-----------------------------------------------------------------------------
\* What happens beside the gate.

LeaderExits(a, g) ==
    /\ Leader(a, g) /\ Fault("exit") /\ procs' = procs \ {<<a, g, "leader">>}
    /\ UNCHANGED <<durable, children, exits, lastExit, dep, task, call, recon, ops>>

\* reap_children: SIGCHLD takes the leader's status and kills its group.
ReapChildren(a, g) ==
    /\ <<a, g>> \in children /\ ~Leader(a, g)
    /\ children' = children \ {<<a, g>>} /\ exits' = exits \cup {<<a, g>>}
    /\ \E stays \in BOOLEAN :
          /\ MayStay(a, g, stays)
          /\ procs' = Killed(a, g, stays)
    /\ UNCHANGED <<durable, lastExit, dep, task, call, recon, ops>>

\* drain_exits: an empty group's exit is published, and its own run record
\* cleared; any other event waits.
DrainExits(a, g) ==
    /\ <<a, g>> \in exits /\ ~GroupAlive(a, g)
    /\ exits' = exits \ {<<a, g>>}
    /\ lastExit' = [lastExit EXCEPT ![a] = g]
    /\ run' = IF run[a].stage = 3 /\ run[a].gen = g THEN [run EXCEPT ![a] = NoRun] ELSE run
    /\ UNCHANGED <<rec, alloc, auth, procs, children, dep, task, call, recon, faults, ops>>

HelperDies(a, g) ==
    /\ <<a, g, "dstate">> \in procs /\ procs' = procs \ {<<a, g, "dstate">>}
    /\ UNCHANGED <<durable, children, exits, lastExit, dep, task, call, recon, faults, ops>>

DependencyLost ==
    /\ dep /\ Fault("dependency") /\ dep' = FALSE
    /\ UNCHANGED <<durable, world, task, call, recon, ops>>
DependencyBack ==
    /\ ~dep /\ dep' = TRUE
    /\ UNCHANGED <<durable, world, task, call, recon, faults, ops>>

\* The daemon dies and is started again: its children live on.  Between the
\* spawn and run.boot_id nothing on disk can contain them ("orphan").
Crash ==
    /\ LET uncommitted == /\ call.pc \in {"ids", "term", "kill", "fence"} /\ Starting
                          /\ run[App].stage < 2
       IN Fault(IF uncommitted THEN "orphan" ELSE "crash")
    /\ End /\ children' = {} /\ exits' = {}
    /\ recon' = [boot |-> TRUE, todo |-> {}]
    /\ UNCHANGED <<durable, procs, lastExit, dep, ops>>

\* The device restarts: no process and nothing of /run survives.
Reboot ==
    /\ Fault("reboot") /\ End
    /\ procs' = {} /\ children' = {} /\ exits' = {} /\ auth' = {} /\ dep' = TRUE
    /\ run' = [a \in Apps |-> [run[a] EXCEPT !.old = @ \/ run[a].stage > 0]]
    /\ recon' = [boot |-> TRUE, todo |-> {}]
    /\ UNCHANGED <<rec, alloc, lastExit, ops>>

Environment ==
    \/ \E a \in Apps, g \in Gens :
          LeaderExits(a, g) \/ ReapChildren(a, g) \/ DrainExits(a, g) \/ HelperDies(a, g)
    \/ DependencyLost \/ DependencyBack \/ Crash \/ Reboot

Next ==
    \/ CallStep \/ TaskStep \/ Reconciler \/ Environment
    \/ BeginShutdown \/ \E a \in Apps : UserOp(a)

Spec == Init /\ [][Next]_vars

\* The reconciler thread runs for ever, a transaction runs on, SIGCHLD is
\* delivered, polls drain, a killed process leaves its system call in the
\* end and firmware services come up in the end.
FairSpec ==
    /\ Spec
    /\ WF_vars(CallStep) /\ WF_vars(TaskStep) /\ WF_vars(Reconciler) /\ WF_vars(DependencyBack)
    /\ \A a \in Apps, g \in Gens : /\ WF_vars(ReapChildren(a, g))
                                   /\ WF_vars(DrainExits(a, g))
                                   /\ WF_vars(HelperDies(a, g))

-----------------------------------------------------------------------------
\* A process, whichever part of the group survives, keeps the reservation of
\* its generation, so the journal never gives its device away under it; and an
\* application has live processes of one generation only: nothing is minted
\* over a teardown, a run record or a helper that outlived its kill.
ResourcesHeld ==
    \A p \in procs : /\ <<p[1], p[2]>> \in alloc
                     /\ \A q \in procs : p[1] = q[1] => p[2] = q[2]

\* The launch record of a live process is the one the next stop revokes:
\* the lifecycle record names exactly its process and its generation.
AuthorizationRevocable ==
    \A x \in auth : Leader(x[1], x[2])
                    => rec[x[1]].pid = x[2] /\ rec[x[1]].gen = x[2] /\ rec[x[1]].inst

\* What the user stopped stays stopped: only a start or a restart the user
\* asked for turns the intent back, whatever the reconciler saw before.
StopIntentKept ==
    [][\A a \in Apps : rec[a].desired = "stopped" /\ rec'[a].desired = "running"
                       => task.job \in {"start", "restart"} /\ a = Subject]_vars

Quiet(a) == /\ \A p \in procs : p[1] # a
            /\ \A x \in alloc : x[1] # a
            /\ <<a, rec[a].gen>> \notin auth
            /\ ~HasRecord(a)
\* A stopped application gives back everything, through every crash and
\* failed revocation: its processes, record, reservation, authorization.
StopCompletes ==
    \A a \in Apps : (rec[a].desired = "stopped") ~> (Quiet(a) \/ rec[a].desired = "running")

\* An application that should run ends up running with everything it needs,
\* or with a documented reason not to.
Settled(a) ==
    \/ /\ rec[a].obs = "running" /\ Leader(a, rec[a].gen) /\ <<a, rec[a].gen>> \in alloc
       /\ rec[a].pid = rec[a].gen /\ (a \in Scheduled => <<a, rec[a].gen>> \in auth)
    \/ rec[a].obs = "crash_loop" \/ (rec[a].obs = "failed" /\ a \notin Restartable)
    \/ rec[a].obs = "waiting_resource" /\ Conflict(a, rec[a].gen)
RunReached ==
    \A a \in Apps : (rec[a].desired = "running") ~> (Settled(a) \/ rec[a].desired = "stopped")
=============================================================================
