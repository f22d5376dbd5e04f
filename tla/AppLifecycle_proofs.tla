------------------------- MODULE AppLifecycle_proofs -------------------------
(***************************************************************************)
(* AppLifecycle for any sets of applications and generations and any       *)
(* number of faults and user operations: a process keeps its reservation,  *)
(* an application has processes of one generation, a live process can be   *)
(* revoked, and a stop stays a stop.  The fault "orphan" is excluded: a    *)
(* daemon that dies between a spawn and the second file of the run record  *)
(* leaves a process that nothing on disk can contain.                      *)
(***************************************************************************)
EXTENDS AppLifecycle, TLAPS

-----------------------------------------------------------------------------
(* Where a coordinator call and a transaction may stand. *)

StartOps == {"start", "restart", "boot_adopt", "boot_restore",
             "reconcile_wait", "reconcile_restore", "auto_restart"}
PreSpawn == {"probe", "defer", "reserve", "commit", "spawn"}
PostSpawn == {"ids", "bind", "publish", "ready"}
Ending == {"term", "kill", "fence", "revoke", "settle", "retire"}
Over == {"ok", "fail"}

Jobs == {"idle", "start", "stop", "restart", "boot", "tick", "shutdown", "one"}
OneSteps == {"decide", "cool", "revoke", "release", "crashed", "policy", "called"}
Steps == {"", "stop", "sweep", "recover", "alloc", "restore"} \cup OneSteps

CallPlaces == {"", "begin", "adopt", "republish", "intent", "stopping"}
              \cup PreSpawn \cup PostSpawn \cup Ending \cup Over
CallType == [pc : CallPlaces, op : {""} \cup StartOps \cup {"stopped", "running"},
             app : SUBSET Apps, gen : Gens \cup {0}, pid : Gens \cup {0},
             rv : {"no", "yes", "err"}, fence : BOOLEAN, up : BOOLEAN]

(* A call is of one application; one that has not begun is none. *)
CallShape ==
    /\ call \in CallType
    /\ call.pc = "" => call = NoCall
    /\ call.pc # "" => call.op # "" /\ \E a \in Apps : call.app = {a}
    /\ call.pc \in {"intent", "stopping"} => ~Starting
    /\ call.pc \in {"begin", "adopt", "republish"} \cup PreSpawn \cup PostSpawn => Starting

TaskType == [job : Jobs, step : Steps, app : SUBSET Apps, todo : SUBSET Apps,
             swept : SUBSET Apps, exit : BOOLEAN]

(* Which transactions have a call of theirs going on, and of whom. *)
TaskShape ==
    /\ task \in TaskType
    /\ task.job = "idle" => task = NoTask /\ call = NoCall
    /\ task.step \in {"sweep", "alloc", "decide", "revoke", "release", "crashed", "policy"}
          => call = NoCall
    /\ task.step \in OneSteps => task.job = "one" /\ \E a \in Apps : task.app = {a}
    /\ task.job = "one" => task.step \in OneSteps
    /\ task.step \in {"sweep", "recover", "alloc", "restore"} => task.job \in {"boot", "tick"}
    /\ task.step = "stop" => task.job \in {"restart", "shutdown"}
    /\ task.job \in {"start", "stop", "restart"} \/ task.step \in {"cool", "called"}
          => call.pc # "" /\ call.app = task.app
    /\ task.step = "cool" => ~Starting /\ call.op = "running"
    /\ task.step \in {"called", "restore"} => Starting

-----------------------------------------------------------------------------
(* Processes, their records, and who may revoke them. *)

(* A daemon that dies or stops finds the process by its run record. *)
Recorded(a, g) == run[a].gen = g /\ run[a].stage >= 2 /\ ~run[a].old

(* A process that has just been spawned is not on disk yet; the call that  *)
(* spawned it kills its group.                                             *)
Spawning(p) ==
    /\ call.pc \in {"ids", "term", "kill"} /\ Starting
    /\ call.app = {p[1]} /\ p[2] = call.gen /\ p[3] # "dstate"

(* Every process has its reservation, is of the generation the lifecycle   *)
(* record names, and can be found.                                         *)
Held ==
    \A p \in procs : /\ <<p[1], p[2]>> \in alloc
                     /\ rec[p[1]].gen = p[2] /\ rec[p[1]].inst
                     /\ Recorded(p[1], p[2]) \/ Spawning(p)

(* A process that is authorized is the one the lifecycle record names. *)
Named == \A x \in auth : Leader(x[1], x[2]) => rec[x[1]].pid = x[2]

(* An application that waits with an identity has not spawned with it. *)
Waits ==
    \A a \in Apps :
        /\ rec[a].inst => rec[a].gen \in Gens
        /\ rec[a].obs \in Waiting /\ rec[a].inst => <<a, rec[a].gen>> \notin auth

(* The run record of a start is its own, and a start speaks of the         *)
(* generation in the lifecycle record.                                     *)
Own(a) == run[a].stage > 0 => run[a].gen = call.gen /\ ~run[a].old
Mine(a) == rec[a].gen = call.gen /\ rec[a].inst /\ call.gen \in Gens

CallOf(a) ==
    /\ call.pc \in PreSpawn => /\ Mine(a) /\ run[a].stage = 0
                               /\ <<a, call.gen>> \notin auth
    /\ call.pc \in {"commit", "spawn"} => <<a, call.gen>> \in alloc
    /\ call.pc \in PostSpawn => Mine(a) /\ Own(a)
    /\ call.pc \in {"ids", "bind"} => <<a, call.gen>> \notin auth
    /\ call.pc \in {"publish", "ready"} => rec[a].pid = call.gen
    /\ call.pc \in {"adopt", "republish"} =>
          rec[a].gen = call.pid /\ rec[a].inst /\ call.pid \in Gens
    /\ call.pc = "republish" => rec[a].pid = call.pid /\ rec[a].obs = "running"
    /\ call.pc = "publish" => rec[a].obs = "starting"
    /\ call.pc \in {"term", "kill", "fence", "revoke", "settle"} /\ Starting => Mine(a) /\ Own(a)
    /\ call.pc \in {"revoke", "settle"} /\ ~call.fence => run[a].stage = 0
    /\ call.pc = "retire" => run[a].stage = 0
    /\ call.pc = "ok" /\ ~Starting => run[a].stage = 0

CallInv == \A a \in Apps : call.app = {a} => CallOf(a)

(* A crash is published only of a generation whose group is gone. *)
TaskInv ==
    \A a \in Apps : task.app = {a} /\ task.step \in {"revoke", "release", "crashed"}
                    => run[a].stage = 0

-----------------------------------------------------------------------------
(* Intents and budgets. *)

(* Whoever starts an application the user has not asked for just now has   *)
(* seen under the gate that it should run.                                 *)
IntentInv ==
    /\ \A a \in Apps : call.app = {a} =>
          /\ call.pc = "begin" => \/ task.job \in {"start", "restart"}
                                  \/ rec[a].desired = "running"
          /\ call.pc = "intent" /\ call.op = "running" => rec[a].desired = "running"
    /\ task.step = "restore" => \A a \in task.todo : rec[a].desired = "running"
    /\ \A a \in Apps : task.app = {a} /\ task.job = "one" => rec[a].desired = "running"

(* An automatic restart has an attempt left to spend. *)
BudgetInv ==
    \A a \in Apps : task.app = {a} /\ task.step = "called" /\ call.op = "auto_restart"
                    => rec[a].hist < MaxAttempts

IInv ==
    /\ TypeOK /\ CallShape /\ TaskShape /\ Held /\ Named /\ Waits
    /\ CallInv /\ TaskInv /\ IntentInv /\ BudgetInv

-----------------------------------------------------------------------------
(* What the steps share. *)

Record == [desired: {"running", "stopped"}, obs: Observed,
           gen: Gens \cup {0}, inst: BOOLEAN, pid: Gens \cup {0},
           teardown: BOOLEAN, hist: 0..MaxAttempts, retry: BOOLEAN]
RunRecord == [gen: Gens \cup {0}, stage: 0..3, old: BOOLEAN]

\* The application of a call is the one it names.
LEMMA TheApp ==
    ASSUME CallShape, call.pc # ""
    PROVE  App \in Apps /\ call.app = {App}
BY DEF CallShape, App

\* Generations are numbers other than the one that says "none".
LEMMA NotZero == 0 \notin Gens
BY ConstantsAssumption

\* The lifecycle record of one application changes, and no other.
LEMMA PutOne ==
    ASSUME rec \in [Apps -> Record], NEW a \in Apps, NEW r \in Record, Put(a, r)
    PROVE  /\ rec' \in [Apps -> Record] /\ rec'[a] = r
           /\ \A b \in Apps : b # a => rec'[b] = rec[b]
BY DEF Put

\* Processes are of applications and generations.
LEMMA ProcParts ==
    ASSUME TypeOK, NEW p \in procs
    PROVE  /\ p[1] \in Apps /\ p[2] \in Gens /\ p[3] \in Parts
           /\ p = <<p[1], p[2], p[3]>>
BY DEF TypeOK

\* Without a run record, and but for a call that has just spawned it, an
\* application has no process.
LEMMA NoProcess ==
    ASSUME IInv, NEW a \in Apps, run[a].stage = 0,
           ~(call.pc \in {"ids", "term", "kill"} /\ Starting /\ call.app = {a})
    PROVE  \A p \in procs : p[1] # a
<1>1. SUFFICES ASSUME NEW p \in procs, p[1] = a
               PROVE  FALSE
  OBVIOUS
<1>2. run[p[1]].stage \in 0 .. 3
  BY <1>1 DEF IInv, TypeOK
<1>3. Recorded(p[1], p[2]) \/ Spawning(p)
  BY DEF IInv, Held
<1>4. QED
  BY <1>1, <1>2, <1>3 DEF Recorded, Spawning

\* A running leader is the generation of the run and of the lifecycle record.
LEMMA RunningIs ==
    ASSUME IInv, NEW a \in Apps, Running(a) # 0
    PROVE  /\ Running(a) = run[a].gen /\ Running(a) = rec[a].gen /\ rec[a].inst
           /\ Running(a) \in Gens /\ Leader(a, Running(a)) /\ run[a].stage = 3
<1>1. Running(a) = run[a].gen /\ Leader(a, run[a].gen) /\ run[a].stage = 3
  BY DEF Running
<1>2. <<a, run[a].gen, "leader">> \in procs
  BY <1>1 DEF Leader
<1>3. rec[a].gen = run[a].gen /\ rec[a].inst
  BY <1>2 DEF IInv, Held
<1>4. run[a].gen \in Gens
  BY <1>2, ProcParts DEF IInv
<1>5. QED
  BY <1>1, <1>3, <1>4

\* The part of the invariant that a step inside of a call leaves to the
\* transaction it belongs to.
LEMMA InsideCall ==
    ASSUME IInv, call.pc \notin {"", "ok", "fail"}, UNCHANGED task,
           call'.app = call.app, call'.op = call.op,
           call'.pc \notin {"", "begin", "intent"},
           \A b \in Apps : b # App => rec'[b] = rec[b],
           \/ rec'[App].desired \in {rec[App].desired, "running"}
           \/ ~Starting /\ rec'[App].desired = call.op,
           Starting /\ call.op # "start" => rec'[App].hist = rec[App].hist
    PROVE  TaskShape' /\ TaskInv' /\ IntentInv' /\ BudgetInv'
<1>1. CallShape /\ TaskShape /\ App \in Apps /\ call.app = {App} /\ App' = App
  BY TheApp DEF IInv, App
<1>2. Starting' <=> Starting
  BY DEF Starting
<1>3. call # NoCall /\ task.job # "idle"
  <2>1. NoCall.pc = ""
    BY DEF NoCall
  <2>2. QED
    BY <1>1, <2>1 DEF TaskShape
<1>4. TaskShape'
  BY <1>1, <1>2, <1>3 DEF TaskShape
<1>5. TaskInv'
  BY <1>1, <1>3 DEF TaskInv, TaskShape
<1>6. IntentInv'
  <2>1. task.step = "restore" => \A b \in task.todo : rec'[b].desired = "running"
    BY <1>1 DEF IInv, IntentInv, TaskShape, TaskType
  <2>2. \A b \in Apps : task.app = {b} /\ task.job = "one" => rec'[b].desired = "running"
    BY <1>1, <1>3 DEF IInv, IntentInv, TaskShape, OneSteps
  <2>3. QED
    BY <2>1, <2>2 DEF IntentInv
<1>7. BudgetInv'
  BY <1>1, <1>2 DEF IInv, BudgetInv, TaskShape
<1>8. QED
  BY <1>4, <1>5, <1>6, <1>7

\* A step that leaves processes and run records alone keeps what is held.
LEMMA SameProcs ==
    ASSUME IInv, procs' = procs, run' = run,
           \A p \in procs : /\ rec'[p[1]].gen = rec[p[1]].gen /\ rec'[p[1]].inst = rec[p[1]].inst
                            /\ <<p[1], p[2]>> \in alloc',
           \/ call.pc \notin {"ids", "term", "kill"}
           \/ /\ call'.pc \in {"ids", "term", "kill"} /\ call'.op = call.op
              /\ call'.app = call.app /\ call'.gen = call.gen
    PROVE  Held'
<1> SUFFICES ASSUME NEW p \in procs'
             PROVE  /\ <<p[1], p[2]>> \in alloc'
                    /\ rec'[p[1]].gen = p[2] /\ rec'[p[1]].inst
                    /\ Recorded(p[1], p[2])' \/ Spawning(p)'
  BY DEF Held
<1>1. p \in procs /\ rec[p[1]].gen = p[2] /\ rec[p[1]].inst /\ (Recorded(p[1], p[2]) \/ Spawning(p))
  BY DEF IInv, Held
<1>2. Recorded(p[1], p[2])' \/ Spawning(p)'
  BY <1>1 DEF Recorded, Spawning, Starting
<1>3. QED
  BY <1>1, <1>2

\* What the invariant says of the call that takes the next step, and of the
\* application it is of.
Here(a) ==
    /\ a = App /\ call.app = {a} /\ call \in CallType /\ CallShape /\ CallOf(a)
    /\ rec \in [Apps -> Record] /\ rec[a] \in Record
    /\ run \in [Apps -> RunRecord] /\ run[a] \in RunRecord
    /\ TypeOK /\ Held /\ Named /\ Waits

\* What the invariant says of the application of a call that goes on.
LEMMA CallFacts ==
    ASSUME IInv, call.pc # ""
    PROVE  \E a \in Apps : Here(a)
<1>1. CallShape /\ TypeOK /\ App \in Apps /\ call.app = {App}
  BY TheApp DEF IInv
<1>2. CallOf(App)
  BY <1>1 DEF IInv, CallInv
<1>3. rec \in [Apps -> Record] /\ run \in [Apps -> RunRecord]
  BY <1>1 DEF TypeOK, Record, RunRecord
<1>4. QED
  BY <1>1, <1>2, <1>3 DEF Here, IInv, CallShape

\* A step inside of a call: what is left to show of it.
LEMMA InCall ==
    ASSUME IInv, call.pc \notin {"", "ok", "fail"}, UNCHANGED task, NEW a, a = App,
           call' \in CallType, call'.app = call.app, call'.op = call.op,
           call'.pc \notin {"", "begin", "intent"},
           call'.pc = "stopping" => ~Starting,
           call'.pc \in {"adopt", "republish"} \cup PreSpawn \cup PostSpawn => Starting,
           \A b \in Apps : b # a => rec'[b] = rec[b],
           \/ rec'[a].desired \in {rec[a].desired, "running"}
           \/ ~Starting /\ rec'[a].desired = call.op,
           Starting /\ call.op # "start" => rec'[a].hist = rec[a].hist,
           TypeOK', Held', Named', Waits', CallOf(a)'
    PROVE  IInv'
<1>1. TaskShape' /\ TaskInv' /\ IntentInv' /\ BudgetInv'
  BY InsideCall
<1>2. a \in Apps /\ call.app = {a} /\ call.op # ""
  BY TheApp DEF IInv, CallShape
<1>3. CallShape'
  BY <1>2 DEF CallShape, Starting
<1>4. CallInv'
  BY <1>2 DEF CallInv
<1>5. QED
  BY <1>1, <1>3, <1>4 DEF IInv

\* The type of the state when only the lifecycle records change.
LEMMA TypedRec ==
    ASSUME TypeOK, rec' \in [Apps -> Record], lastExit' \in [Apps -> Gens \cup {0}],
           faults' \in 0 .. MaxFaults,
           UNCHANGED <<alloc, auth, run, procs, children, exits, recon, ops>>
    PROVE  TypeOK'
BY DEF TypeOK, Record

\* The leader of a group is of the generation the lifecycle record names.
LEMMA LeaderNamed ==
    ASSUME Held, NEW a, NEW g, Leader(a, g)
    PROVE  rec[a].gen = g /\ rec[a].inst
BY DEF Held, Leader

\* A step inside of a call that starts no process and leaves the run records
\* alone.
LEMMA CallRec ==
    ASSUME IInv, call.pc \notin {"", "ok", "fail"}, NEW a \in Apps, a = App,
           UNCHANGED <<task, run, children, exits, lastExit, recon, ops>>,
           procs' \subseteq procs, faults' \in 0 .. MaxFaults,
           rec' \in [Apps -> Record], alloc' \subseteq Apps \X Gens,
           auth' \subseteq Apps \X Gens,
           \A b \in Apps : b # a => rec'[b] = rec[b],
           \A x \in auth' : x \in auth \/ x[1] = a,
           \A p \in procs' : /\ p[1] = a => rec'[a].gen = rec[a].gen /\ rec'[a].inst = rec[a].inst
                             /\ <<p[1], p[2]>> \in alloc'
                             /\ Spawning(p) => Spawning(p)',
           \A x \in auth' : x[1] = a /\ Leader(a, x[2]) => rec'[a].pid = x[2],
           rec'[a].inst => rec'[a].gen \in Gens,
           rec'[a].obs \in Waiting /\ rec'[a].inst => <<a, rec'[a].gen>> \notin auth',
           rec'[a].desired \in {rec[a].desired, "running"} \/ (~Starting /\ rec'[a].desired = call.op),
           Starting /\ call.op # "start" => rec'[a].hist = rec[a].hist,
           call' \in CallType, call'.app = call.app, call'.op = call.op,
           call'.pc \notin {"", "begin", "intent"}, call'.pc = "stopping" => ~Starting,
           call'.pc \in {"adopt", "republish"} \cup PreSpawn \cup PostSpawn => Starting,
           CallOf(a)'
    PROVE  IInv'
<1>1. TypeOK'
  BY DEF IInv, TypeOK, Record
<1>2. Held'
  <2> SUFFICES ASSUME NEW p \in procs'
               PROVE  /\ <<p[1], p[2]>> \in alloc'
                      /\ rec'[p[1]].gen = p[2] /\ rec'[p[1]].inst
                      /\ Recorded(p[1], p[2])' \/ Spawning(p)'
    BY DEF Held
  <2>1. p \in procs /\ rec[p[1]].gen = p[2] /\ rec[p[1]].inst /\ p[1] \in Apps
        /\ (Recorded(p[1], p[2]) \/ Spawning(p))
    BY ProcParts DEF IInv, Held
  <2>2. Recorded(p[1], p[2])' \/ Spawning(p)'
    BY <2>1 DEF Recorded
  <2>3. rec'[p[1]].gen = rec[p[1]].gen /\ rec'[p[1]].inst = rec[p[1]].inst
    BY <2>1
  <2>4. QED
    BY <2>1, <2>2, <2>3
<1>3. Named'
  <2> SUFFICES ASSUME NEW x \in auth', Leader(x[1], x[2])'
               PROVE  rec'[x[1]].pid = x[2]
    BY DEF Named
  <2>1. Leader(x[1], x[2]) /\ x[1] \in Apps
    BY DEF Leader
  <2>2. CASE x[1] = a
    BY <2>1, <2>2
  <2>3. CASE x[1] # a
    BY <2>1, <2>3 DEF IInv, Named
  <2>4. QED
    BY <2>2, <2>3
<1>4. Waits'
  <2> SUFFICES ASSUME NEW b \in Apps
               PROVE  /\ rec'[b].inst => rec'[b].gen \in Gens
                      /\ rec'[b].obs \in Waiting /\ rec'[b].inst => <<b, rec'[b].gen>> \notin auth'
    BY DEF Waits
  <2>1. CASE b = a
    BY <2>1
  <2>2. CASE b # a
    <3>1. \A x \in auth' : x[1] = b => x \in auth
      BY <2>2
    <3>2. QED
      BY <2>2, <3>1 DEF IInv, Waits
  <2>3. QED
    BY <2>1, <2>2
<1>5. QED
  BY <1>1, <1>2, <1>3, <1>4, InCall

-----------------------------------------------------------------------------
(* The steps of a start up to the spawn. *)

\* The start that finds the process, refuses, goes on waiting or mints.
LEMMA AdmitKeeps == IInv /\ Admit => IInv'
<1> SUFFICES ASSUME IInv, Admit
             PROVE  IInv'
  OBVIOUS
<1> PICK a \in Apps : Here(a)
  BY CallFacts DEF Admit, At
<1> DEFINE g == CHOOSE x \in Gens \ InUse(a) : TRUE
           minted == [rec[a] EXCEPT
                              !.gen = g, !.desired = "running", !.obs = "preparing_env",
                              !.inst = TRUE, !.pid = 0, !.teardown = FALSE, !.retry = FALSE,
                              !.hist = IF call.op = "start" THEN 0 ELSE @]
           wanted == [rec[a] EXCEPT !.desired = "running"]
<1>1. /\ a \in Apps /\ call.app = {a} /\ CallOf(a) /\ CallShape /\ call \in CallType
      /\ rec \in [Apps -> Record] /\ rec[a] \in Record /\ run[a] \in RunRecord
      /\ 0 \notin Gens /\ call.pc = "begin" /\ a = App
  BY NotZero DEF Here, Admit, At
<1>2. UNCHANGED <<alloc, auth, run, procs, children, exits, dep, task, recon, faults, ops>>
  BY DEF Admit
<1>3. Starting
  BY <1>1 DEF CallShape
<1>4. \/ call' = [call EXCEPT !.pc = "fail"] /\ UNCHANGED <<rec, lastExit>>
      \/ /\ Running(a) # 0 /\ Put(a, wanted) /\ UNCHANGED lastExit
         /\ call' = [call EXCEPT !.pc = "adopt", !.pid = Running(a)]
      \/ /\ ~HasRecord(a) /\ rec[a].obs \in Waiting /\ rec[a].inst
         /\ call' = [call EXCEPT !.pc = "probe", !.gen = rec[a].gen]
         /\ UNCHANGED <<rec, lastExit>>
      \/ /\ ~HasRecord(a) /\ Gens \ InUse(a) # {} /\ Put(a, minted)
         /\ lastExit' = [lastExit EXCEPT ![a] = IF @ = g THEN 0 ELSE @]
         /\ call' = [call EXCEPT !.pc = "probe", !.gen = g]
  BY <1>1 DEF Admit, Goto, Desire
<1>5. /\ TypeOK /\ Held /\ Named /\ Waits /\ faults' \in 0 .. MaxFaults
      /\ lastExit \in [Apps -> Gens \cup {0}]
  BY <1>2 DEF IInv, TypeOK
<1> HIDE DEF g, minted, wanted
<1>6. CASE call' = [call EXCEPT !.pc = "fail"] /\ UNCHANGED <<rec, lastExit>>
  <2>1. call' \in CallType /\ call'.pc = "fail" /\ call'.app = call.app /\ call'.op = call.op
    BY <1>1, <1>6 DEF CallType, CallPlaces, Over
  <2>2. Held'
    BY <1>1, <1>2, <1>5, <1>6, SameProcs DEF Held
  <2>3. Named' /\ Waits' /\ TypeOK'
    BY <1>2, <1>5, <1>6, TypedRec, <1>1 DEF Named, Waits, Leader
  <2>4. CallOf(a)'
    BY <2>1, <1>3 DEF CallOf, PreSpawn, PostSpawn
  <2>5. QED
    BY <1>1, <1>2, <1>6, <2>1, <2>2, <2>3, <2>4, InCall DEF PreSpawn, PostSpawn
<1>7. CASE /\ Running(a) # 0 /\ Put(a, wanted) /\ UNCHANGED lastExit
           /\ call' = [call EXCEPT !.pc = "adopt", !.pid = Running(a)]
  <2>1. Running(a) = rec[a].gen /\ rec[a].inst /\ Running(a) \in Gens
    BY <1>1, <1>7, RunningIs
  <2>2. /\ call' \in CallType /\ call'.pc = "adopt" /\ call'.app = call.app /\ call'.op = call.op
        /\ call'.pid = rec[a].gen
    BY <1>1, <1>7, <2>1 DEF CallType, CallPlaces
  <2>3. /\ rec' \in [Apps -> Record] /\ rec'[a] = wanted /\ wanted.gen = rec[a].gen
        /\ wanted.inst = rec[a].inst /\ wanted.pid = rec[a].pid /\ wanted.obs = rec[a].obs
        /\ wanted.hist = rec[a].hist /\ wanted.desired = "running"
        /\ \A b \in Apps : b # a => rec'[b] = rec[b]
    BY <1>1, <1>7, PutOne DEF Record, wanted
  <2>4. \A b \in Apps : /\ rec'[b].gen = rec[b].gen /\ rec'[b].inst = rec[b].inst
                        /\ rec'[b].pid = rec[b].pid /\ rec'[b].obs = rec[b].obs
    BY <2>3
  <2>5. Held'
    BY <1>1, <1>2, <1>5, <2>4, ProcParts, SameProcs DEF Held
  <2>6. Named' /\ Waits' /\ TypeOK'
    BY <1>2, <1>5, <1>7, <2>3, <2>4, TypedRec DEF Named, Waits, Leader, TypeOK
  <2>7. CallOf(a)'
    BY <1>1, <2>1, <2>2, <2>3 DEF CallOf, PreSpawn, PostSpawn
  <2>8. QED
    BY <1>1, <1>2, <1>3, <2>2, <2>3, <2>5, <2>6, <2>7, InCall DEF PreSpawn, PostSpawn
<1>8. CASE /\ ~HasRecord(a) /\ rec[a].obs \in Waiting /\ rec[a].inst
           /\ call' = [call EXCEPT !.pc = "probe", !.gen = rec[a].gen]
           /\ UNCHANGED <<rec, lastExit>>
  <2>1. rec[a].gen \in Gens /\ <<a, rec[a].gen>> \notin auth /\ run[a].stage = 0
    BY <1>1, <1>5, <1>8 DEF Waits, HasRecord, RunRecord
  <2>2. /\ call' \in CallType /\ call'.pc = "probe" /\ call'.app = call.app /\ call'.op = call.op
        /\ call'.gen = rec[a].gen
    BY <1>1, <1>8, <2>1 DEF CallType, CallPlaces, PreSpawn
  <2>3. Held'
    BY <1>1, <1>2, <1>5, <1>8, SameProcs DEF Held
  <2>4. Named' /\ Waits' /\ TypeOK'
    BY <1>1, <1>2, <1>5, <1>8, TypedRec DEF Named, Waits, Leader
  <2>5. CallOf(a)'
    BY <1>2, <1>8, <2>1, <2>2 DEF CallOf, Mine, PreSpawn, PostSpawn
  <2>6. QED
    BY <1>1, <1>2, <1>3, <1>8, <2>2, <2>3, <2>4, <2>5, InCall DEF PreSpawn, PostSpawn
<1>9. CASE /\ ~HasRecord(a) /\ Gens \ InUse(a) # {} /\ Put(a, minted)
           /\ lastExit' = [lastExit EXCEPT ![a] = IF @ = g THEN 0 ELSE @]
           /\ call' = [call EXCEPT !.pc = "probe", !.gen = g]
  <2>1. g \in Gens /\ g \notin InUse(a)
    BY <1>9 DEF g
  <2>2. <<a, g>> \notin auth
    BY <2>1 DEF InUse
  <2>3. run[a].stage = 0
    BY <1>1, <1>9 DEF HasRecord, RunRecord
  <2>4. \A p \in procs : p[1] # a
    BY <1>1, <2>3, NoProcess
  <2>5. /\ call' \in CallType /\ call'.pc = "probe" /\ call'.app = call.app /\ call'.op = call.op
        /\ call'.gen = g
    BY <1>1, <1>9, <2>1 DEF CallType, CallPlaces, PreSpawn
  <2>6. minted \in Record
    <3> DEFINE h == IF call.op = "start" THEN 0 ELSE rec[a].hist
    <3>1. h \in 0 .. MaxAttempts
      BY <1>1, ConstantsAssumption DEF Record
    <3>2. "preparing_env" \in Observed
      BY DEF Observed, Unspawned
    <3> HIDE DEF h
    <3>3. [rec[a] EXCEPT !.gen = g, !.desired = "running", !.obs = "preparing_env",
                         !.inst = TRUE, !.pid = 0, !.teardown = FALSE, !.retry = FALSE,
                         !.hist = h] \in Record
      BY <1>1, <2>1, <3>1, <3>2 DEF Record
    <3>4. QED
      BY <3>3 DEF minted, h
  <2>7. /\ rec' \in [Apps -> Record] /\ rec'[a] = minted
        /\ \A b \in Apps : b # a => rec'[b] = rec[b]
    BY <1>1, <1>9, <2>6, PutOne
  <2>8. /\ minted.gen = g /\ minted.inst /\ minted.obs = "preparing_env" /\ minted.desired = "running"
        /\ call.op # "start" => minted.hist = rec[a].hist
    BY <1>1 DEF Record, minted
  <2>9. Held'
    BY <1>1, <1>2, <1>5, <2>4, <2>7, ProcParts, SameProcs DEF Held
  <2>10. Named'
    <3>1. \A x \in auth : Leader(x[1], x[2]) => x[1] # a
      BY <2>4 DEF Leader
    <3>2. \A x \in auth : x[1] \in Apps
      BY <1>5 DEF TypeOK
    <3>3. QED
      BY <1>2, <1>5, <2>7, <3>1, <3>2 DEF Named, Leader
  <2>11. Waits'
    BY <1>2, <1>5, <2>1, <2>7, <2>8 DEF Waits, Waiting
  <2>12. TypeOK'
    BY <1>1, <1>2, <1>5, <1>9, <2>1, <2>7, TypedRec
  <2>13. CallOf(a)'
    <3>1. Mine(a)'
      BY <2>1, <2>5, <2>7, <2>8 DEF Mine
    <3>2. run'[a].stage = 0 /\ <<a, call'.gen>> \notin auth'
      BY <1>2, <2>2, <2>3, <2>5
    <3>3. QED
      BY <3>1, <3>2, <2>5 DEF CallOf, PreSpawn, PostSpawn
  <2>14. QED
    <3>1. /\ call'.pc \notin {"", "begin", "intent"} /\ call'.pc # "stopping"
          /\ call.pc \notin {"", "ok", "fail"} /\ UNCHANGED task
      BY <1>1, <1>2, <2>5
    <3>2. /\ rec'[a].desired = "running"
          /\ call.op # "start" => rec'[a].hist = rec[a].hist
      BY <2>7, <2>8
    <3>3. QED
      BY <1>1, <1>3, <2>5, <2>7, <2>9, <2>10, <2>11, <2>12, <2>13, <3>1, <3>2, InCall
<1>10. QED
  BY <1>4, <1>6, <1>7, <1>8, <1>9

\* A call goes on with all it knows.
LEMMA GoesTo ==
    ASSUME call \in CallType, NEW pc \in CallPlaces, Goto(pc)
    PROVE  /\ call' \in CallType /\ call'.pc = pc /\ call'.app = call.app /\ call'.op = call.op
           /\ call'.gen = call.gen /\ call'.pid = call.pid /\ call'.rv = call.rv
           /\ call'.fence = call.fence
BY DEF CallType, Goto

\* A call ends well: nothing is said of its application any more.
LEMMA GoesOk ==
    ASSUME call \in CallType, NEW up \in BOOLEAN, Ok(up)
    PROVE  /\ call' \in CallType /\ call'.pc = "ok" /\ call'.app = call.app
           /\ call'.op = call.op
<1>1. "ok" \in CallPlaces
  BY DEF CallPlaces, Over
<1>2. QED
  BY <1>1 DEF CallType, Ok

\* The start of a live process: its pid is in the record again.
LEMMA AdoptKeeps == IInv /\ Adopt => IInv'
<1> SUFFICES ASSUME IInv, Adopt
             PROVE  IInv'
  OBVIOUS
<1> PICK a \in Apps : Here(a)
  BY CallFacts DEF Adopt, At
<1>1. /\ a = App /\ call.pc = "adopt" /\ Starting /\ call.pid \in Gens
      /\ rec[a].gen = call.pid /\ rec[a].inst /\ TypeOK /\ Held
      /\ rec[a] \in Record /\ "running" \in Observed
  BY DEF Here, Adopt, At, CallShape, CallOf, Observed, LivePhase
<1>2. /\ UNCHANGED <<alloc, auth, run, procs, children, exits, lastExit, task, recon, faults, ops>>
      /\ faults' \in 0 .. MaxFaults
  BY <1>1 DEF Adopt, world, TypeOK
<1>3. /\ call' \in CallType /\ call'.app = call.app /\ call'.op = call.op
      /\ call'.pc = "ok" \/ (call'.pc = "republish" /\ call'.pid = call.pid)
  <2>1. Goto("republish") \/ Ok(TRUE)
    BY DEF Adopt
  <2>2. "republish" \in CallPlaces /\ call \in CallType
    BY DEF CallPlaces, Here
  <2>3. QED
    BY <2>1, <2>2, GoesTo, GoesOk
<1>4. [rec[a] EXCEPT !.obs = "running", !.pid = call.pid] \in Record
  BY <1>1 DEF Record
<1>5. /\ rec' \in [Apps -> Record] /\ \A b \in Apps : b # a => rec'[b] = rec[b]
      /\ rec'[a] = [rec[a] EXCEPT !.obs = "running", !.pid = call.pid]
  BY <1>1, <1>4, PutOne DEF Adopt, Here
<1>6. /\ rec'[a].gen = rec[a].gen /\ rec'[a].inst = rec[a].inst /\ rec'[a].hist = rec[a].hist
      /\ rec'[a].desired = rec[a].desired /\ rec'[a].pid = call.pid /\ rec'[a].obs = "running"
  BY <1>5 DEF Here, Record
<1>7. CallOf(a)'
  BY <1>1, <1>3, <1>6 DEF CallOf, PreSpawn, PostSpawn, Starting
<1>8. \A x \in auth' : x[1] = a /\ Leader(a, x[2]) => rec'[a].pid = x[2]
  BY <1>1, <1>6, LeaderNamed
<1>9. \A p \in procs' : <<p[1], p[2]>> \in alloc' /\ ~Spawning(p)
  BY <1>1, <1>2 DEF Held, Spawning
<1>10. QED
  BY <1>1, <1>2, <1>3, <1>5, <1>6, <1>7, <1>8, <1>9, CallRec
  DEF TypeOK, Waiting, PreSpawn, PostSpawn

\* The launch record that is published again is of the process in the record.
LEMMA RepublishKeeps == IInv /\ Republish => IInv'
<1> SUFFICES ASSUME IInv, Republish
             PROVE  IInv'
  OBVIOUS
<1> PICK a \in Apps : Here(a)
  BY CallFacts DEF Republish, At
<1>1. /\ a = App /\ call.pc = "republish" /\ Starting /\ call.pid \in Gens
      /\ rec[a].gen = call.pid /\ rec[a].inst /\ rec[a].pid = call.pid /\ rec[a].obs = "running"
      /\ call \in CallType /\ TypeOK /\ Held /\ rec \in [Apps -> Record]
  BY DEF Here, Republish, At, CallShape, CallOf
<1>2. /\ UNCHANGED <<rec, alloc, run, procs, children, exits, lastExit, task, recon, faults, ops>>
      /\ faults' \in 0 .. MaxFaults
  BY <1>1 DEF Republish, world, TypeOK
<1>3. /\ call' \in CallType /\ call'.app = call.app /\ call'.op = call.op
      /\ call'.pc \in {"fail", "ok"}
  <2>1. Goto("fail") \/ Ok(TRUE)
    BY DEF Republish
  <2>2. "fail" \in CallPlaces
    BY DEF CallPlaces, Over
  <2>3. QED
    BY <1>1, <2>1, <2>2, GoesTo, GoesOk
<1>4. CallOf(a)'
  BY <1>1, <1>3 DEF CallOf, PreSpawn, PostSpawn, Starting
<1>5. /\ auth' \subseteq Apps \X Gens
      /\ \A x \in auth' : x \in auth \/ x[1] = a
  <2>1. auth' \subseteq auth \cup {<<a, call.pid>>}
    BY <1>1 DEF Republish
  <2>2. auth \subseteq Apps \X Gens
    BY <1>1 DEF TypeOK
  <2>3. QED
    BY <1>1, <2>1, <2>2
<1>6. \A x \in auth' : x[1] = a /\ Leader(a, x[2]) => rec'[a].pid = x[2]
  BY <1>1, <1>2, LeaderNamed
<1>7. \A p \in procs' : <<p[1], p[2]>> \in alloc' /\ ~Spawning(p)
  BY <1>1, <1>2 DEF Held, Spawning
<1>8. QED
  BY <1>1, <1>2, <1>3, <1>4, <1>5, <1>6, <1>7, CallRec
  DEF TypeOK, Waiting, PreSpawn, PostSpawn

\* A missing dependency gives an interrupted reservation back; there is no
\* process yet that could need it.
LEMMA ProbeKeeps == IInv /\ Probe => IInv'
<1> SUFFICES ASSUME IInv, Probe
             PROVE  IInv'
  OBVIOUS
<1> PICK a \in Apps : Here(a)
  BY CallFacts DEF Probe, At
<1>1. /\ a = App /\ call.pc = "probe" /\ Starting /\ Mine(a) /\ run[a].stage = 0
      /\ <<a, call.gen>> \notin auth /\ call \in CallType /\ TypeOK /\ Held
      /\ rec \in [Apps -> Record] /\ rec[a] \in Record /\ "waiting_resource" \in Observed
  BY DEF Here, Probe, At, CallShape, CallOf, PreSpawn, Observed, Waiting
<1>2. /\ UNCHANGED <<auth, run, procs, children, exits, lastExit, task, recon, faults, ops>>
      /\ faults' \in 0 .. MaxFaults /\ alloc' \subseteq alloc
  BY <1>1 DEF Probe, world, TypeOK
<1>3. /\ call' \in CallType /\ call'.app = call.app /\ call'.op = call.op
      /\ call'.gen = call.gen /\ call'.pc \in {"reserve", "defer"}
  <2>1. Goto("reserve") \/ Goto("defer")
    BY DEF Probe
  <2>2. "reserve" \in CallPlaces /\ "defer" \in CallPlaces
    BY DEF CallPlaces, PreSpawn
  <2>3. QED
    BY <1>1, <2>1, <2>2, GoesTo
<1>4. /\ rec' \in [Apps -> Record] /\ \A b \in Apps : b # a => rec'[b] = rec[b]
      /\ rec'[a].gen = rec[a].gen /\ rec'[a].inst = rec[a].inst /\ rec'[a].hist = rec[a].hist
      /\ rec'[a].desired = rec[a].desired /\ rec'[a].pid = rec[a].pid
  <2> DEFINE r == [rec[a] EXCEPT !.obs = "waiting_resource"]
  <2>1. Put(a, r) \/ UNCHANGED rec
    BY <1>1 DEF Probe
  <2>2. r \in Record /\ r.gen = rec[a].gen /\ r.inst = rec[a].inst /\ r.hist = rec[a].hist
        /\ r.desired = rec[a].desired /\ r.pid = rec[a].pid
    BY <1>1 DEF Record
  <2> HIDE DEF r
  <2>3. QED
    BY <1>1, <2>1, <2>2, PutOne
<1>5. CallOf(a)'
  <2>1. Mine(a)' /\ run'[a].stage = 0 /\ <<a, call'.gen>> \notin auth'
    BY <1>1, <1>2, <1>3, <1>4 DEF Mine
  <2>2. QED
    BY <1>3, <2>1 DEF CallOf, PreSpawn, PostSpawn
<1>6. \A p \in procs : p[1] # a
  BY <1>1, NoProcess
<1>7. \A x \in auth' : ~(x[1] = a /\ Leader(a, x[2]))
  BY <1>6 DEF Leader
<1>8. \A p \in procs' : <<p[1], p[2]>> \in alloc' /\ ~Spawning(p)
  BY <1>1, <1>2, <1>6 DEF Held, Spawning, Probe
<1>9. <<a, rec'[a].gen>> \notin auth' /\ rec'[a].gen \in Gens
  BY <1>1, <1>2, <1>4 DEF Mine
<1>10. QED
  BY <1>1, <1>2, <1>3, <1>4, <1>5, <1>7, <1>8, <1>9, CallRec
  DEF TypeOK, PreSpawn, PostSpawn

\* The wait for a dependency.
LEMMA DeferKeeps == IInv /\ Defer => IInv'
<1> SUFFICES ASSUME IInv, Defer
             PROVE  IInv'
  OBVIOUS
<1> PICK a \in Apps : Here(a)
  BY CallFacts DEF Defer, At
<1>1. /\ a = App /\ call.pc = "defer" /\ Starting /\ Mine(a) /\ run[a].stage = 0
      /\ <<a, call.gen>> \notin auth /\ call \in CallType /\ TypeOK /\ Held /\ Named
      /\ rec \in [Apps -> Record] /\ rec[a] \in Record /\ "waiting_dependency" \in Observed
  BY DEF Here, Defer, At, CallShape, CallOf, PreSpawn, Observed, Waiting
<1>2. /\ UNCHANGED <<alloc, auth, run, procs, children, exits, lastExit, task, recon, faults, ops>>
      /\ faults' \in 0 .. MaxFaults
  BY <1>1 DEF Defer, world, TypeOK
<1>3. /\ call' \in CallType /\ call'.app = call.app /\ call'.op = call.op /\ call'.pc = "ok"
  BY <1>1, GoesOk DEF Defer
<1>4. /\ rec' \in [Apps -> Record] /\ \A b \in Apps : b # a => rec'[b] = rec[b]
      /\ rec'[a].gen = rec[a].gen /\ rec'[a].inst = rec[a].inst /\ rec'[a].hist = rec[a].hist
      /\ rec'[a].desired = rec[a].desired /\ rec'[a].pid = rec[a].pid
  <2> DEFINE r == [rec[a] EXCEPT !.obs = "waiting_dependency"]
  <2>1. Put(a, r)
    BY <1>1 DEF Defer
  <2>2. r \in Record /\ r.gen = rec[a].gen /\ r.inst = rec[a].inst /\ r.hist = rec[a].hist
        /\ r.desired = rec[a].desired /\ r.pid = rec[a].pid
    BY <1>1 DEF Record
  <2> HIDE DEF r
  <2>3. QED
    BY <1>1, <2>1, <2>2, PutOne
<1>5. CallOf(a)'
  BY <1>1, <1>3 DEF CallOf, PreSpawn, PostSpawn, Starting
<1>6. \A p \in procs' : <<p[1], p[2]>> \in alloc' /\ ~Spawning(p)
  BY <1>1, <1>2 DEF Held, Spawning
<1>7. \A x \in auth' : x[1] = a /\ Leader(a, x[2]) => rec'[a].pid = x[2]
  BY <1>1, <1>2, <1>4 DEF Named
<1>8. <<a, rec'[a].gen>> \notin auth' /\ rec'[a].gen \in Gens
  BY <1>1, <1>2, <1>4 DEF Mine
<1>9. QED
  BY <1>1, <1>2, <1>3, <1>4, <1>5, <1>6, <1>7, <1>8, CallRec
  DEF TypeOK, PreSpawn, PostSpawn

\* The reservation a process will have is made before the process.
LEMMA ReserveKeeps == IInv /\ Reserve => IInv'
<1> SUFFICES ASSUME IInv, Reserve
             PROVE  IInv'
  OBVIOUS
<1> PICK a \in Apps : Here(a)
  BY CallFacts DEF Reserve, At
<1>1. /\ a = App /\ call.pc = "reserve" /\ Starting /\ Mine(a) /\ run[a].stage = 0
      /\ <<a, call.gen>> \notin auth /\ call \in CallType /\ TypeOK /\ Held /\ Named
      /\ rec \in [Apps -> Record]
  BY DEF Here, Reserve, At, CallShape, CallOf, PreSpawn
<1>2. /\ UNCHANGED <<rec, auth, run, procs, children, exits, lastExit, task, recon, faults, ops>>
      /\ faults' \in 0 .. MaxFaults
      /\ \/ Goto("commit") /\ alloc' = alloc \cup {<<a, call.gen>>}
         \/ Ok(FALSE) /\ alloc' = alloc
  BY <1>1 DEF Reserve, world, TypeOK
<1>3. /\ call' \in CallType /\ call'.app = call.app /\ call'.op = call.op
      /\ \/ call'.pc = "commit" /\ call'.gen = call.gen /\ alloc' = alloc \cup {<<a, call.gen>>}
         \/ call'.pc = "ok" /\ alloc' = alloc
  <2>1. "commit" \in CallPlaces
    BY DEF CallPlaces, PreSpawn
  <2>2. QED
    BY <1>1, <1>2, <2>1, GoesTo, GoesOk
<1>4. CallOf(a)'
  <2>1. CASE call'.pc = "ok"
    BY <1>1, <1>3, <2>1 DEF CallOf, PreSpawn, PostSpawn, Starting
  <2>2. CASE call'.pc = "commit"
    <3>1. Mine(a)' /\ run'[a].stage = 0 /\ <<a, call'.gen>> \notin auth' /\ <<a, call'.gen>> \in alloc'
      BY <1>1, <1>2, <1>3, <2>2 DEF Mine
    <3>2. QED
      BY <2>2, <3>1 DEF CallOf, PreSpawn, PostSpawn
  <2>3. QED
    BY <1>3, <2>1, <2>2
<1>5. alloc' \subseteq Apps \X Gens
  BY <1>1, <1>3 DEF TypeOK, Mine
<1>6. \A p \in procs' : <<p[1], p[2]>> \in alloc' /\ ~Spawning(p)
  BY <1>1, <1>2, <1>3 DEF Held, Spawning
<1>7. \A x \in auth' : x[1] = a /\ Leader(a, x[2]) => rec'[a].pid = x[2]
  BY <1>1, <1>2 DEF Named
<1>8. <<a, rec'[a].gen>> \notin auth' /\ rec'[a].gen \in Gens
  BY <1>1, <1>2 DEF Mine
<1>9. QED
  BY <1>1, <1>2, <1>3, <1>4, <1>5, <1>6, <1>7, <1>8, CallRec
  DEF TypeOK, PreSpawn, PostSpawn

-----------------------------------------------------------------------------
(* The spawn and what follows it. *)

\* The intent to launch is on disk before the process is.
LEMMA CommitKeeps == IInv /\ Commit => IInv'
<1> SUFFICES ASSUME IInv, Commit
             PROVE  IInv'
  OBVIOUS
<1> PICK a \in Apps : Here(a)
  BY CallFacts DEF Commit, At
<1>1. /\ a = App /\ call.pc = "commit" /\ Starting /\ Mine(a) /\ run[a].stage = 0
      /\ <<a, call.gen>> \notin auth /\ <<a, call.gen>> \in alloc
      /\ call \in CallType /\ TypeOK /\ Held /\ Named
      /\ rec \in [Apps -> Record] /\ rec[a] \in Record /\ "starting" \in Observed
  BY DEF Here, Commit, At, CallShape, CallOf, PreSpawn, Observed, LivePhase
<1>2. /\ UNCHANGED <<alloc, auth, run, procs, children, exits, lastExit, task, recon, faults, ops>>
      /\ faults' \in 0 .. MaxFaults
  BY <1>1 DEF Commit, world, TypeOK
<1>3. /\ call' \in CallType /\ call'.app = call.app /\ call'.op = call.op
      /\ call'.pc = "spawn" /\ call'.gen = call.gen
  <2>1. "spawn" \in CallPlaces
    BY DEF CallPlaces, PreSpawn
  <2>2. QED
    BY <1>1, <2>1, GoesTo DEF Commit
<1>4. /\ rec' \in [Apps -> Record] /\ \A b \in Apps : b # a => rec'[b] = rec[b]
      /\ rec'[a].gen = rec[a].gen /\ rec'[a].inst = rec[a].inst /\ rec'[a].hist = rec[a].hist
      /\ rec'[a].desired = rec[a].desired /\ rec'[a].pid = rec[a].pid
  <2> DEFINE r == [rec[a] EXCEPT !.obs = "starting"]
  <2>1. Put(a, r)
    BY <1>1 DEF Commit
  <2>2. r \in Record /\ r.gen = rec[a].gen /\ r.inst = rec[a].inst /\ r.hist = rec[a].hist
        /\ r.desired = rec[a].desired /\ r.pid = rec[a].pid
    BY <1>1 DEF Record
  <2> HIDE DEF r
  <2>3. QED
    BY <1>1, <2>1, <2>2, PutOne
<1>5. CallOf(a)'
  <2>1. Mine(a)' /\ run'[a].stage = 0 /\ <<a, call'.gen>> \notin auth' /\ <<a, call'.gen>> \in alloc'
    BY <1>1, <1>2, <1>3, <1>4 DEF Mine
  <2>2. QED
    BY <1>3, <2>1 DEF CallOf, PreSpawn, PostSpawn
<1>6. \A p \in procs' : <<p[1], p[2]>> \in alloc' /\ ~Spawning(p)
  BY <1>1, <1>2 DEF Held, Spawning
<1>7. \A x \in auth' : x[1] = a /\ Leader(a, x[2]) => rec'[a].pid = x[2]
  BY <1>1, <1>2, <1>4 DEF Named
<1>8. <<a, rec'[a].gen>> \notin auth' /\ rec'[a].gen \in Gens
  BY <1>1, <1>2, <1>4 DEF Mine
<1>9. QED
  BY <1>1, <1>2, <1>3, <1>4, <1>5, <1>6, <1>7, <1>8, CallRec
  DEF TypeOK, PreSpawn, PostSpawn

\* The new process has its reservation, is of the generation in the record,
\* is not authorized yet, and is alone.
LEMMA PopenKeeps == IInv /\ Popen => IInv'
<1> SUFFICES ASSUME IInv, Popen
             PROVE  IInv'
  OBVIOUS
<1> PICK a \in Apps : Here(a)
  BY CallFacts DEF Popen, At
<1>1. /\ a = App /\ call.pc = "spawn" /\ Starting /\ Mine(a) /\ run[a].stage = 0
      /\ <<a, call.gen>> \notin auth /\ <<a, call.gen>> \in alloc
      /\ call \in CallType /\ call.app = {a} /\ TypeOK /\ Held /\ Named /\ Waits
  BY DEF Here, Popen, At, CallShape, CallOf, PreSpawn
<1>2. UNCHANGED <<rec, alloc, auth, run, exits, lastExit, task, recon, faults, ops>>
  BY DEF Popen, durable
<1>3. /\ call' \in CallType /\ call'.app = call.app /\ call'.op = call.op
      /\ call'.pc = "ids" /\ call'.gen = call.gen
  <2>1. "ids" \in CallPlaces
    BY DEF CallPlaces, PostSpawn
  <2>2. QED
    BY <1>1, <2>1 DEF CallType, Popen
<1>4. PICK parts \in {{"leader"}, {"leader", "helper"}} :
         procs' = procs \cup {<<a, call.gen, p>> : p \in parts}
  BY <1>1 DEF Popen
<1>5. \A p \in procs' : \/ p \in procs /\ p[1] # a
                        \/ p[1] = a /\ p[2] = call.gen /\ p[3] \in {"leader", "helper"}
  BY <1>1, <1>4, NoProcess
<1>6. TypeOK'
  <2>1. procs' \subseteq Apps \X Gens \X Parts
    BY <1>1, <1>4 DEF TypeOK, Mine, Parts
  <2>2. children' \subseteq Apps \X Gens
    BY <1>1 DEF TypeOK, Mine, Popen
  <2>3. QED
    BY <1>1, <1>2, <2>1, <2>2 DEF TypeOK
<1>7. Held'
  <2> SUFFICES ASSUME NEW p \in procs'
               PROVE  /\ <<p[1], p[2]>> \in alloc'
                      /\ rec'[p[1]].gen = p[2] /\ rec'[p[1]].inst
                      /\ Recorded(p[1], p[2])' \/ Spawning(p)'
    BY DEF Held
  <2>1. CASE p \in procs /\ p[1] # a
    <3>1. /\ <<p[1], p[2]>> \in alloc /\ rec[p[1]].gen = p[2] /\ rec[p[1]].inst
          /\ Recorded(p[1], p[2]) \/ Spawning(p)
      BY <1>1, <2>1 DEF Held
    <3>2. ~Spawning(p)
      BY <1>1 DEF Spawning
    <3>3. Recorded(p[1], p[2])'
      BY <1>2, <3>1, <3>2 DEF Recorded
    <3>4. QED
      BY <1>2, <3>1, <3>3
  <2>2. CASE p[1] = a /\ p[2] = call.gen /\ p[3] \in {"leader", "helper"}
    <3>1. Spawning(p)'
      BY <1>1, <1>3, <2>2 DEF Spawning, Starting
    <3>2. QED
      BY <1>1, <1>2, <2>2, <3>1 DEF Mine
  <2>3. QED
    BY <1>5, <2>1, <2>2
<1>8. Named'
  <2> SUFFICES ASSUME NEW x \in auth', Leader(x[1], x[2])'
               PROVE  rec'[x[1]].pid = x[2]
    BY DEF Named
  <2>1. /\ x \in Apps \X Gens /\ x \in auth /\ x # <<a, call.gen>>
    BY <1>1, <1>2 DEF TypeOK
  <2>2. x[1] # a
    BY <1>5, <2>1 DEF Leader
  <2>3. <<x[1], x[2], "leader">> \in procs
    BY <1>5, <2>2 DEF Leader
  <2>4. QED
    BY <1>1, <1>2, <2>1, <2>3 DEF Named, Leader
<1>9. Waits'
  BY <1>1, <1>2 DEF Waits
<1>10. CallOf(a)'
  <2>1. Mine(a)' /\ Own(a)' /\ <<a, call'.gen>> \notin auth'
    BY <1>1, <1>2, <1>3 DEF Mine, Own
  <2>2. QED
    BY <1>3, <2>1 DEF CallOf, PreSpawn, PostSpawn
<1>11. QED
  BY <1>1, <1>2, <1>3, <1>6, <1>7, <1>8, <1>9, <1>10, InCall
  DEF PreSpawn, PostSpawn

\* The record of a process is its own from the first file on; a write that
\* fails leaves the process to the teardown.
LEMMA WriteRunIdsKeeps == IInv /\ WriteRunIds => IInv'
<1> SUFFICES ASSUME IInv, WriteRunIds
             PROVE  IInv'
  OBVIOUS
<1> PICK a \in Apps : Here(a)
  BY CallFacts DEF WriteRunIds, At
<1>1. /\ a = App /\ call.pc = "ids" /\ Starting /\ Mine(a) /\ Own(a)
      /\ <<a, call.gen>> \notin auth /\ run[a].stage < 3
      /\ run \in [Apps -> RunRecord] /\ run[a] \in RunRecord
      /\ call \in CallType /\ call.app = {a} /\ TypeOK /\ Held /\ Named /\ Waits
  BY DEF Here, WriteRunIds, At, CallShape, CallOf, PostSpawn
<1>2. UNCHANGED <<rec, alloc, auth, procs, children, exits, lastExit, task, recon, ops>>
  BY DEF WriteRunIds, world
<1> DEFINE written == [gen |-> call.gen, stage |-> run[a].stage + 1, old |-> FALSE]
<1>3. /\ faults' \in {faults, faults + 1} /\ (faults' # faults => faults < MaxFaults)
      /\ \/ run' = run /\ Goto("term")
         \/ /\ run' = [run EXCEPT ![a] = written]
            /\ Goto(IF run[a].stage = 2 THEN "bind" ELSE "ids")
  BY <1>1 DEF WriteRunIds, Maybe, Fault, Goto
<1>4. /\ written \in RunRecord /\ written.gen = call.gen /\ written.stage = run[a].stage + 1
      /\ ~written.old
  BY <1>1 DEF RunRecord, Mine
<1> HIDE DEF written
<1>5. /\ call' \in CallType /\ call'.app = call.app /\ call'.op = call.op /\ call'.gen = call.gen
      /\ \/ run' = run /\ call'.pc = "term"
         \/ /\ run' = [run EXCEPT ![a] = written]
            /\ call'.pc = IF run[a].stage = 2 THEN "bind" ELSE "ids"
  <2>1. "term" \in CallPlaces /\ "bind" \in CallPlaces /\ "ids" \in CallPlaces
    BY DEF CallPlaces, PostSpawn, Ending
  <2>2. QED
    BY <1>1, <1>3, <2>1, GoesTo
<1>6. /\ run' \in [Apps -> RunRecord] /\ \A b \in Apps : b # a => run'[b] = run[b]
      /\ \/ run'[a] = run[a] /\ call'.pc = "term"
         \/ run'[a] = written /\ call'.pc = IF run[a].stage = 2 THEN "bind" ELSE "ids"
  BY <1>1, <1>4, <1>5
<1>7. TypeOK'
  <2>1. faults' \in 0 .. MaxFaults
    BY <1>1, <1>3, ConstantsAssumption DEF TypeOK
  <2>2. QED
    BY <1>1, <1>2, <1>6, <2>1 DEF TypeOK, RunRecord
<1>8. Held'
  <2> SUFFICES ASSUME NEW p \in procs'
               PROVE  /\ <<p[1], p[2]>> \in alloc'
                      /\ rec'[p[1]].gen = p[2] /\ rec'[p[1]].inst
                      /\ Recorded(p[1], p[2])' \/ Spawning(p)'
    BY DEF Held
  <2>1. /\ <<p[1], p[2]>> \in alloc /\ rec[p[1]].gen = p[2] /\ rec[p[1]].inst
        /\ Recorded(p[1], p[2]) \/ Spawning(p)
    BY <1>1, <1>2 DEF Held
  <2>2. p[1] \in Apps
    BY <1>1, <1>2, ProcParts
  <2>3. CASE p[1] # a
    BY <1>1, <1>2, <1>6, <2>1, <2>2, <2>3 DEF Recorded, Spawning
  <2>4. CASE p[1] = a /\ call'.pc \in {"term", "ids"}
    <3>1. CASE Spawning(p)
      <4>1. Spawning(p)'
        BY <1>1, <1>5, <2>4, <3>1 DEF Spawning, Starting
      <4>2. QED
        BY <1>2, <2>1, <4>1
    <3>2. CASE Recorded(p[1], p[2])
      <4>1. Recorded(p[1], p[2])'
        BY <1>1, <1>4, <1>6, <2>4, <3>2 DEF Recorded, Own, RunRecord
      <4>2. QED
        BY <1>2, <2>1, <4>1
    <3>3. QED
      BY <2>1, <3>1, <3>2
  <2>5. CASE p[1] = a /\ call'.pc = "bind"
    <3>1. run[a].stage = 2 /\ run'[a] = written
      BY <1>6, <2>5
    <3>2. p[2] = call.gen
      BY <1>1, <2>1, <2>5 DEF Mine
    <3>3. Recorded(p[1], p[2])'
      BY <1>4, <2>5, <3>1, <3>2 DEF Recorded
    <3>4. QED
      BY <1>2, <2>1, <3>3
  <2>6. QED
    BY <1>6, <2>3, <2>4, <2>5
<1>9. Named' /\ Waits'
  BY <1>1, <1>2 DEF Waits, Named, Leader
<1>10. CallOf(a)'
  <2>1. Mine(a)' /\ Own(a)' /\ <<a, call'.gen>> \notin auth'
    BY <1>1, <1>2, <1>4, <1>5, <1>6 DEF Mine, Own
  <2>2. call'.pc \in {"term", "ids", "bind"}
    BY <1>6
  <2>3. QED
    BY <2>1, <2>2 DEF CallOf, PreSpawn, PostSpawn
<1>11. call'.pc \in {"term", "ids", "bind"}
  BY <1>6
<1>12. QED
  BY <1>1, <1>2, <1>5, <1>7, <1>8, <1>9, <1>10, <1>11, InCall
  DEF PreSpawn, PostSpawn

\* The process is named before anybody may authorize it.
LEMMA OnSpawnKeeps == IInv /\ OnSpawn => IInv'
<1> SUFFICES ASSUME IInv, OnSpawn
             PROVE  IInv'
  OBVIOUS
<1> PICK a \in Apps : Here(a)
  BY CallFacts DEF OnSpawn, At
<1>1. /\ a = App /\ call.pc = "bind" /\ Starting /\ Mine(a) /\ Own(a)
      /\ call \in CallType /\ TypeOK /\ Held /\ <<a, call.gen>> \notin auth
      /\ rec \in [Apps -> Record] /\ rec[a] \in Record /\ "starting" \in Observed
  BY DEF Here, OnSpawn, At, CallShape, CallOf, PostSpawn, Observed, LivePhase
<1>2. /\ UNCHANGED <<alloc, auth, run, procs, children, exits, lastExit, task, recon, faults, ops>>
      /\ faults' \in 0 .. MaxFaults
  BY <1>1 DEF OnSpawn, world, TypeOK
<1>3. /\ call' \in CallType /\ call'.app = call.app /\ call'.op = call.op
      /\ call'.pc \in {"publish", "ready"} /\ call'.gen = call.gen
  <2>1. "publish" \in CallPlaces /\ "ready" \in CallPlaces
    BY DEF CallPlaces, PostSpawn
  <2>2. PICK pc \in {"publish", "ready"} : call' = [call EXCEPT !.pc = pc, !.pid = call.gen]
    BY DEF OnSpawn
  <2>3. QED
    BY <1>1, <2>1, <2>2 DEF CallType
<1>4. /\ rec' \in [Apps -> Record] /\ \A b \in Apps : b # a => rec'[b] = rec[b]
      /\ rec'[a].gen = rec[a].gen /\ rec'[a].inst = rec[a].inst /\ rec'[a].hist = rec[a].hist
      /\ rec'[a].desired = rec[a].desired /\ rec'[a].pid = call.gen /\ rec'[a].obs = "starting"
  <2> DEFINE r == [rec[a] EXCEPT !.obs = "starting", !.pid = call.gen]
  <2>1. Put(a, r)
    BY <1>1 DEF OnSpawn
  <2>2. r \in Record /\ r.gen = rec[a].gen /\ r.inst = rec[a].inst /\ r.hist = rec[a].hist
        /\ r.desired = rec[a].desired /\ r.pid = call.gen /\ r.obs = "starting"
    BY <1>1 DEF Record, Mine
  <2> HIDE DEF r
  <2>3. QED
    BY <1>1, <2>1, <2>2, PutOne
<1>5. CallOf(a)'
  <2>1. Mine(a)' /\ Own(a)' /\ rec'[a].pid = call'.gen /\ rec'[a].obs = "starting"
    BY <1>1, <1>2, <1>3, <1>4 DEF Mine, Own
  <2>2. QED
    BY <1>3, <2>1 DEF CallOf, PreSpawn, PostSpawn
<1>6. \A p \in procs' : <<p[1], p[2]>> \in alloc' /\ ~Spawning(p)
  BY <1>1, <1>2 DEF Held, Spawning
<1>7. \A x \in auth' : x[1] = a /\ Leader(a, x[2]) => rec'[a].pid = x[2]
  BY <1>1, <1>4, LeaderNamed DEF Mine
<1>8. rec'[a].obs \notin Waiting /\ rec'[a].gen \in Gens
  BY <1>1, <1>4 DEF Mine, Waiting
<1>9. QED
  BY <1>1, <1>2, <1>3, <1>4, <1>5, <1>6, <1>7, <1>8, CallRec
  DEF TypeOK, PreSpawn, PostSpawn

\* The launch record published is of the process the lifecycle record names.
LEMMA PublishKeeps == IInv /\ Publish => IInv'
<1> SUFFICES ASSUME IInv, Publish
             PROVE  IInv'
  OBVIOUS
<1> PICK a \in Apps : Here(a)
  BY CallFacts DEF Publish, At
<1>1. /\ a = App /\ call.pc = "publish" /\ Starting /\ Mine(a) /\ Own(a)
      /\ call \in CallType /\ TypeOK /\ Held /\ rec[a].pid = call.gen /\ rec[a].obs = "starting"
      /\ rec \in [Apps -> Record]
  BY DEF Here, Publish, At, CallShape, CallOf, PostSpawn
<1>2. /\ UNCHANGED <<rec, alloc, run, procs, children, exits, lastExit, task, recon, faults, ops>>
      /\ faults' \in 0 .. MaxFaults
  BY <1>1 DEF Publish, world, TypeOK
<1>3. /\ call' \in CallType /\ call'.app = call.app /\ call'.op = call.op
      /\ call'.pc \in {"ready", "term"} /\ call'.gen = call.gen
  <2>1. "ready" \in CallPlaces /\ "term" \in CallPlaces
    BY DEF CallPlaces, PostSpawn, Ending
  <2>2. Goto("ready") \/ Goto("term")
    BY DEF Publish
  <2>3. QED
    BY <1>1, <2>1, <2>2, GoesTo
<1>4. CallOf(a)'
  <2>1. Mine(a)' /\ Own(a)' /\ rec'[a].pid = call'.gen
    BY <1>1, <1>2, <1>3 DEF Mine, Own
  <2>2. QED
    BY <1>3, <2>1 DEF CallOf, PreSpawn, PostSpawn
<1>5. /\ auth' \subseteq Apps \X Gens
      /\ \A x \in auth' : x \in auth \/ x[1] = a
  <2>1. auth' \subseteq auth \cup {<<a, call.gen>>}
    BY <1>1 DEF Publish
  <2>2. auth \subseteq Apps \X Gens /\ call.gen \in Gens
    BY <1>1 DEF TypeOK, Mine
  <2>3. QED
    BY <1>1, <2>1, <2>2
<1>6. \A x \in auth' : x[1] = a /\ Leader(a, x[2]) => rec'[a].pid = x[2]
  BY <1>1, <1>2, LeaderNamed DEF Mine
<1>7. \A p \in procs' : <<p[1], p[2]>> \in alloc' /\ ~Spawning(p)
  BY <1>1, <1>2 DEF Held, Spawning
<1>8. rec'[a].obs \notin Waiting /\ rec'[a].gen \in Gens
  BY <1>1, <1>2 DEF Mine, Waiting
<1>9. QED
  BY <1>1, <1>2, <1>3, <1>4, <1>5, <1>6, <1>7, <1>8, CallRec
  DEF TypeOK, PreSpawn, PostSpawn

\* READY, or the teardown of a process that is named by then.
LEMMA AwaitReadyKeeps == IInv /\ AwaitReady => IInv'
<1> SUFFICES ASSUME IInv, AwaitReady
             PROVE  IInv'
  OBVIOUS
<1> PICK a \in Apps : Here(a)
  BY CallFacts DEF AwaitReady, At
<1>1. /\ a = App /\ call.pc = "ready" /\ Starting /\ Mine(a) /\ Own(a)
      /\ call \in CallType /\ TypeOK /\ Held /\ Waits /\ rec[a].pid = call.gen
      /\ rec \in [Apps -> Record] /\ rec[a] \in Record /\ "running" \in Observed
  BY DEF Here, AwaitReady, At, CallShape, CallOf, PostSpawn, Observed, LivePhase
<1>2. UNCHANGED <<alloc, auth, run, procs, children, exits, lastExit, task, recon, ops>>
  BY DEF AwaitReady, world
<1> DEFINE r == [rec[a] EXCEPT !.obs = "running", !.pid = call.gen, !.retry = FALSE]
<1>3. /\ faults' = faults \/ (faults < MaxFaults /\ faults' = faults + 1)
      /\ (rec' = rec /\ Goto("term")) \/ (Put(a, r) /\ Ok(TRUE))
  BY <1>1 DEF AwaitReady, Maybe, Fault
<1>4. r \in Record /\ r.gen = rec[a].gen /\ r.inst = rec[a].inst /\ r.hist = rec[a].hist
      /\ r.desired = rec[a].desired /\ r.pid = call.gen /\ r.obs = "running"
  BY <1>1 DEF Record, Mine
<1> HIDE DEF r
<1>5. faults' \in 0 .. MaxFaults
  BY <1>1, <1>3, ConstantsAssumption DEF TypeOK
<1>6. /\ call' \in CallType /\ call'.app = call.app /\ call'.op = call.op
      /\ call'.pc = "ok" \/ (call'.pc = "term" /\ call'.gen = call.gen)
  <2>1. "term" \in CallPlaces
    BY DEF CallPlaces, Ending
  <2>2. QED
    BY <1>1, <1>3, <2>1, GoesTo, GoesOk
<1>7. /\ rec' \in [Apps -> Record] /\ \A b \in Apps : b # a => rec'[b] = rec[b]
      /\ rec'[a].gen = rec[a].gen /\ rec'[a].inst = rec[a].inst /\ rec'[a].hist = rec[a].hist
      /\ rec'[a].desired = rec[a].desired /\ rec'[a].pid = call.gen
      /\ rec'[a].obs = "running" \/ rec' = rec
  BY <1>1, <1>3, <1>4, PutOne
<1>8. CallOf(a)'
  <2>1. Starting'
    BY <1>1, <1>6 DEF Starting
  <2>2. CASE call'.pc = "ok"
    BY <2>1, <2>2 DEF CallOf, PreSpawn, PostSpawn
  <2>3. CASE call'.pc = "term" /\ call'.gen = call.gen
    <3>1. Mine(a)' /\ Own(a)'
      BY <1>1, <1>2, <1>7, <2>3 DEF Mine, Own
    <3>2. QED
      BY <2>3, <3>1 DEF CallOf, PreSpawn, PostSpawn
  <2>4. QED
    BY <1>6, <2>2, <2>3
<1>9. \A p \in procs' : <<p[1], p[2]>> \in alloc' /\ ~Spawning(p)
  BY <1>1, <1>2 DEF Held, Spawning
<1>10. \A x \in auth' : x[1] = a /\ Leader(a, x[2]) => rec'[a].pid = x[2]
  BY <1>1, <1>7, LeaderNamed DEF Mine
<1>11. /\ rec'[a].gen \in Gens
       /\ rec'[a].obs \in Waiting /\ rec'[a].inst => <<a, rec'[a].gen>> \notin auth'
  BY <1>1, <1>2, <1>7 DEF Mine, Waiting, Waits
<1>12. QED
  BY <1>1, <1>2, <1>5, <1>6, <1>7, <1>8, <1>9, <1>10, <1>11, CallRec
  DEF TypeOK, PreSpawn, PostSpawn

-----------------------------------------------------------------------------
(* The steps of a stop, and of the teardown it shares with a failed start. *)

\* The intent of the user, which the call carries, goes to disk.
LEMMA StopIntentKeeps == IInv /\ StopIntent => IInv'
<1> SUFFICES ASSUME IInv, StopIntent
             PROVE  IInv'
  OBVIOUS
<1> PICK a \in Apps : Here(a)
  BY CallFacts DEF StopIntent, At
<1>1. /\ a = App /\ call.pc = "intent" /\ ~Starting /\ call.op \in {"stopped", "running"}
      /\ call \in CallType /\ TypeOK /\ Held /\ Named /\ Waits
      /\ rec \in [Apps -> Record] /\ rec[a] \in Record
  BY DEF Here, StopIntent, At, CallShape, Starting
<1>2. /\ UNCHANGED <<alloc, auth, run, procs, children, exits, lastExit, task, recon, faults, ops>>
      /\ faults' \in 0 .. MaxFaults
  BY <1>1 DEF StopIntent, world, TypeOK
<1>3. /\ call' \in CallType /\ call'.app = call.app /\ call'.op = call.op /\ call'.pc = "stopping"
  <2>1. "stopping" \in CallPlaces
    BY DEF CallPlaces
  <2>2. QED
    BY <1>1, <2>1, GoesTo DEF StopIntent
<1>4. /\ rec' \in [Apps -> Record] /\ \A b \in Apps : b # a => rec'[b] = rec[b]
      /\ rec'[a].gen = rec[a].gen /\ rec'[a].inst = rec[a].inst
      /\ rec'[a].desired = call.op /\ rec'[a].pid = rec[a].pid /\ rec'[a].obs = rec[a].obs
  <2> DEFINE r == [rec[a] EXCEPT !.desired = call.op]
  <2>1. Put(a, r)
    BY <1>1 DEF StopIntent, Desire
  <2>2. r \in Record /\ r.gen = rec[a].gen /\ r.inst = rec[a].inst
        /\ r.desired = call.op /\ r.pid = rec[a].pid /\ r.obs = rec[a].obs
    BY <1>1 DEF Record
  <2> HIDE DEF r
  <2>3. QED
    BY <1>1, <2>1, <2>2, PutOne
<1>5. CallOf(a)'
  BY <1>3 DEF CallOf, PreSpawn, PostSpawn
<1>6. \A p \in procs' : <<p[1], p[2]>> \in alloc' /\ ~Spawning(p)
  BY <1>1, <1>2 DEF Held, Spawning
<1>7. \A x \in auth' : x[1] = a /\ Leader(a, x[2]) => rec'[a].pid = x[2]
  BY <1>1, <1>2, <1>4 DEF Named
<1>8. /\ rec'[a].inst => rec'[a].gen \in Gens
      /\ rec'[a].obs \in Waiting /\ rec'[a].inst => <<a, rec'[a].gen>> \notin auth'
  BY <1>1, <1>2, <1>4 DEF Waits
<1>9. QED
  BY <1>1, <1>2, <1>3, <1>4, <1>5, <1>6, <1>7, <1>8, CallRec
  DEF TypeOK, PreSpawn, PostSpawn

\* The teardown is announced in the record.
LEMMA StopPhaseKeeps == IInv /\ StopPhase => IInv'
<1> SUFFICES ASSUME IInv, StopPhase
             PROVE  IInv'
  OBVIOUS
<1> PICK a \in Apps : Here(a)
  BY CallFacts DEF StopPhase, At
<1>1. /\ a = App /\ call.pc = "stopping" /\ ~Starting
      /\ call \in CallType /\ TypeOK /\ Held /\ Named /\ Waits
      /\ rec \in [Apps -> Record] /\ rec[a] \in Record /\ "stopping" \in Observed
  BY DEF Here, StopPhase, At, CallShape, Observed
<1>2. /\ UNCHANGED <<alloc, auth, run, procs, children, exits, lastExit, task, recon, faults, ops>>
      /\ faults' \in 0 .. MaxFaults
  BY <1>1 DEF StopPhase, world, TypeOK
<1>3. /\ call' \in CallType /\ call'.app = call.app /\ call'.op = call.op /\ call'.pc = "term"
  <2>1. "term" \in CallPlaces
    BY DEF CallPlaces, Ending
  <2>2. QED
    BY <1>1, <2>1, GoesTo DEF StopPhase
<1>4. /\ rec' \in [Apps -> Record] /\ \A b \in Apps : b # a => rec'[b] = rec[b]
      /\ rec'[a].gen = rec[a].gen /\ rec'[a].inst = rec[a].inst
      /\ rec'[a].desired = rec[a].desired /\ rec'[a].pid = rec[a].pid /\ rec'[a].obs = "stopping"
  <2> DEFINE r == [rec[a] EXCEPT !.obs = "stopping"]
  <2>1. Put(a, r)
    BY <1>1 DEF StopPhase
  <2>2. r \in Record /\ r.gen = rec[a].gen /\ r.inst = rec[a].inst
        /\ r.desired = rec[a].desired /\ r.pid = rec[a].pid /\ r.obs = "stopping"
    BY <1>1 DEF Record
  <2> HIDE DEF r
  <2>3. QED
    BY <1>1, <2>1, <2>2, PutOne
<1>5. CallOf(a)'
  BY <1>1, <1>3 DEF CallOf, PreSpawn, PostSpawn, Starting
<1>6. \A p \in procs' : <<p[1], p[2]>> \in alloc' /\ ~Spawning(p)
  BY <1>1, <1>2 DEF Held, Spawning
<1>7. \A x \in auth' : x[1] = a /\ Leader(a, x[2]) => rec'[a].pid = x[2]
  BY <1>1, <1>2, <1>4 DEF Named
<1>8. /\ rec'[a].inst => rec'[a].gen \in Gens
      /\ rec'[a].obs \notin Waiting
  BY <1>1, <1>4 DEF Waits, Waiting
<1>9. QED
  BY <1>1, <1>2, <1>3, <1>4, <1>5, <1>6, <1>7, <1>8, CallRec
  DEF TypeOK, PreSpawn, PostSpawn

\* The fault that the proofs exclude.
NoOrphan == "orphan" \notin Kinds

\* Faults stay within their bound.
LEMMA FaultsTyped ==
    ASSUME TypeOK, NEW kind, NEW bad, Maybe(kind, bad)
    PROVE  faults' \in 0 .. MaxFaults
BY ConstantsAssumption DEF TypeOK, Maybe, Fault

\* A revocation removes at most the launch record of the call's process.
LEMMA Revokes ==
    ASSUME TypeOK, call \in CallType, NEW next \in CallPlaces, Revocation(next)
    PROVE  /\ auth' \subseteq auth /\ faults' \in 0 .. MaxFaults
           /\ call' \in CallType /\ call'.pc = next /\ call'.app = call.app
           /\ call'.op = call.op /\ call'.gen = call.gen /\ call'.fence = call.fence
<1>1. PICK bad \in BOOLEAN :
         /\ Maybe("revoke", bad)
         /\ auth' = IF bad THEN auth ELSE auth \ {<<App, call.pid>>}
         /\ call' = [call EXCEPT !.pc = next, !.rv = IF bad THEN "err" ELSE "yes"]
  BY DEF Revocation
<1>2. faults' \in 0 .. MaxFaults
  BY <1>1, FaultsTyped
<1>3. PICK rv \in {"yes", "err"} : call' = [call EXCEPT !.pc = next, !.rv = rv]
  BY <1>1
<1>4. QED
  BY <1>1, <1>2, <1>3 DEF CallType

\* A group that outlives its kill has a run record that can contain it.
LEMMA StaysRecorded ==
    ASSUME IInv, NoOrphan, NEW a \in Apps, NEW g, MayStay(a, g, TRUE)
    PROVE  /\ Recorded(a, g) /\ <<a, g>> \in alloc
           /\ rec[a].gen = g /\ rec[a].inst /\ g \in Gens
<1>1. PICK part \in {"helper", "dstate"} : <<a, g, part>> \in procs
  BY DEF MayStay
<1> DEFINE p == <<a, g, part>>
<1>2. /\ <<a, g>> \in alloc /\ rec[a].gen = g /\ rec[a].inst
      /\ Recorded(a, g) \/ Spawning(p)
  BY <1>1 DEF IInv, Held
<1>3. g \in Gens
  BY <1>1, ProcParts DEF IInv
<1>4. ASSUME Spawning(p)
      PROVE  Recorded(a, g)
  <2>1. part # "dstate" /\ g = call.gen /\ call.app = {a}
        /\ call.pc \in {"ids", "term", "kill"} /\ Starting
    BY <1>4 DEF Spawning
  <2>2. CallOf(a)
    BY <2>1 DEF IInv, CallInv
  <2>3. Own(a)
    BY <2>1, <2>2 DEF CallOf, PostSpawn
  <2>4. CASE <<a, g, "dstate">> \in procs
    <3> DEFINE q == <<a, g, "dstate">>
    <3>1. Recorded(a, g) \/ Spawning(q)
      BY <2>4 DEF IInv, Held
    <3>2. QED
      BY <3>1 DEF Spawning
  <2>5. CASE <<a, g, "dstate">> \notin procs
    <3>1. run[a].stage >= 2 /\ run[a].stage > 0
      <4>1. run[a].stage \in 0 .. 3
        BY DEF IInv, TypeOK
      <4>2. ~(run[a].stage < 2)
        BY <2>5 DEF MayStay, Maybe, Fault, NoOrphan
      <4>3. QED
        BY <4>1, <4>2
    <3>2. QED
      BY <2>1, <2>3, <3>1 DEF Own, Recorded
  <2>6. QED
    BY <2>4, <2>5
<1>5. QED
  BY <1>2, <1>3, <1>4

\* What a kill leaves: other processes as they were, and perhaps a helper of
\* the group whose record stays.
LEMMA KillLeaves ==
    ASSUME IInv, NoOrphan, NEW a \in Apps, NEW g, NEW stays \in BOOLEAN,
           MayStay(a, g, stays), procs' = Killed(a, g, stays)
    PROVE  /\ faults' \in 0 .. MaxFaults /\ procs' \subseteq Apps \X Gens \X Parts
           /\ \A b, h : Leader(b, h)' => Leader(b, h)
           /\ \A p \in procs' :
                 \/ p \in procs /\ ~(p[1] = a /\ p[2] = g)
                 \/ /\ p = <<a, g, "dstate">> /\ stays /\ Recorded(a, g) /\ <<a, g>> \in alloc
                    /\ rec[a].gen = g /\ rec[a].inst
<1>1. /\ \/ faults' = faults
         \/ \E kind \in {"orphan", "dstate"} : Maybe(kind, stays)
      /\ TypeOK
  BY DEF MayStay, IInv
<1>2. faults' \in 0 .. MaxFaults
  BY <1>1, FaultsTyped DEF TypeOK
<1>3. \A p \in procs' : \/ p \in procs /\ ~(p[1] = a /\ p[2] = g)
                        \/ p = <<a, g, "dstate">> /\ stays
  BY DEF Killed, Group
<1>4. stays => /\ Recorded(a, g) /\ <<a, g>> \in alloc
               /\ rec[a].gen = g /\ rec[a].inst /\ g \in Gens
  BY StaysRecorded
<1>5. procs' \subseteq Apps \X Gens \X Parts
  BY <1>1, <1>3, <1>4 DEF TypeOK, Parts
<1>6. \A b, h : Leader(b, h)' => Leader(b, h)
  BY <1>3 DEF Leader
<1>7. QED
  BY <1>2, <1>3, <1>4, <1>5, <1>6

\* Whom the teardown of a start signals is in the group of its own process.
LEMMA TerminateKeeps == IInv /\ Terminate => IInv'
<1> SUFFICES ASSUME IInv, Terminate
             PROVE  IInv'
  OBVIOUS
<1> PICK a \in Apps : Here(a)
  BY CallFacts DEF Terminate, At
<1>1. /\ a = App /\ call.pc = "term" /\ call \in CallType /\ call.app = {a}
      /\ TypeOK /\ Held /\ Named /\ Waits /\ rec \in [Apps -> Record]
      /\ Starting => Mine(a) /\ Own(a)
  BY DEF Here, Terminate, At, CallOf
<1>2. UNCHANGED <<rec, alloc, run, children, exits, lastExit, task, recon, ops>>
  BY DEF Terminate
<1>3. \/ ~Starting /\ Goto("fence") /\ UNCHANGED <<auth, procs, faults>>
      \/ procs' = procs \ Group(a, Target) /\ Goto("fence") /\ UNCHANGED <<auth, faults>>
      \/ Revocation("kill") /\ UNCHANGED procs
      \/ Goto("kill") /\ UNCHANGED <<auth, procs, faults>>
  BY <1>1 DEF Terminate, Addressable
<1>4. /\ call' \in CallType /\ call'.app = call.app /\ call'.op = call.op /\ call'.gen = call.gen
      /\ call'.pc \in {"fence", "kill"} /\ auth' \subseteq auth /\ faults' \in 0 .. MaxFaults
      /\ procs' \subseteq procs
      /\ call'.pc = "kill" \/ ~Starting \/ procs' = procs \ Group(a, Target)
  <2>1. "fence" \in CallPlaces /\ "kill" \in CallPlaces
    BY DEF CallPlaces, Ending
  <2>2. faults \in 0 .. MaxFaults
    BY <1>1 DEF TypeOK
  <2>3. QED
    BY <1>1, <1>3, <2>1, <2>2, GoesTo, Revokes
<1>5. CallOf(a)'
  <2>1. Starting' => Mine(a)' /\ Own(a)'
    BY <1>1, <1>2, <1>4 DEF Mine, Own, Starting
  <2>2. QED
    BY <1>4, <2>1 DEF CallOf, PreSpawn, PostSpawn
<1>6. \A p \in procs' : <<p[1], p[2]>> \in alloc' /\ (Spawning(p) => Spawning(p)')
  <2> SUFFICES ASSUME NEW p \in procs', Spawning(p)
               PROVE  Spawning(p)'
    BY <1>1, <1>2, <1>4 DEF Held
  <2>1. Starting /\ p[1] = a /\ p[2] = Target /\ p \in procs
    BY <1>1, <1>4 DEF Spawning, Target
  <2>2. call'.pc = "kill"
    BY <1>4, <2>1 DEF Group
  <2>3. QED
    BY <1>4, <2>2 DEF Spawning, Starting
<1>7. \A x \in auth' : x[1] = a /\ Leader(a, x[2]) => rec'[a].pid = x[2]
  BY <1>1, <1>2, <1>4 DEF Named
<1>8. /\ rec'[a].inst => rec'[a].gen \in Gens
      /\ rec'[a].obs \in Waiting /\ rec'[a].inst => <<a, rec'[a].gen>> \notin auth'
  BY <1>1, <1>2, <1>4 DEF Waits
<1>9. rec'[a].desired = rec[a].desired /\ rec'[a].hist = rec[a].hist
  BY <1>2
<1>10. auth' \subseteq Apps \X Gens
  BY <1>1, <1>4 DEF TypeOK
<1>11. QED
  BY <1>1, <1>2, <1>4, <1>5, <1>6, <1>7, <1>8, <1>9, <1>10, CallRec
  DEF TypeOK, PreSpawn, PostSpawn

\* After the SIGKILL only a helper with a record may be left.
LEMMA KillKeeps == NoOrphan /\ IInv /\ Kill => IInv'
<1> SUFFICES ASSUME NoOrphan, IInv, Kill
             PROVE  IInv'
  OBVIOUS
<1> PICK a \in Apps : Here(a)
  BY CallFacts DEF Kill, At
<1>1. /\ a = App /\ call.pc = "kill" /\ call \in CallType /\ call.app = {a}
      /\ TypeOK /\ Held /\ Named /\ Waits /\ rec \in [Apps -> Record]
      /\ Starting => Mine(a) /\ Own(a)
  BY DEF Here, Kill, At, CallOf
<1>2. UNCHANGED <<rec, alloc, auth, run, children, exits, lastExit, task, recon, ops>>
  BY DEF Kill, durable
<1>3. PICK stays \in BOOLEAN : MayStay(a, Target, stays) /\ procs' = Killed(a, Target, stays)
  BY <1>1 DEF Kill
<1>4. /\ faults' \in 0 .. MaxFaults /\ procs' \subseteq Apps \X Gens \X Parts
      /\ \A b, h : Leader(b, h)' => Leader(b, h)
      /\ \A p \in procs' :
            \/ p \in procs /\ ~(p[1] = a /\ p[2] = Target)
            \/ /\ p = <<a, Target, "dstate">> /\ Recorded(a, Target) /\ <<a, Target>> \in alloc
               /\ rec[a].gen = Target /\ rec[a].inst
  BY <1>3, KillLeaves
<1>5. /\ call' \in CallType /\ call'.app = call.app /\ call'.op = call.op
      /\ call'.gen = call.gen /\ call'.pc = "fence"
  <2>1. "fence" \in CallPlaces
    BY DEF CallPlaces, Ending
  <2>2. QED
    BY <1>1, <2>1, GoesTo DEF Kill
<1>6. TypeOK'
  BY <1>1, <1>2, <1>4 DEF TypeOK
<1>7. Held'
  <2> SUFFICES ASSUME NEW p \in procs'
               PROVE  /\ <<p[1], p[2]>> \in alloc'
                      /\ rec'[p[1]].gen = p[2] /\ rec'[p[1]].inst
                      /\ Recorded(p[1], p[2])'
    BY DEF Held
  <2>1. CASE p \in procs /\ ~(p[1] = a /\ p[2] = Target)
    <3>1. /\ <<p[1], p[2]>> \in alloc /\ rec[p[1]].gen = p[2] /\ rec[p[1]].inst
          /\ Recorded(p[1], p[2]) \/ Spawning(p)
      BY <1>1, <2>1 DEF Held
    <3>2. ~Spawning(p)
      BY <1>1, <2>1 DEF Spawning, Target
    <3>3. QED
      BY <1>2, <3>1, <3>2 DEF Recorded
  <2>2. CASE /\ p = <<a, Target, "dstate">> /\ Recorded(a, Target) /\ <<a, Target>> \in alloc
             /\ rec[a].gen = Target /\ rec[a].inst
    BY <1>2, <2>2 DEF Recorded
  <2>3. QED
    BY <1>4, <2>1, <2>2
<1>8. Named' /\ Waits'
  BY <1>1, <1>2, <1>4 DEF Named, Waits
<1>9. CallOf(a)'
  <2>1. Starting' => Mine(a)' /\ Own(a)'
    BY <1>1, <1>2, <1>5 DEF Mine, Own, Starting
  <2>2. QED
    BY <1>5, <2>1 DEF CallOf, PreSpawn, PostSpawn
<1>10. QED
  BY <1>1, <1>2, <1>5, <1>6, <1>7, <1>8, <1>9, InCall DEF PreSpawn, PostSpawn

\* A run record goes only when the group it speaks of is empty, and then the
\* application has no process.
LEMMA FenceKeeps == IInv /\ Fence => IInv'
<1> SUFFICES ASSUME IInv, Fence
             PROVE  IInv'
  OBVIOUS
<1> PICK a \in Apps : Here(a)
  BY CallFacts DEF Fence, At
<1>1. /\ a = App /\ call.pc = "fence" /\ call \in CallType /\ call.app = {a}
      /\ TypeOK /\ Held /\ Named /\ Waits /\ rec \in [Apps -> Record]
      /\ run \in [Apps -> RunRecord] /\ run[a] \in RunRecord
      /\ Starting => Mine(a) /\ Own(a)
  BY DEF Here, Fence, At, CallOf
<1>2. UNCHANGED <<rec, alloc, auth, procs, task, recon, faults, ops>>
  BY DEF Fence
<1> DEFINE x == <<a, Target>>
           reaped == x \in children /\ ~Leader(a, Target)
           queued == IF reaped THEN exits \cup {x} ELSE exits
           drained == {y \in queued : y[1] = a /\ ~GroupAlive(a, y[2])}
           news == IF drained = {} THEN {lastExit[a]}
                   ELSE IF x \in drained THEN {x[2]} ELSE {y[2] : y \in drained}
<1>3. /\ children' \subseteq children
      /\ \/ /\ exits' = queued /\ UNCHANGED <<run, lastExit>>
            /\ call' = [call EXCEPT !.pc = "revoke", !.fence = TRUE]
         \/ /\ ~FenceHeld(a, Target) /\ exits' = queued \ drained
            /\ \E g \in news : lastExit' = [lastExit EXCEPT ![a] = g]
            /\ run' = [run EXCEPT ![a] = NoRun] /\ Goto("revoke")
  BY <1>1 DEF Fence
<1>4. /\ queued \subseteq Apps \X Gens /\ news \subseteq Gens \cup {0}
      /\ lastExit \in [Apps -> Gens \cup {0}]
  <2>1. queued \subseteq Apps \X Gens /\ lastExit \in [Apps -> Gens \cup {0}]
    BY <1>1 DEF TypeOK
  <2>2. \A y \in drained : y[2] \in Gens
    BY <2>1
  <2>3. QED
    BY <2>1, <2>2
<1> HIDE DEF x, reaped, queued, drained, news
<1>5. exits' \subseteq queued /\ lastExit' \in [Apps -> Gens \cup {0}]
  BY <1>3, <1>4
<1>6. /\ call' \in CallType /\ call'.app = call.app /\ call'.op = call.op
      /\ call'.gen = call.gen /\ call'.pc = "revoke"
      /\ \/ call'.fence /\ run' = run
         \/ ~FenceHeld(a, Target) /\ run' = [run EXCEPT ![a] = NoRun]
  <2>1. "revoke" \in CallPlaces
    BY DEF CallPlaces, Ending
  <2>2. CASE call' = [call EXCEPT !.pc = "revoke", !.fence = TRUE] /\ run' = run
    BY <1>1, <2>1, <2>2 DEF CallType
  <2>3. CASE Goto("revoke") /\ ~FenceHeld(a, Target) /\ run' = [run EXCEPT ![a] = NoRun]
    BY <1>1, <2>1, <2>3, GoesTo
  <2>4. QED
    BY <1>3, <2>2, <2>3
<1>7. NoRun \in RunRecord /\ NoRun.stage = 0
  BY DEF NoRun, RunRecord
<1>8. /\ run' \in [Apps -> RunRecord] /\ \A b \in Apps : b # a => run'[b] = run[b]
      /\ run' = run \/ run'[a] = NoRun
  BY <1>1, <1>6, <1>7
<1>9. TypeOK'
  BY <1>1, <1>2, <1>3, <1>4, <1>5, <1>8 DEF TypeOK, RunRecord
<1>10. ASSUME ~FenceHeld(a, Target), NEW p \in procs
       PROVE  p[1] # a
  <2> SUFFICES ASSUME p[1] = a
               PROVE  FALSE
    OBVIOUS
  <2>1. Recorded(a, p[2]) /\ rec[a].gen = p[2]
    BY <1>1 DEF Held, Spawning
  <2>2. Trusted(a) /\ p[2] = run[a].gen
    BY <2>1 DEF Recorded, Trusted
  <2>3. p[2] = Target
    <3>1. run[a].stage > 0
      BY <1>1, <2>1 DEF Recorded, RunRecord
    <3>2. QED
      BY <1>1, <2>2, <3>1 DEF Target, Own
  <2>4. Addressable
    BY <1>1, <2>2 DEF Addressable
  <2>5. p \in Group(a, Target)
    BY <2>3 DEF Group
  <2>6. QED
    BY <1>10, <2>4, <2>5 DEF FenceHeld, GroupAlive
<1>11. Held'
  <2> SUFFICES ASSUME NEW p \in procs'
               PROVE  /\ <<p[1], p[2]>> \in alloc'
                      /\ rec'[p[1]].gen = p[2] /\ rec'[p[1]].inst
                      /\ Recorded(p[1], p[2])'
    BY DEF Held
  <2>1. /\ <<p[1], p[2]>> \in alloc /\ rec[p[1]].gen = p[2] /\ rec[p[1]].inst
        /\ Recorded(p[1], p[2]) /\ p[1] \in Apps
    BY <1>1, <1>2, ProcParts DEF Held, Spawning
  <2>2. Recorded(p[1], p[2])'
    BY <1>2, <1>6, <1>8, <1>10, <2>1 DEF Recorded
  <2>3. QED
    BY <1>2, <2>1, <2>2
<1>12. Named' /\ Waits'
  BY <1>1, <1>2 DEF Named, Waits, Leader
<1>13. CallOf(a)'
  <2>1. Starting' => Mine(a)' /\ Own(a)'
    BY <1>1, <1>2, <1>6, <1>7, <1>8 DEF Mine, Own, Starting
  <2>2. ~call'.fence => run'[a].stage = 0
    BY <1>1, <1>6, <1>7
  <2>3. QED
    BY <1>6, <2>1, <2>2 DEF CallOf, PreSpawn, PostSpawn
<1>14. QED
  BY <1>1, <1>2, <1>6, <1>9, <1>11, <1>12, <1>13, InCall DEF PreSpawn, PostSpawn

\* The launch record goes once nothing it could authorize is left, or stays.
LEMMA RevokeKeeps == IInv /\ Revoke => IInv'
<1> SUFFICES ASSUME IInv, Revoke
             PROVE  IInv'
  OBVIOUS
<1> PICK a \in Apps : Here(a)
  BY CallFacts DEF Revoke, At
<1>1. /\ a = App /\ call.pc = "revoke" /\ call \in CallType /\ call.app = {a}
      /\ TypeOK /\ Held /\ Named /\ Waits /\ rec \in [Apps -> Record]
      /\ Starting => Mine(a) /\ Own(a)
      /\ ~call.fence => run[a].stage = 0
  BY DEF Here, Revoke, At, CallOf
<1>2. UNCHANGED <<rec, alloc, run, procs, children, exits, lastExit, task, recon, ops>>
  BY DEF Revoke, world
<1>3. /\ call' \in CallType /\ call'.app = call.app /\ call'.op = call.op /\ call'.gen = call.gen
      /\ call'.fence = call.fence /\ call'.pc = "settle"
      /\ auth' \subseteq auth /\ faults' \in 0 .. MaxFaults
  <2>1. "settle" \in CallPlaces
    BY DEF CallPlaces, Ending
  <2>2. faults \in 0 .. MaxFaults
    BY <1>1 DEF TypeOK
  <2>3. Revocation("settle") \/ (Goto("settle") /\ UNCHANGED <<auth, faults>>)
    BY DEF Revoke
  <2>4. QED
    BY <1>1, <2>1, <2>2, <2>3, GoesTo, Revokes
<1>4. CallOf(a)'
  <2>1. Starting' => Mine(a)' /\ Own(a)'
    BY <1>1, <1>2, <1>3 DEF Mine, Own, Starting
  <2>2. ~call'.fence => run'[a].stage = 0
    BY <1>1, <1>2, <1>3
  <2>3. QED
    BY <1>3, <2>1, <2>2 DEF CallOf, PreSpawn, PostSpawn
<1>5. \A p \in procs' : <<p[1], p[2]>> \in alloc' /\ ~Spawning(p)
  BY <1>1, <1>2 DEF Held, Spawning
<1>6. \A x \in auth' : x[1] = a /\ Leader(a, x[2]) => rec'[a].pid = x[2]
  BY <1>1, <1>2, <1>3 DEF Named
<1>7. /\ rec'[a].inst => rec'[a].gen \in Gens
      /\ rec'[a].obs \in Waiting /\ rec'[a].inst => <<a, rec'[a].gen>> \notin auth'
  BY <1>1, <1>2, <1>3 DEF Waits
<1>8. rec'[a].desired = rec[a].desired /\ rec'[a].hist = rec[a].hist
  BY <1>2
<1>9. auth' \subseteq Apps \X Gens
  BY <1>1, <1>3 DEF TypeOK
<1>10. QED
  BY <1>1, <1>2, <1>3, <1>4, <1>5, <1>6, <1>7, <1>8, <1>9, CallRec
  DEF TypeOK, PreSpawn, PostSpawn

\* What a teardown that could not finish leaves in the record, and what one
\* that could gives back.
LEMMA SettleKeeps == IInv /\ Settle => IInv'
<1> SUFFICES ASSUME IInv, Settle
             PROVE  IInv'
  OBVIOUS
<1> PICK a \in Apps : Here(a)
  BY CallFacts DEF Settle, At
<1>1. /\ a = App /\ call.pc = "settle" /\ call \in CallType /\ call.app = {a}
      /\ TypeOK /\ Held /\ Named /\ Waits /\ rec \in [Apps -> Record] /\ rec[a] \in Record
      /\ Starting => Mine(a) /\ Own(a)
      /\ ~call.fence => run[a].stage = 0
      /\ {"stopping", "failed"} \subseteq Observed
  BY DEF Here, Settle, At, CallOf, Observed
<1>2. /\ UNCHANGED <<auth, run, procs, children, exits, lastExit, task, recon, faults, ops>>
      /\ faults' \in 0 .. MaxFaults
  BY <1>1 DEF Settle, world, TypeOK
<1> DEFINE fenced == [rec[a] EXCEPT !.obs = "stopping", !.teardown = TRUE,
                                    !.pid = IF Starting THEN call.gen ELSE @]
           unrevoked == [rec[a] EXCEPT !.obs = IF Starting THEN "failed" ELSE "stopping",
                                       !.teardown = TRUE]
<1>3. \/ Put(a, fenced) /\ Goto("fail") /\ UNCHANGED alloc
      \/ Put(a, unrevoked) /\ Goto("fail") /\ UNCHANGED alloc
      \/ /\ ~call.fence /\ alloc' \subseteq alloc /\ alloc \ {<<a, call.gen>>} \subseteq alloc'
         /\ Goto("retire") /\ UNCHANGED rec
  BY <1>1 DEF Settle
<1>4. /\ fenced \in Record /\ fenced.gen = rec[a].gen /\ fenced.inst = rec[a].inst
      /\ fenced.desired = rec[a].desired /\ fenced.hist = rec[a].hist
      /\ fenced.pid = (IF Starting THEN call.gen ELSE rec[a].pid) /\ fenced.obs = "stopping"
  BY <1>1 DEF Record, CallType
<1>5. /\ unrevoked \in Record /\ unrevoked.gen = rec[a].gen /\ unrevoked.inst = rec[a].inst
      /\ unrevoked.desired = rec[a].desired /\ unrevoked.hist = rec[a].hist
      /\ unrevoked.pid = rec[a].pid /\ unrevoked.obs \in {"failed", "stopping"}
  BY <1>1 DEF Record
<1> HIDE DEF fenced, unrevoked
<1>6. /\ call' \in CallType /\ call'.app = call.app /\ call'.op = call.op
      /\ call'.pc \in {"fail", "retire"} /\ (call'.pc = "retire" => ~call.fence /\ rec' = rec)
      /\ call'.pc = "fail" => alloc' = alloc
      /\ alloc' \subseteq alloc /\ alloc \ {<<a, call.gen>>} \subseteq alloc'
  <2>1. "fail" \in CallPlaces /\ "retire" \in CallPlaces
    BY DEF CallPlaces, Ending, Over
  <2>2. QED
    BY <1>1, <1>3, <2>1, GoesTo
<1>7. /\ rec' \in [Apps -> Record] /\ \A b \in Apps : b # a => rec'[b] = rec[b]
      /\ rec'[a].gen = rec[a].gen /\ rec'[a].inst = rec[a].inst /\ rec'[a].hist = rec[a].hist
      /\ rec'[a].desired = rec[a].desired
      /\ rec'[a].pid = rec[a].pid \/ (Starting /\ rec'[a].pid = call.gen)
      /\ rec'[a].obs \in {"failed", "stopping"} \/ rec' = rec
  BY <1>1, <1>3, <1>4, <1>5, PutOne
<1>8. CallOf(a)'
  <2>1. call'.pc = "retire" => run'[a].stage = 0
    BY <1>1, <1>2, <1>6
  <2>2. QED
    BY <1>6, <2>1 DEF CallOf, PreSpawn, PostSpawn
<1>9. \A p \in procs' : <<p[1], p[2]>> \in alloc' /\ ~Spawning(p)
  <2> SUFFICES ASSUME NEW p \in procs
               PROVE  <<p[1], p[2]>> \in alloc'
    BY <1>1, <1>2 DEF Spawning
  <2>1. call'.pc = "retire" => p[1] # a
    BY <1>1, <1>6, NoProcess
  <2>2. <<p[1], p[2]>> \in alloc
    BY <1>1 DEF Held
  <2>3. QED
    BY <1>6, <2>1, <2>2
<1>10. \A x \in auth' : x[1] = a /\ Leader(a, x[2]) => rec'[a].pid = x[2]
  BY <1>1, <1>2, <1>7, LeaderNamed DEF Named, Mine
<1>11. /\ rec'[a].inst => rec'[a].gen \in Gens
       /\ rec'[a].obs \in Waiting /\ rec'[a].inst => <<a, rec'[a].gen>> \notin auth'
  BY <1>1, <1>2, <1>7 DEF Waits, Waiting
<1>12. alloc' \subseteq Apps \X Gens
  BY <1>1, <1>6 DEF TypeOK
<1>13. QED
  BY <1>1, <1>2, <1>6, <1>7, <1>8, <1>9, <1>10, <1>11, <1>12, CallRec
  DEF TypeOK, PreSpawn, PostSpawn

\* A stop is over when nothing of the application runs.
LEMMA StoppedKeeps == IInv /\ Stopped => IInv'
<1> SUFFICES ASSUME IInv, Stopped
             PROVE  IInv'
  OBVIOUS
<1> PICK a \in Apps : Here(a)
  BY CallFacts DEF Stopped, At
<1>1. /\ a = App /\ call.pc = "retire" /\ ~Starting /\ run[a].stage = 0
      /\ call \in CallType /\ call.app = {a} /\ TypeOK /\ Held /\ Waits
      /\ rec \in [Apps -> Record] /\ rec[a] \in Record /\ "stopped" \in Observed
  BY DEF Here, Stopped, At, CallOf, Observed, Unspawned
<1>2. /\ UNCHANGED <<alloc, auth, run, procs, children, exits, lastExit, task, recon, faults, ops>>
      /\ faults' \in 0 .. MaxFaults
  BY <1>1 DEF Stopped, world, TypeOK
<1>3. /\ call' \in CallType /\ call'.app = call.app /\ call'.op = call.op /\ call'.pc = "ok"
  BY <1>1, GoesOk DEF Stopped
<1>4. /\ rec' \in [Apps -> Record] /\ \A b \in Apps : b # a => rec'[b] = rec[b]
      /\ rec'[a].gen = rec[a].gen /\ rec'[a].inst = rec[a].inst
      /\ rec'[a].desired = rec[a].desired /\ rec'[a].obs = "stopped"
  <2> DEFINE r == [Retired(rec[a], "stopped") EXCEPT !.hist = 0, !.retry = FALSE]
  <2>1. Put(a, r)
    BY <1>1 DEF Stopped
  <2>2. r \in Record /\ r.gen = rec[a].gen /\ r.inst = rec[a].inst
        /\ r.desired = rec[a].desired /\ r.obs = "stopped"
    <3> DEFINE q == Retired(rec[a], "stopped")
    <3>1. /\ q \in Record /\ q.gen = rec[a].gen /\ q.inst = rec[a].inst
          /\ q.desired = rec[a].desired /\ q.obs = "stopped"
      BY <1>1 DEF Record, Retired
    <3>2. 0 \in 0 .. MaxAttempts
      BY ConstantsAssumption
    <3> HIDE DEF q
    <3>3. r = [q EXCEPT !.hist = 0, !.retry = FALSE]
      BY DEF q
    <3>4. QED
      BY <3>1, <3>2, <3>3 DEF Record
  <2> HIDE DEF r
  <2>3. QED
    BY <1>1, <2>1, <2>2, PutOne
<1>5. CallOf(a)'
  BY <1>1, <1>2, <1>3 DEF CallOf, PreSpawn, PostSpawn
<1>6. \A p \in procs : p[1] # a
  BY <1>1, NoProcess
<1>7. \A p \in procs' : <<p[1], p[2]>> \in alloc' /\ ~Spawning(p)
  BY <1>1, <1>2 DEF Held, Spawning
<1>8. \A x \in auth' : ~(x[1] = a /\ Leader(a, x[2]))
  BY <1>6 DEF Leader
<1>9. rec'[a].obs \notin Waiting /\ (rec'[a].inst => rec'[a].gen \in Gens)
  BY <1>1, <1>4 DEF Waits, Waiting
<1>10. QED
  BY <1>1, <1>2, <1>3, <1>4, <1>5, <1>7, <1>8, <1>9, CallRec
  DEF TypeOK, PreSpawn, PostSpawn

\* A start that failed keeps no process; if its dependency vanished it waits
\* without an identity.
LEMMA FailedStartKeeps == IInv /\ FailedStart => IInv'
<1> SUFFICES ASSUME IInv, FailedStart
             PROVE  IInv'
  OBVIOUS
<1> PICK a \in Apps : Here(a)
  BY CallFacts DEF FailedStart, At
<1>1. /\ a = App /\ call.pc = "retire" /\ Starting /\ run[a].stage = 0
      /\ call \in CallType /\ call.app = {a} /\ TypeOK /\ Held /\ Waits
      /\ rec \in [Apps -> Record] /\ rec[a] \in Record
      /\ {"failed", "waiting_dependency"} \subseteq Observed
  BY DEF Here, FailedStart, At, CallOf, Observed, Waiting
<1>2. /\ UNCHANGED <<alloc, auth, run, procs, children, exits, lastExit, task, recon, faults, ops>>
      /\ faults' \in 0 .. MaxFaults
  BY <1>1 DEF FailedStart, world, TypeOK
<1>3. /\ call' \in CallType /\ call'.app = call.app /\ call'.op = call.op
      /\ call'.pc \in {"fail", "ok"}
  <2>1. "fail" \in CallPlaces
    BY DEF CallPlaces, Over
  <2>2. Goto("fail") \/ Ok(FALSE)
    BY DEF FailedStart
  <2>3. QED
    BY <1>1, <2>1, <2>2, GoesTo, GoesOk
<1>4. /\ rec' \in [Apps -> Record] /\ \A b \in Apps : b # a => rec'[b] = rec[b]
      /\ rec'[a].gen = rec[a].gen /\ (rec'[a].inst => rec[a].inst /\ rec'[a].obs = "failed")
      /\ rec'[a].desired = rec[a].desired /\ rec'[a].hist = rec[a].hist
  <2> DEFINE r == Retired(rec[a], "failed")
             s == [Retired(rec[a], "waiting_dependency") EXCEPT !.inst = FALSE]
  <2>1. Put(a, r) \/ Put(a, s)
    BY <1>1 DEF FailedStart
  <2>2. r \in Record /\ r.gen = rec[a].gen /\ r.inst = rec[a].inst
        /\ r.desired = rec[a].desired /\ r.obs = "failed" /\ r.hist = rec[a].hist
    BY <1>1 DEF Record, Retired
  <2>3. s \in Record /\ s.gen = rec[a].gen /\ ~s.inst
        /\ s.desired = rec[a].desired /\ s.hist = rec[a].hist
    BY <1>1 DEF Record, Retired
  <2> HIDE DEF r, s
  <2>4. QED
    BY <1>1, <2>1, <2>2, <2>3, PutOne
<1>5. CallOf(a)'
  BY <1>1, <1>3 DEF CallOf, PreSpawn, PostSpawn, Starting
<1>6. \A p \in procs : p[1] # a
  BY <1>1, NoProcess
<1>7. \A p \in procs' : p[1] # a /\ <<p[1], p[2]>> \in alloc' /\ ~Spawning(p)
  BY <1>1, <1>2, <1>6 DEF Held, Spawning
<1>8. \A x \in auth' : ~(x[1] = a /\ Leader(a, x[2]))
  BY <1>6 DEF Leader
<1>9. /\ rec'[a].inst => rec'[a].obs \notin Waiting
      /\ rec'[a].inst => rec'[a].gen \in Gens
  BY <1>1, <1>4 DEF Waits, Waiting
<1>10. QED
  BY <1>1, <1>2, <1>3, <1>4, <1>5, <1>7, <1>8, <1>9, CallRec
  DEF TypeOK, PreSpawn, PostSpawn

\* The steps of a coordinator call keep the invariant.
LEMMA CallKeeps == NoOrphan /\ IInv /\ CallStep => IInv'
BY AdmitKeeps, AdoptKeeps, RepublishKeeps, ProbeKeeps, DeferKeeps, ReserveKeeps, CommitKeeps,
   PopenKeeps, WriteRunIdsKeeps, OnSpawnKeeps, PublishKeeps, AwaitReadyKeeps, StopIntentKeeps,
   StopPhaseKeeps, TerminateKeeps, KillKeeps, FenceKeeps, RevokeKeeps, SettleKeeps,
   StoppedKeeps, FailedStartKeeps
DEF CallStep

-----------------------------------------------------------------------------
(* Transactions between two of their calls. *)

(* What a transaction that rewrites the record of b leaves intact. *)
Kept(b) ==
    /\ \A p \in procs : p[1] = b => rec'[b].gen = rec[b].gen /\ rec'[b].inst = rec[b].inst
    /\ \A x \in auth : x[1] = b /\ Leader(b, x[2]) => rec'[b].pid = x[2]
    /\ rec'[b].inst => rec'[b].gen \in Gens
    /\ rec'[b].obs \in Waiting /\ rec'[b].inst => <<b, rec'[b].gen>> \notin auth

\* A step between two calls that leaves processes and run records alone.
LEMMA BetweenCalls ==
    ASSUME IInv, call.pc \in {"", "ok", "fail"}, UNCHANGED <<procs, run, lastExit>>,
           rec' \in [Apps -> Record], \A b \in Apps : rec'[b] = rec[b] \/ Kept(b),
           auth' \subseteq auth, alloc' \subseteq alloc,
           \A p \in procs : <<p[1], p[2]>> \in alloc',
           children' \subseteq children, exits' \subseteq exits,
           recon' \in [boot: BOOLEAN, todo: SUBSET Apps],
           faults' \in 0 .. MaxFaults, ops' \in 0 .. MaxOps,
           CallShape', TaskShape', CallInv', TaskInv', IntentInv', BudgetInv'
    PROVE  IInv'
<1>1. TypeOK /\ Held /\ Named /\ Waits
  BY DEF IInv
<1>2. TypeOK'
  BY <1>1 DEF TypeOK, Record
<1>3. Held'
  <2> SUFFICES ASSUME NEW p \in procs
               PROVE  /\ <<p[1], p[2]>> \in alloc'
                      /\ rec'[p[1]].gen = p[2] /\ rec'[p[1]].inst
                      /\ Recorded(p[1], p[2])'
    BY DEF Held
  <2>1. p[1] \in Apps /\ rec[p[1]].gen = p[2] /\ rec[p[1]].inst /\ Recorded(p[1], p[2])
    BY <1>1, ProcParts DEF Held, Spawning
  <2>2. rec'[p[1]].gen = rec[p[1]].gen /\ rec'[p[1]].inst = rec[p[1]].inst
    BY <2>1 DEF Kept
  <2>3. QED
    BY <2>1, <2>2 DEF Recorded
<1>4. Named'
  <2> SUFFICES ASSUME NEW x \in auth, Leader(x[1], x[2])
               PROVE  rec'[x[1]].pid = x[2]
    BY DEF Named, Leader
  <2>1. x[1] \in Apps /\ rec[x[1]].pid = x[2]
    BY <1>1 DEF Named, TypeOK
  <2>2. QED
    BY <2>1 DEF Kept
<1>5. Waits'
  <2> SUFFICES ASSUME NEW b \in Apps
               PROVE  /\ rec'[b].inst => rec'[b].gen \in Gens
                      /\ rec'[b].obs \in Waiting /\ rec'[b].inst => <<b, rec'[b].gen>> \notin auth'
    BY DEF Waits
  <2>1. CASE rec'[b] = rec[b]
    BY <1>1, <2>1 DEF Waits
  <2>2. CASE Kept(b)
    BY <2>2 DEF Kept
  <2>3. QED
    BY <2>1, <2>2
<1>6. QED
  BY <1>2, <1>3, <1>4, <1>5 DEF IInv

\* The same, when only transactions and calls change.
LEMMA BetweenTasks ==
    ASSUME IInv, call.pc \in {"", "ok", "fail"},
           UNCHANGED <<rec, alloc, auth, run, procs, children, exits, lastExit, faults>>,
           recon' \in [boot: BOOLEAN, todo: SUBSET Apps], ops' \in 0 .. MaxOps,
           CallShape', TaskShape', CallInv', TaskInv', IntentInv', BudgetInv'
    PROVE  IInv'
<1>1. /\ rec \in [Apps -> Record] /\ faults \in 0 .. MaxFaults
      /\ \A p \in procs : <<p[1], p[2]>> \in alloc
  BY DEF IInv, TypeOK, Record, Held
<1>2. QED
  BY <1>1, BetweenCalls

\* No call: nothing to say of it.
LEMMA NoCallMade ==
    ASSUME call' = NoCall
    PROVE  CallShape' /\ CallInv'
<1>1. NoCall \in CallType /\ NoCall.pc = "" /\ NoCall.app = {}
  BY DEF NoCall, CallType, CallPlaces
<1>2. QED
  BY <1>1 DEF CallShape, CallInv, PreSpawn, PostSpawn

\* A start that begins.
LEMMA StartMade ==
    ASSUME NEW a \in Apps, NEW op \in StartOps, call' = Call(op, a)
    PROVE  /\ CallShape' /\ CallInv' /\ Starting'
           /\ call'.pc = "begin" /\ call'.op = op /\ call'.app = {a}
<1>1. /\ Call(op, a) \in CallType /\ Call(op, a).pc = "begin" /\ Call(op, a).op = op
      /\ Call(op, a).app = {a}
  BY DEF Call, NoCall, CallType, CallPlaces
<1>2. op \notin {"", "stopped", "running"}
  BY DEF StartOps
<1>3. Starting'
  BY <1>1, <1>2 DEF Starting
<1>4. CallShape'
  BY <1>1, <1>2, <1>3 DEF CallShape
<1>5. CallInv'
  BY <1>1 DEF CallInv, CallOf, PreSpawn, PostSpawn
<1>6. QED
  BY <1>1, <1>3, <1>4, <1>5

\* A stop that begins, whatever process it names.
LEMMA StopMade ==
    ASSUME TypeOK, NEW a \in Apps, NEW d \in {"stopped", "running"}, NEW r \in Gens \cup {0},
           call' = [StopCall(a, d) EXCEPT !.pid = r]
    PROVE  /\ CallShape' /\ CallInv' /\ ~Starting'
           /\ call'.pc = "intent" /\ call'.op = d /\ call'.app = {a}
<1>1. rec[a].gen \in Gens \cup {0}
  BY DEF TypeOK
<1>2. /\ call' \in CallType /\ call'.pc = "intent" /\ call'.op = d /\ call'.app = {a}
  BY <1>1 DEF StopCall, NoCall, CallType, CallPlaces
<1>3. ~Starting'
  BY <1>2 DEF Starting
<1>4. CallShape'
  BY <1>2, <1>3 DEF CallShape, PreSpawn, PostSpawn
<1>5. CallInv'
  BY <1>2 DEF CallInv, CallOf, PreSpawn, PostSpawn
<1>6. QED
  BY <1>2, <1>3, <1>4, <1>5

\* A stop of the process the lifecycle record names.
LEMMA PlainStopMade ==
    ASSUME TypeOK, NEW a \in Apps, NEW d \in {"stopped", "running"}, call' = StopCall(a, d)
    PROVE  /\ CallShape' /\ CallInv' /\ ~Starting'
           /\ call'.pc = "intent" /\ call'.op = d /\ call'.app = {a}
<1>1. rec[a].pid \in Gens \cup {0}
  BY DEF TypeOK
<1>2. call' = [StopCall(a, d) EXCEPT !.pid = rec[a].pid]
  BY DEF StopCall, NoCall
<1>3. QED
  BY <1>1, <1>2, StopMade

\* The end of a transaction.
LEMMA Ends ==
    ASSUME End
    PROVE  CallShape' /\ TaskShape' /\ CallInv' /\ TaskInv' /\ IntentInv' /\ BudgetInv'
<1>1. task' = NoTask /\ call' = NoCall
  BY DEF End
<1>2. /\ NoTask.job = "idle" /\ NoTask.step = "" /\ NoTask.app = {} /\ NoCall.op = ""
      /\ NoTask \in TaskType
      /\ NoCall.pc = "" /\ NoCall.app = {}
  BY DEF NoTask, NoCall, TaskType, Jobs, Steps
<1>3. TaskShape'
  BY <1>1, <1>2 DEF TaskShape, OneSteps
<1>4. IntentInv'
  BY <1>1, <1>2 DEF IntentInv
<1>5. TaskInv' /\ BudgetInv'
  BY <1>1, <1>2 DEF TaskInv, BudgetInv
<1>6. QED
  BY <1>1, <1>3, <1>4, <1>5, NoCallMade

\* A transaction of one application is of the one it names.
LEMMA TheSubject ==
    ASSUME TaskShape, task.step \in OneSteps
    PROVE  /\ Subject \in Apps /\ task.app = {Subject} /\ task.job = "one"
           /\ task.step \in {"decide", "revoke", "release", "crashed", "policy"} => call = NoCall
BY DEF TaskShape, Subject

\* No call is of no application.
LEMMA NoCallIs == NoCall.pc = "" /\ NoCall.op = "" /\ NoCall.app = {}
BY DEF NoCall

\* What a transaction begins with.
LEMMA Begins ==
    ASSUME NEW job \in Jobs, NEW step \in Steps, NEW apps \in SUBSET Apps,
           NEW todo \in SUBSET Apps, Begin(job, step, apps, todo)
    PROVE  /\ task' \in TaskType /\ task'.job = job /\ task'.step = step
           /\ task'.app = apps /\ task'.todo = todo
BY DEF Begin, NoTask, TaskType

\* What may be said of a state in which nobody holds the gate.
LEMMA WhenIdle ==
    ASSUME IInv, Idle
    PROVE  /\ task = NoTask /\ call = NoCall /\ call.pc = "" /\ TypeOK
           /\ recon \in [boot: BOOLEAN, todo: SUBSET Apps] /\ ops \in 0 .. MaxOps
BY NoCallIs DEF IInv, TaskShape, Idle, TypeOK

\* A user's transaction: its call is of the application it names.
LEMMA UserOpKeeps ==
    ASSUME IInv, NEW a \in Apps, UserOp(a)
    PROVE  IInv'
<1>1. /\ call.pc = "" /\ TypeOK
      /\ recon \in [boot: BOOLEAN, todo: SUBSET Apps] /\ ops \in 0 .. MaxOps
  BY WhenIdle DEF UserOp
<1>2. UNCHANGED <<rec, alloc, auth, run, procs, children, exits, lastExit, recon, faults>>
  BY DEF UserOp, durable, world
<1>3. ops' \in 0 .. MaxOps
  <2>1. ops < MaxOps /\ ops' = ops + 1
    BY DEF UserOp
  <2>2. ops \in 0 .. MaxOps /\ MaxOps \in Nat
    BY <1>1, ConstantsAssumption
  <2>3. QED
    BY <2>1, <2>2
<1>4. \/ Begin("start", "", {a}, {}) /\ call' = Call("start", a)
      \/ Begin("stop", "", {a}, {}) /\ call' = StopCall(a, "stopped")
      \/ Begin("restart", "stop", {a}, {}) /\ call' = StopCall(a, "stopped")
  BY DEF UserOp
<1>5. /\ CallShape' /\ CallInv' /\ call'.app = {a}
      /\ call'.pc = "begin" \/ (call'.pc = "intent" /\ call'.op = "stopped")
  <2>1. "start" \in StartOps
    BY DEF StartOps
  <2>2. QED
    BY <1>1, <1>4, <2>1, StartMade, PlainStopMade
<1>6. /\ task' \in TaskType /\ task'.job \in {"start", "stop", "restart"}
      /\ task'.step = "" \/ (task'.step = "stop" /\ task'.job = "restart")
      /\ task'.app = {a}
      /\ call'.pc = "begin" => task'.job = "start"
  <2>1. /\ "start" \in Jobs /\ "stop" \in Jobs /\ "restart" \in Jobs
        /\ "" \in Steps /\ "stop" \in Steps
        /\ {a} \in SUBSET Apps /\ {} \in SUBSET Apps
    BY DEF Jobs, Steps
  <2>2. call'.pc = "begin" => call' # StopCall(a, "stopped")
    BY DEF StopCall, NoCall
  <2>3. CASE Begin("start", "", {a}, {})
    BY <2>1, <2>3, Begins
  <2>4. CASE Begin("stop", "", {a}, {}) /\ call' = StopCall(a, "stopped")
    BY <2>1, <2>2, <2>4, Begins
  <2>5. CASE Begin("restart", "stop", {a}, {}) /\ call' = StopCall(a, "stopped")
    BY <2>1, <2>2, <2>5, Begins
  <2>6. QED
    BY <1>4, <2>3, <2>4, <2>5
<1>7. TaskShape'
  BY <1>5, <1>6 DEF TaskShape, OneSteps
<1>8. TaskInv' /\ BudgetInv' /\ IntentInv'
  BY <1>5, <1>6 DEF TaskInv, BudgetInv, IntentInv
<1>9. QED
  BY <1>1, <1>2, <1>3, <1>5, <1>7, <1>8, BetweenTasks

\* A user's restart goes on with its start, for the same application.
LEMMA UserDoneKeeps == IInv /\ UserDone => IInv'
<1> SUFFICES ASSUME IInv, UserDone
             PROVE  IInv'
  OBVIOUS
<1>1. /\ TypeOK /\ TaskShape /\ call.pc \in {"ok", "fail"} /\ task.job \in {"start", "stop", "restart"}
      /\ recon \in [boot: BOOLEAN, todo: SUBSET Apps] /\ ops \in 0 .. MaxOps
  BY DEF IInv, UserDone, Done, TypeOK
<1>2. UNCHANGED <<rec, alloc, auth, run, procs, children, exits, lastExit, recon, faults, ops>>
  BY DEF UserDone, durable, world
<1>3. CASE End
  BY <1>1, <1>2, <1>3, Ends, BetweenTasks
<1>4. CASE /\ task.step = "stop" /\ task' = [task EXCEPT !.step = ""]
           /\ call' = Call("restart", Subject)
  <2>1. PICK a \in Apps : task.app = {a}
    BY <1>1 DEF IInv, CallShape, TaskShape
  <2>2. call' = Call("restart", a) /\ "restart" \in StartOps
    BY <1>4, <2>1 DEF Subject, StartOps
  <2>3. CallShape' /\ CallInv' /\ call'.pc = "begin" /\ call'.app = {a} /\ call'.op = "restart"
    BY <2>2, StartMade
  <2>4. /\ task' \in TaskType /\ task'.job = "restart" /\ task'.step = "" /\ task'.app = {a}
    BY <1>1, <1>4, <2>1 DEF TaskShape, TaskType, Steps
  <2>5. TaskShape'
    BY <2>3, <2>4 DEF TaskShape, OneSteps
  <2>6. TaskInv' /\ BudgetInv' /\ IntentInv'
    BY <2>3, <2>4 DEF TaskInv, BudgetInv, IntentInv
  <2>7. QED
    BY <1>1, <1>2, <2>3, <2>5, <2>6, BetweenTasks
<1>5. QED
  BY <1>3, <1>4 DEF UserDone

\* A pass of the reconciler, and a restoration, begin with the sweep.
LEMMA BeginTickKeeps == IInv /\ BeginTick => IInv'
<1> SUFFICES ASSUME IInv, BeginTick
             PROVE  IInv'
  OBVIOUS
<1>1. /\ call = NoCall /\ call.pc = ""
      /\ recon \in [boot: BOOLEAN, todo: SUBSET Apps] /\ ops \in 0 .. MaxOps
  BY WhenIdle DEF BeginTick
<1>2. UNCHANGED <<rec, alloc, auth, run, procs, children, exits, lastExit, recon, faults, ops, call>>
  BY DEF BeginTick, durable, world
<1>3. /\ task' \in TaskType /\ task'.job \in {"boot", "tick"} /\ task'.step = "sweep"
      /\ task'.app = {}
  <2>1. {"boot", "tick"} \subseteq Jobs /\ "sweep" \in Steps
    BY DEF Jobs, Steps
  <2>2. Begin("boot", "sweep", {}, Apps) \/ Begin("tick", "sweep", {}, Apps)
    BY DEF BeginTick
  <2>3. QED
    BY <2>1, <2>2, Begins
<1>4. CallShape' /\ CallInv'
  BY <1>1, <1>2, NoCallMade
<1>5. TaskShape'
  BY <1>1, <1>2, <1>3 DEF TaskShape, OneSteps
<1>6. TaskInv' /\ BudgetInv' /\ IntentInv'
  BY <1>1, <1>2, <1>3, NoCallIs DEF TaskInv, BudgetInv, IntentInv
<1>7. QED
  BY <1>1, <1>2, <1>4, <1>5, <1>6, BetweenTasks

\* The shutdown stops everything.
LEMMA BeginShutdownKeeps == IInv /\ BeginShutdown => IInv'
<1> SUFFICES ASSUME IInv, BeginShutdown
             PROVE  IInv'
  OBVIOUS
<1>1. /\ call = NoCall /\ call.pc = ""
      /\ recon \in [boot: BOOLEAN, todo: SUBSET Apps] /\ ops \in 0 .. MaxOps
  BY WhenIdle DEF BeginShutdown
<1>2. UNCHANGED <<rec, alloc, auth, run, procs, children, exits, lastExit, recon, faults, call>>
  BY DEF BeginShutdown, durable, world
<1>3. ops' \in 0 .. MaxOps
  <2>1. ops < MaxOps /\ ops' = ops + 1
    BY DEF BeginShutdown
  <2>2. ops \in 0 .. MaxOps /\ MaxOps \in Nat
    BY <1>1, ConstantsAssumption
  <2>3. QED
    BY <2>1, <2>2
<1>4. /\ task' \in TaskType /\ task'.job = "shutdown" /\ task'.step = "stop" /\ task'.app = {}
  <2>1. "shutdown" \in Jobs /\ "stop" \in Steps
    BY DEF Jobs, Steps
  <2>2. QED
    BY <2>1, Begins DEF BeginShutdown
<1>5. CallShape' /\ CallInv'
  BY <1>1, <1>2, NoCallMade
<1>6. TaskShape'
  BY <1>1, <1>2, <1>4 DEF TaskShape, OneSteps
<1>7. TaskInv' /\ BudgetInv' /\ IntentInv'
  BY <1>1, <1>2, <1>4, NoCallIs DEF TaskInv, BudgetInv, IntentInv
<1>8. QED
  BY <1>1, <1>2, <1>3, <1>5, <1>6, <1>7, BetweenTasks

\* The section of one application begins only while it is to run.
LEMMA BeginOneKeeps ==
    ASSUME IInv, NEW a \in Apps, BeginOne(a)
    PROVE  IInv'
<1>1. /\ task = NoTask /\ call = NoCall /\ call.pc = ""
      /\ recon \in [boot: BOOLEAN, todo: SUBSET Apps] /\ ops \in 0 .. MaxOps
  BY WhenIdle DEF BeginOne
<1>2. UNCHANGED <<rec, alloc, auth, run, procs, children, exits, lastExit, faults, ops, call>>
  BY DEF BeginOne, durable, world
<1>3. recon' \in [boot: BOOLEAN, todo: SUBSET Apps]
  BY <1>1 DEF BeginOne
<1>4. CallShape' /\ CallInv'
  BY <1>1, <1>2, NoCallMade
<1>5. CASE task' = task
  <2>1. End
    BY <1>1, <1>2, <1>5 DEF End
  <2>2. QED
    BY <1>1, <1>2, <1>3, <2>1, Ends, BetweenTasks
<1>6. CASE rec[a].desired = "running" /\ Begin("one", "decide", {a}, {})
  <2>1. /\ task' \in TaskType /\ task'.job = "one" /\ task'.step = "decide" /\ task'.app = {a}
    <3>1. "one" \in Jobs /\ "decide" \in Steps
      BY DEF Jobs, Steps, OneSteps
    <3>2. QED
      BY <1>6, <3>1, Begins
  <2>2. TaskShape'
    BY <1>1, <1>2, <2>1 DEF TaskShape, OneSteps
  <2>3. TaskInv' /\ BudgetInv' /\ IntentInv'
    BY <1>1, <1>2, <1>6, <2>1, NoCallIs DEF TaskInv, BudgetInv, IntentInv
  <2>4. QED
    BY <1>1, <1>2, <1>3, <1>4, <2>2, <2>3, BetweenTasks
<1>7. QED
  BY <1>5, <1>6 DEF BeginOne

\* The lists of a transaction change, and nothing else of it.
LEMMA TodoTyped ==
    ASSUME task \in TaskType, NEW todo \in SUBSET Apps, NEW swept \in SUBSET Apps,
           task' = [task EXCEPT !.todo = todo, !.swept = swept]
    PROVE  /\ task' \in TaskType /\ task'.step = task.step /\ task'.job = task.job
           /\ task'.app = task.app /\ task'.todo = todo
BY DEF TaskType

\* The sweep clears a record only of a group it has found, or left, empty.
LEMMA SweepKeeps == NoOrphan /\ IInv /\ Sweep => IInv'
<1> SUFFICES ASSUME NoOrphan, IInv, Sweep
             PROVE  IInv'
  OBVIOUS
<1>1. /\ TypeOK /\ TaskShape /\ Held /\ Named /\ Waits /\ call = NoCall /\ call.pc = ""
      /\ task \in TaskType /\ task.step = "sweep" /\ task.job \in {"boot", "tick"}
      /\ run \in [Apps -> RunRecord] /\ rec \in [Apps -> Record]
  BY NoCallIs DEF IInv, Sweep, TaskShape, TypeOK, RunRecord, Record
<1>2. UNCHANGED <<rec, alloc, auth, children, exits, lastExit, call, recon, ops>>
  BY DEF Sweep
<1>3. CallShape' /\ CallInv'
  BY <1>1, <1>2, NoCallMade
<1>4. /\ task' \in TaskType /\ task'.step \in {"sweep", "recover"} /\ task'.job = task.job
      /\ task'.app = task.app
  <2>1. {"sweep", "recover"} \subseteq Steps
    BY DEF Steps
  <2>2. \/ task' = [task EXCEPT !.step = "recover", !.todo = Apps]
        \/ \E a \in task.todo :
              \/ task' = [task EXCEPT !.todo = @ \ {a}, !.swept = @]
              \/ task' = [task EXCEPT !.todo = @ \ {a}, !.swept = @ \cup {a}]
    BY DEF Sweep
  <2>3. task.todo \subseteq Apps
    BY <1>1 DEF TaskType
  <2>4. CASE task' = [task EXCEPT !.step = "recover", !.todo = Apps]
    BY <1>1, <2>1, <2>4 DEF TaskType
  <2>5. ASSUME NEW a \in task.todo,
               \/ task' = [task EXCEPT !.todo = @ \ {a}, !.swept = @]
               \/ task' = [task EXCEPT !.todo = @ \ {a}, !.swept = @ \cup {a}]
        PROVE  /\ task' \in TaskType /\ task'.step = task.step /\ task'.job = task.job
               /\ task'.app = task.app
    <3>1. /\ task.todo \ {a} \in SUBSET Apps
          /\ task.swept \in SUBSET Apps /\ task.swept \cup {a} \in SUBSET Apps
      BY <1>1, <2>3 DEF TaskType
    <3>2. \E swept \in SUBSET Apps :
             task' = [task EXCEPT !.todo = task.todo \ {a}, !.swept = swept]
      BY <2>5, <3>1
    <3>3. QED
      BY <1>1, <3>1, <3>2, TodoTyped
  <2>6. QED
    BY <1>1, <2>2, <2>4, <2>5
<1>5. TaskShape'
  BY <1>1, <1>2, <1>4 DEF TaskShape, OneSteps
<1>6. TaskInv' /\ BudgetInv' /\ IntentInv'
  BY <1>1, <1>2, <1>4, NoCallIs DEF TaskInv, BudgetInv, IntentInv
<1>7. CASE UNCHANGED <<run, procs, faults>>
  <2>1. UNCHANGED <<rec, alloc, auth, run, procs, children, exits, lastExit, faults>>
    BY <1>2, <1>7
  <2>2. recon' \in [boot: BOOLEAN, todo: SUBSET Apps] /\ ops' \in 0 .. MaxOps
    BY <1>1, <1>2 DEF TypeOK
  <2>3. QED
    BY <1>1, <1>3, <1>5, <1>6, <2>1, <2>2, BetweenTasks
<1>8. ASSUME NEW a \in task.todo, NEW stays \in BOOLEAN, NEW left \in BOOLEAN,
             StaleRecord(a), MayStay(a, run[a].gen, stays), stays => Trusted(a) /\ left,
             procs' = IF Trusted(a) THEN Killed(a, run[a].gen, stays) ELSE procs,
             run' = IF left THEN run ELSE [run EXCEPT ![a] = NoRun]
      PROVE  IInv'
  <2> DEFINE g == run[a].gen
  <2>1. a \in Apps /\ run[a].stage = 3
    BY <1>1, <1>8 DEF TaskType, StaleRecord
  <2>2. \A p \in procs : /\ p[1] \in Apps /\ Recorded(p[1], p[2])
                         /\ <<p[1], p[2]>> \in alloc /\ rec[p[1]].gen = p[2] /\ rec[p[1]].inst
    BY <1>1, ProcParts DEF Held, Spawning
  <2>3. /\ faults' \in 0 .. MaxFaults /\ procs' \subseteq Apps \X Gens \X Parts
        /\ \A b, h : Leader(b, h)' => Leader(b, h)
        /\ \A p \in procs' :
              \/ p \in procs /\ p[1] # a
              \/ /\ left /\ p[1] = a /\ Recorded(a, p[2]) /\ <<a, p[2]>> \in alloc
                 /\ rec[a].gen = p[2] /\ rec[a].inst
    <3>1. CASE Trusted(a)
      <4>1. procs' = Killed(a, g, stays)
        BY <1>8, <3>1
      <4>2. /\ faults' \in 0 .. MaxFaults /\ procs' \subseteq Apps \X Gens \X Parts
            /\ \A b, h : Leader(b, h)' => Leader(b, h)
            /\ \A p \in procs' :
                  \/ p \in procs /\ ~(p[1] = a /\ p[2] = g)
                  \/ /\ p = <<a, g, "dstate">> /\ stays /\ Recorded(a, g) /\ <<a, g>> \in alloc
                     /\ rec[a].gen = g /\ rec[a].inst
        BY <1>8, <2>1, <4>1, KillLeaves
      <4>3. \A p \in procs : p[1] = a => p[2] = g
        BY <2>2 DEF Recorded
      <4>4. QED
        BY <1>8, <4>2, <4>3
    <3>2. CASE ~Trusted(a)
      <4>1. procs' = procs /\ ~stays
        BY <1>8, <3>2
      <4>2. \A p \in procs : p[1] # a
        BY <2>2, <3>2 DEF Recorded, Trusted
      <4>3. faults' \in 0 .. MaxFaults
        <5>1. faults' = faults \/ \E kind \in {"orphan", "dstate"} : Maybe(kind, stays)
          BY <1>8 DEF MayStay
        <5>2. QED
          BY <1>1, <5>1, FaultsTyped DEF TypeOK
      <4>4. QED
        BY <1>1, <4>1, <4>2, <4>3 DEF TypeOK, Leader
    <3>3. QED
      BY <3>1, <3>2
  <2>4. /\ run' \in [Apps -> RunRecord] /\ \A b \in Apps : b # a => run'[b] = run[b]
        /\ left => run' = run
    <3>1. NoRun \in RunRecord
      BY DEF NoRun, RunRecord
    <3>2. QED
      BY <1>1, <1>8, <2>1, <3>1
  <2>5. TypeOK'
    BY <1>1, <1>2, <2>3, <2>4 DEF TypeOK, RunRecord
  <2>6. Held'
    <3> SUFFICES ASSUME NEW p \in procs'
                 PROVE  /\ <<p[1], p[2]>> \in alloc'
                        /\ rec'[p[1]].gen = p[2] /\ rec'[p[1]].inst
                        /\ Recorded(p[1], p[2])'
      BY DEF Held
    <3>1. CASE p \in procs /\ p[1] # a
      BY <1>2, <2>2, <2>4, <3>1 DEF Recorded
    <3>2. CASE /\ left /\ p[1] = a /\ Recorded(a, p[2]) /\ <<a, p[2]>> \in alloc
               /\ rec[a].gen = p[2] /\ rec[a].inst
      BY <1>2, <2>4, <3>2 DEF Recorded
    <3>3. QED
      BY <2>3, <3>1, <3>2
  <2>7. Named' /\ Waits'
    BY <1>1, <1>2, <2>3 DEF Named, Waits
  <2>8. QED
    BY <1>3, <1>5, <1>6, <2>5, <2>6, <2>7 DEF IInv
<1>9. QED
  BY <1>7, <1>8 DEF Sweep

\* A teardown that is retried has the intent of the record.
LEMMA RecoverKeeps == IInv /\ Recover => IInv'
<1> SUFFICES ASSUME IInv, Recover
             PROVE  IInv'
  OBVIOUS
<1>1. /\ TypeOK /\ TaskShape /\ task \in TaskType /\ call.pc \in {"", "ok", "fail"}
      /\ task.step = "recover" /\ task.job \in {"boot", "tick"}
      /\ recon \in [boot: BOOLEAN, todo: SUBSET Apps] /\ ops \in 0 .. MaxOps
  BY DEF IInv, Recover, TaskShape, TypeOK
<1>2. UNCHANGED <<rec, alloc, auth, run, procs, children, exits, lastExit, recon, faults, ops>>
  BY DEF Recover, durable, world
<1>3. CASE task' = [task EXCEPT !.step = "alloc", !.swept = {}] /\ call' = NoCall
  <2>1. /\ task' \in TaskType /\ task'.step = "alloc" /\ task'.job = task.job
        /\ task'.app = task.app
    BY <1>1, <1>3 DEF TaskType, Steps
  <2>2. CallShape' /\ CallInv'
    BY <1>3, NoCallMade
  <2>3. TaskShape'
    BY <1>1, <1>3, <2>1 DEF TaskShape, OneSteps
  <2>4. TaskInv' /\ BudgetInv' /\ IntentInv'
    BY <1>1, <1>3, <2>1, NoCallIs DEF TaskInv, BudgetInv, IntentInv
  <2>5. QED
    BY <1>1, <1>2, <2>2, <2>3, <2>4, BetweenTasks
<1>4. ASSUME NEW a \in task.todo, task' = [task EXCEPT !.todo = @ \ {a}],
             call' = StopCall(a, rec[a].desired)
      PROVE  IInv'
  <2>1. a \in Apps
    BY <1>1 DEF TaskType
  <2>2. rec[a].desired \in {"stopped", "running"}
    BY <1>1, <2>1 DEF TypeOK
  <2>3. /\ CallShape' /\ CallInv' /\ call'.pc = "intent" /\ call'.app = {a}
        /\ call'.op = rec[a].desired /\ ~Starting'
    BY <1>1, <1>4, <2>1, <2>2, PlainStopMade
  <2>4. /\ task' \in TaskType /\ task'.step = "recover" /\ task'.job = task.job
        /\ task'.app = task.app
    BY <1>1, <1>4 DEF TaskType
  <2>5. TaskShape'
    BY <1>1, <2>3, <2>4 DEF TaskShape, OneSteps
  <2>6. TaskInv' /\ BudgetInv'
    BY <2>4 DEF TaskInv, BudgetInv
  <2>7. IntentInv'
    BY <1>1, <1>2, <2>3, <2>4 DEF IntentInv
  <2>8. QED
    BY <1>1, <1>2, <2>3, <2>5, <2>6, <2>7, BetweenTasks
<1>5. QED
  BY <1>3, <1>4 DEF Recover

\* No reservation goes under a process: a process has a run record.
LEMMA ReconcileAllocationsKeeps == IInv /\ ReconcileAllocations => IInv'
<1> SUFFICES ASSUME IInv, ReconcileAllocations
             PROVE  IInv'
  OBVIOUS
<1>1. /\ TypeOK /\ TaskShape /\ Held /\ task \in TaskType /\ call = NoCall /\ call.pc = ""
      /\ task.step = "alloc" /\ task.job \in {"boot", "tick"}
      /\ rec \in [Apps -> Record] /\ run \in [Apps -> RunRecord]
      /\ recon \in [boot: BOOLEAN, todo: SUBSET Apps]
      /\ faults \in 0 .. MaxFaults /\ ops \in 0 .. MaxOps
  BY NoCallIs DEF IInv, ReconcileAllocations, TaskShape, TypeOK, Record, RunRecord
<1>2. UNCHANGED <<rec, auth, run, procs, children, exits, lastExit, faults, ops, call>>
  BY DEF ReconcileAllocations, world
<1> DEFINE desired == {a \in Apps : rec[a].desired = "running"}
<1>3. /\ alloc' \subseteq alloc
      /\ \A x \in alloc : HasRecord(x[1]) => x \in alloc'
      /\ \/ /\ task' = [task EXCEPT !.step = "restore", !.todo = desired]
            /\ recon' = [boot |-> FALSE, todo |-> {}]
         \/ task' = NoTask /\ recon' = [recon EXCEPT !.todo = desired]
  BY DEF ReconcileAllocations
<1>4. desired \subseteq Apps /\ (\A a \in desired : rec[a].desired = "running")
  OBVIOUS
<1> HIDE DEF desired
<1>5. recon' \in [boot: BOOLEAN, todo: SUBSET Apps]
  <2>1. [boot |-> FALSE, todo |-> {}] \in [boot: BOOLEAN, todo: SUBSET Apps]
    OBVIOUS
  <2>2. [recon EXCEPT !.todo = desired] \in [boot: BOOLEAN, todo: SUBSET Apps]
    BY <1>1, <1>4
  <2>3. QED
    BY <1>3, <2>1, <2>2
<1>6. \A p \in procs : <<p[1], p[2]>> \in alloc'
  <2> SUFFICES ASSUME NEW p \in procs
               PROVE  <<p[1], p[2]>> \in alloc'
    OBVIOUS
  <2>1. p[1] \in Apps /\ <<p[1], p[2]>> \in alloc /\ Recorded(p[1], p[2])
    BY <1>1, ProcParts DEF Held, Spawning
  <2>2. run[p[1]].stage \in 0 .. 3
    BY <1>1, <2>1 DEF RunRecord
  <2>3. HasRecord(p[1])
    BY <2>1, <2>2 DEF Recorded, HasRecord
  <2>4. QED
    BY <1>3, <2>1, <2>3
<1>7. CallShape' /\ CallInv' /\ Starting'
  BY <1>1, <1>2, NoCallMade, NoCallIs DEF Starting
<1>8. TaskShape' /\ TaskInv' /\ BudgetInv' /\ IntentInv'
  <2>1. CASE task' = NoTask
    <3>1. End
      BY <1>1, <1>2, <2>1 DEF End
    <3>2. QED
      BY <3>1, Ends
  <2>2. CASE task' = [task EXCEPT !.step = "restore", !.todo = desired]
    <3>1. /\ task' \in TaskType /\ task'.step = "restore" /\ task'.job = task.job
          /\ task'.todo = desired
      BY <1>1, <1>4, <2>2 DEF TaskType, Steps
    <3>2. TaskShape'
      BY <1>1, <1>2, <1>7, <3>1 DEF TaskShape, OneSteps
    <3>3. TaskInv' /\ BudgetInv' /\ IntentInv'
      BY <1>1, <1>2, <1>4, <3>1, NoCallIs DEF TaskInv, BudgetInv, IntentInv
    <3>4. QED
      BY <3>2, <3>3
  <2>3. QED
    BY <1>3, <2>1, <2>2
<1>9. QED
  BY <1>1, <1>2, <1>3, <1>5, <1>6, <1>7, <1>8, BetweenCalls

\* The restoration starts what was listed as desired, and nothing turned
\* that intent back meanwhile: the gate is held.
LEMMA RestoreKeeps == IInv /\ Restore => IInv'
<1> SUFFICES ASSUME IInv, Restore
             PROVE  IInv'
  OBVIOUS
<1>1. /\ TypeOK /\ TaskShape /\ task \in TaskType /\ call.pc \in {"", "ok", "fail"}
      /\ task.step = "restore" /\ task.job \in {"boot", "tick"}
      /\ \A a \in task.todo : rec[a].desired = "running"
      /\ recon \in [boot: BOOLEAN, todo: SUBSET Apps] /\ ops \in 0 .. MaxOps
  BY DEF IInv, Restore, TaskShape, TypeOK, IntentInv
<1>2. UNCHANGED <<rec, alloc, auth, run, procs, children, exits, lastExit, recon, faults, ops>>
  BY DEF Restore, durable, world
<1>3. CASE End
  BY <1>1, <1>2, <1>3, Ends, BetweenTasks
<1>4. ASSUME NEW a \in task.todo, NEW op \in {"boot_adopt", "boot_restore"},
             task' = [task EXCEPT !.todo = @ \ {a}], call' = Call(op, a)
      PROVE  IInv'
  <2>1. a \in Apps /\ task.todo \ {a} \in SUBSET Apps /\ task.swept \in SUBSET Apps
        /\ op \in StartOps /\ op # "auto_restart"
    BY <1>1 DEF TaskType, StartOps
  <2>2. /\ CallShape' /\ CallInv' /\ call'.pc = "begin" /\ call'.app = {a}
        /\ call'.op = op /\ Starting'
    BY <1>4, <2>1, StartMade
  <2>3. /\ task' \in TaskType /\ task'.step = "restore" /\ task'.job = task.job
        /\ task'.app = task.app /\ task'.todo = task.todo \ {a}
    BY <1>1, <1>4, <2>1 DEF TaskType
  <2>4. TaskShape'
    BY <1>1, <2>2, <2>3 DEF TaskShape, OneSteps
  <2>5. TaskInv' /\ BudgetInv'
    BY <2>3 DEF TaskInv, BudgetInv
  <2>6. IntentInv'
    <3>1. \A b \in Apps : call'.app = {b} => b = a
      BY <2>2
    <3>2. \A b \in task'.todo : rec'[b].desired = "running"
      BY <1>1, <1>2, <2>3
    <3>3. rec'[a].desired = "running" /\ task'.job # "one"
      BY <1>1, <1>2, <2>3
    <3>4. QED
      BY <2>2, <3>1, <3>2, <3>3 DEF IntentInv
  <2>7. QED
    BY <1>1, <1>2, <2>2, <2>4, <2>5, <2>6, BetweenTasks
<1>5. QED
  BY <1>3, <1>4 DEF Restore

\* The shutdown stops applications with the intent of their records.
LEMMA ShutdownKeeps == IInv /\ Shutdown => IInv'
<1> SUFFICES ASSUME IInv, Shutdown
             PROVE  IInv'
  OBVIOUS
<1>1. /\ TypeOK /\ TaskShape /\ Held /\ task \in TaskType /\ call.pc \in {"", "ok", "fail"}
      /\ task.job = "shutdown" /\ rec \in [Apps -> Record]
      /\ recon \in [boot: BOOLEAN, todo: SUBSET Apps]
      /\ faults \in 0 .. MaxFaults /\ ops \in 0 .. MaxOps
      /\ \A p \in procs : <<p[1], p[2]>> \in alloc
  BY DEF IInv, Shutdown, TaskShape, TypeOK, Record, Held
<1>2. UNCHANGED <<rec, alloc, auth, run, procs, lastExit, faults, ops>>
  BY DEF Shutdown, durable
<1>3. CASE End /\ children' = {} /\ exits' = {} /\ recon' = [boot |-> TRUE, todo |-> {}]
  <2>1. recon' \in [boot: BOOLEAN, todo: SUBSET Apps]
    BY <1>3
  <2>2. CallShape' /\ TaskShape' /\ CallInv' /\ TaskInv' /\ IntentInv' /\ BudgetInv'
    BY <1>3, Ends
  <2>3. QED
    BY <1>1, <1>2, <1>3, <2>1, <2>2, BetweenCalls
<1>4. ASSUME NEW a \in task.todo, task' = [task EXCEPT !.todo = @ \ {a}],
             call' = StopCall(a, rec[a].desired), UNCHANGED <<children, exits, recon>>
      PROVE  IInv'
  <2>1. a \in Apps /\ task.todo \ {a} \in SUBSET Apps
    BY <1>1 DEF TaskType
  <2>2. rec[a].desired \in {"stopped", "running"}
    BY <1>1, <2>1 DEF Record
  <2>3. /\ CallShape' /\ CallInv' /\ call'.pc = "intent" /\ call'.app = {a}
        /\ call'.op = rec[a].desired /\ ~Starting'
    BY <1>1, <1>4, <2>1, <2>2, PlainStopMade
  <2>4. /\ task' \in TaskType /\ task'.step = task.step /\ task'.job = "shutdown"
        /\ task'.app = task.app
    BY <1>1, <1>4, <2>1 DEF TaskType
  <2>5. task.step \notin OneSteps \cup {"sweep", "recover", "alloc", "restore"}
    BY <1>1 DEF TaskShape
  <2>6. TaskShape'
    BY <1>1, <2>3, <2>4, <2>5 DEF TaskShape, OneSteps
  <2>7. TaskInv' /\ BudgetInv'
    BY <2>4, <2>5 DEF TaskInv, BudgetInv, OneSteps
  <2>8. IntentInv'
    BY <1>2, <2>3, <2>4, <2>5 DEF IntentInv
  <2>9. QED
    BY <1>1, <1>2, <1>4, <2>3, <2>6, <2>7, <2>8, BetweenTasks
<1>5. QED
  BY <1>3, <1>4 DEF Shutdown

-----------------------------------------------------------------------------
(* The section of one application. *)

(* What the invariant says of a section that has no call of its own yet. *)
Section(a) ==
    /\ a = Subject /\ task.app = {a} /\ task.job = "one" /\ task \in TaskType
    /\ call = NoCall /\ call.pc = ""
    /\ TypeOK /\ Held /\ Named /\ Waits
    /\ rec \in [Apps -> Record] /\ rec[a] \in Record /\ rec[a].desired = "running"
    /\ run \in [Apps -> RunRecord] /\ run[a] \in RunRecord
    /\ recon \in [boot: BOOLEAN, todo: SUBSET Apps]
    /\ faults \in 0 .. MaxFaults /\ ops \in 0 .. MaxOps
    /\ task.step \in {"revoke", "release", "crashed"} => run[a].stage = 0
    /\ \A p \in procs : <<p[1], p[2]>> \in alloc /\ rec[p[1]].gen = p[2] /\ rec[p[1]].inst

\* What holds at a step of the reconciler for one application.
LEMMA SectionFacts ==
    ASSUME IInv, task.step \in {"decide", "revoke", "release", "crashed", "policy"}
    PROVE  \E a \in Apps : Section(a)
<1>1. /\ Subject \in Apps /\ task.app = {Subject} /\ task.job = "one" /\ call = NoCall
  BY TheSubject DEF IInv, OneSteps
<1>2. rec[Subject].desired = "running"
  BY <1>1 DEF IInv, IntentInv
<1>3. /\ rec \in [Apps -> Record] /\ run \in [Apps -> RunRecord]
      /\ recon \in [boot: BOOLEAN, todo: SUBSET Apps]
      /\ faults \in 0 .. MaxFaults /\ ops \in 0 .. MaxOps
  BY DEF IInv, TypeOK, Record, RunRecord
<1>4. task.step \in {"revoke", "release", "crashed"} => run[Subject].stage = 0
  BY <1>1 DEF IInv, TaskInv
<1>5. TypeOK /\ Held /\ Named /\ Waits /\ task \in TaskType
  BY DEF IInv, TaskShape
<1>6. QED
  BY <1>1, <1>2, <1>3, <1>4, <1>5, NoCallIs DEF Section, Held

\* The section goes on without a call.
LEMMA SectionGoes ==
    ASSUME NEW a \in Apps, call' = NoCall, task' \in TaskType, task'.job = "one",
           task'.app = {a},
           task'.step \in {"decide", "revoke", "release", "crashed", "policy"},
           task'.step \in {"revoke", "release", "crashed"} => run'[a].stage = 0,
           rec'[a].desired = "running"
    PROVE  CallShape' /\ TaskShape' /\ CallInv' /\ TaskInv' /\ IntentInv' /\ BudgetInv'
<1>1. CallShape' /\ CallInv'
  BY NoCallMade
<1>2. TaskShape'
  BY DEF TaskShape, OneSteps
<1>3. TaskInv' /\ BudgetInv'
  BY DEF TaskInv, BudgetInv
<1>4. IntentInv'
  BY NoCallIs DEF IntentInv
<1>5. QED
  BY <1>1, <1>2, <1>3, <1>4

\* The section starts its application.
LEMMA SectionCalls ==
    ASSUME NEW a \in Apps, NEW op \in StartOps, call' = Call(op, a), task' \in TaskType,
           task'.job = "one", task'.app = {a}, task'.step = "called",
           rec'[a].desired = "running", op = "auto_restart" => rec'[a].hist < MaxAttempts
    PROVE  CallShape' /\ TaskShape' /\ CallInv' /\ TaskInv' /\ IntentInv' /\ BudgetInv'
<1>1. /\ CallShape' /\ CallInv' /\ Starting'
      /\ call'.pc = "begin" /\ call'.op = op /\ call'.app = {a}
  BY StartMade
<1>2. TaskShape'
  BY <1>1 DEF TaskShape, OneSteps
<1>3. TaskInv' /\ BudgetInv'
  BY <1>1 DEF TaskInv, BudgetInv
<1>4. IntentInv'
  BY <1>1 DEF IntentInv
<1>5. QED
  BY <1>1, <1>2, <1>3, <1>4

\* A step of a transaction.
LEMMA StepTyped ==
    ASSUME task \in TaskType, NEW step \in Steps, task' = [task EXCEPT !.step = step]
    PROVE  /\ task' \in TaskType /\ task'.step = step /\ task'.job = task.job
           /\ task'.app = task.app
BY DEF TaskType

\* A live process is recorded in the lifecycle record; a dead one is a crash
\* to observe only when its run record is gone.
LEMMA DecideKeeps == IInv /\ Decide => IInv'
<1> SUFFICES ASSUME IInv, Decide
             PROVE  IInv'
  OBVIOUS
<1> PICK a \in Apps : Section(a)
  BY SectionFacts DEF Decide
<1>1. /\ a = Subject /\ task.app = {a} /\ task.job = "one" /\ task \in TaskType
      /\ call = NoCall /\ call.pc = "" /\ TypeOK /\ Held /\ Named /\ Waits
      /\ rec \in [Apps -> Record] /\ rec[a] \in Record /\ rec[a].desired = "running"
      /\ run[a] \in RunRecord
      /\ recon \in [boot: BOOLEAN, todo: SUBSET Apps]
      /\ faults \in 0 .. MaxFaults /\ ops \in 0 .. MaxOps
      /\ \A p \in procs : <<p[1], p[2]>> \in alloc
  BY DEF Section
<1> DEFINE r == Running(a)
           seen == [rec[a] EXCEPT !.obs = IF @ \in LivePhase THEN @ ELSE "running", !.pid = r]
           stable == [seen EXCEPT !.obs = "running", !.hist = 0, !.retry = FALSE]
           pending == [rec[a] EXCEPT !.obs = "stopping", !.teardown = TRUE]
<1>2. UNCHANGED <<alloc, auth, run, procs, children, exits, lastExit, recon, ops>>
  BY DEF Decide, world
<1>3. \/ Put(a, pending) /\ End /\ UNCHANGED faults
      \/ r # 0 /\ (Put(a, seen) \/ Put(a, stable)) /\ End /\ UNCHANGED faults
      \/ /\ r # 0 /\ faults < MaxFaults /\ faults' = faults + 1 /\ Put(a, seen)
         /\ task' = [task EXCEPT !.step = "cool"]
         /\ call' = [StopCall(a, "running") EXCEPT !.pid = r]
      \/ /\ ~HasRecord(a) /\ \E gone \in BOOLEAN : task' = [task EXCEPT !.step = "revoke", !.exit = gone]
         /\ UNCHANGED <<rec, call, faults>>
      \/ task' = [task EXCEPT !.step = "policy"] /\ UNCHANGED <<rec, call, faults>>
  BY <1>1 DEF Decide, Pending, Fault, Policy
<1>4. /\ pending \in Record /\ pending.gen = rec[a].gen /\ pending.inst = rec[a].inst
      /\ pending.pid = rec[a].pid /\ pending.obs = "stopping"
  <2>1. "stopping" \in Observed
    BY DEF Observed
  <2>2. QED
    BY <1>1, <2>1 DEF Record
<1>5. r # 0 => r \in Gens /\ r = rec[a].gen /\ rec[a].inst
  BY RunningIs
<1> HIDE DEF r, pending
<1>6. r # 0 => /\ seen \in Record /\ seen.gen = rec[a].gen /\ seen.inst = rec[a].inst
               /\ seen.pid = r /\ seen.obs \in LivePhase /\ seen.desired = "running"
  <2>1. LivePhase \subseteq Observed /\ "running" \in LivePhase
    BY DEF Observed, LivePhase
  <2>2. \E obs \in LivePhase : seen = [rec[a] EXCEPT !.obs = obs, !.pid = r]
    BY <2>1
  <2>3. QED
    BY <1>1, <1>5, <2>1, <2>2 DEF Record
<1> HIDE DEF seen
<1>7. r # 0 => /\ stable \in Record /\ stable.gen = rec[a].gen /\ stable.inst = rec[a].inst
               /\ stable.pid = r /\ stable.obs = "running"
  <2>1. "running" \in Observed /\ 0 \in 0 .. MaxAttempts
    BY ConstantsAssumption DEF Observed, LivePhase
  <2>2. QED
    BY <1>6, <2>1 DEF Record
<1> HIDE DEF stable
<1>8. ASSUME r # 0, NEW s \in Record, Put(a, s), s.gen = rec[a].gen, s.inst = rec[a].inst,
             s.pid = r, s.obs \in LivePhase
      PROVE  rec' \in [Apps -> Record] /\ rec'[a] = s /\ \A b \in Apps : rec'[b] = rec[b] \/ Kept(b)
  <2>1. rec' \in [Apps -> Record] /\ rec'[a] = s /\ \A b \in Apps : b # a => rec'[b] = rec[b]
    BY <1>1, <1>8, PutOne
  <2>2. Kept(a)
    <3>1. rec'[a].obs \notin Waiting
      BY <1>8, <2>1 DEF LivePhase, Waiting
    <3>2. \A x \in auth : x[1] = a /\ Leader(a, x[2]) => rec'[a].pid = x[2]
      BY <1>1, <1>5, <1>8, <2>1, LeaderNamed
    <3>3. QED
      BY <1>5, <1>8, <2>1, <3>1, <3>2 DEF Kept
  <2>3. QED
    BY <2>1, <2>2
<1>9. CASE Put(a, pending) /\ End /\ UNCHANGED faults
  <2>1. rec' \in [Apps -> Record] /\ rec'[a] = pending /\ \A b \in Apps : b # a => rec'[b] = rec[b]
    BY <1>1, <1>4, <1>9, PutOne
  <2>2. Kept(a)
    <3>1. rec'[a].obs \notin Waiting /\ rec'[a].gen = rec[a].gen /\ rec'[a].inst = rec[a].inst
          /\ rec'[a].pid = rec[a].pid
      BY <1>4, <2>1 DEF Waiting
    <3>2. QED
      BY <1>1, <3>1 DEF Kept, Named, Waits
  <2>3. \A b \in Apps : rec'[b] = rec[b] \/ Kept(b)
    BY <2>1, <2>2
  <2>4. faults' \in 0 .. MaxFaults /\ ops' \in 0 .. MaxOps
    BY <1>1, <1>2, <1>9
  <2>5. QED
    BY <1>1, <1>2, <1>9, <2>1, <2>3, <2>4, Ends, BetweenCalls
<1>10. CASE r # 0 /\ (Put(a, seen) \/ Put(a, stable)) /\ End /\ UNCHANGED faults
  <2>1. rec' \in [Apps -> Record] /\ \A b \in Apps : rec'[b] = rec[b] \/ Kept(b)
    <3>1. CASE Put(a, seen)
      BY <1>6, <1>8, <1>10, <3>1
    <3>2. CASE Put(a, stable)
      <4>1. stable.obs \in LivePhase
        BY <1>7, <1>10 DEF LivePhase
      <4>2. QED
        BY <1>7, <1>8, <1>10, <3>2, <4>1
    <3>3. QED
      BY <1>10, <3>1, <3>2
  <2>2. faults' \in 0 .. MaxFaults /\ ops' \in 0 .. MaxOps
    BY <1>1, <1>2, <1>10
  <2>3. QED
    BY <1>1, <1>2, <1>10, <2>1, <2>2, Ends, BetweenCalls
<1>11. CASE /\ r # 0 /\ faults < MaxFaults /\ faults' = faults + 1 /\ Put(a, seen)
            /\ task' = [task EXCEPT !.step = "cool"]
            /\ call' = [StopCall(a, "running") EXCEPT !.pid = r]
  <2>1. rec' \in [Apps -> Record] /\ rec'[a] = seen /\ \A b \in Apps : rec'[b] = rec[b] \/ Kept(b)
    BY <1>6, <1>8, <1>11
  <2>2. faults' \in 0 .. MaxFaults
    <3>1. faults \in 0 .. MaxFaults /\ MaxFaults \in Nat
      BY <1>1, ConstantsAssumption
    <3>2. QED
      BY <1>11, <3>1
  <2>3. /\ CallShape' /\ CallInv' /\ ~Starting'
        /\ call'.pc = "intent" /\ call'.op = "running" /\ call'.app = {a}
    BY <1>1, <1>5, <1>11, StopMade
  <2>4. /\ task' \in TaskType /\ task'.step = "cool" /\ task'.job = "one" /\ task'.app = {a}
    <3>1. "cool" \in Steps
      BY DEF Steps, OneSteps
    <3>2. QED
      BY <1>1, <1>11, <3>1, StepTyped
  <2>5. TaskShape'
    BY <2>3, <2>4 DEF TaskShape, OneSteps
  <2>6. TaskInv' /\ BudgetInv'
    BY <2>4 DEF TaskInv, BudgetInv
  <2>7. rec'[a].desired = "running"
    BY <1>6, <1>11, <2>1
  <2>8. IntentInv'
    BY <2>3, <2>4, <2>7 DEF IntentInv
  <2>9. QED
    BY <1>1, <1>2, <2>1, <2>2, <2>3, <2>5, <2>6, <2>8, BetweenCalls
<1>12. CASE /\ ~HasRecord(a) /\ \E gone \in BOOLEAN : task' = [task EXCEPT !.step = "revoke", !.exit = gone]
            /\ UNCHANGED <<rec, call, faults>>
  <2>1. /\ task' \in TaskType /\ task'.step = "revoke" /\ task'.job = "one" /\ task'.app = {a}
    <3>1. "revoke" \in Steps
      BY DEF Steps, OneSteps
    <3>2. QED
      BY <1>1, <1>12, <3>1 DEF TaskType
  <2>2. run'[a].stage = 0
    <3>1. run[a].stage \in 0 .. 3
      BY <1>1 DEF RunRecord
    <3>2. ~(run[a].stage > 0)
      BY <1>12 DEF HasRecord
    <3>3. QED
      BY <1>2, <3>1, <3>2
  <2>3. CallShape' /\ TaskShape' /\ CallInv' /\ TaskInv' /\ IntentInv' /\ BudgetInv'
    BY <1>1, <1>12, <2>1, <2>2, SectionGoes
  <2>4. QED
    BY <1>1, <1>2, <1>12, <2>3, BetweenTasks
<1>13. CASE task' = [task EXCEPT !.step = "policy"] /\ UNCHANGED <<rec, call, faults>>
  <2>1. /\ task' \in TaskType /\ task'.step = "policy" /\ task'.job = "one" /\ task'.app = {a}
    <3>1. "policy" \in Steps
      BY DEF Steps, OneSteps
    <3>2. QED
      BY <1>1, <1>13, <3>1, StepTyped
  <2>2. CallShape' /\ TaskShape' /\ CallInv' /\ TaskInv' /\ IntentInv' /\ BudgetInv'
    BY <1>1, <1>13, <2>1, SectionGoes
  <2>3. QED
    BY <1>1, <1>2, <1>13, <2>2, BetweenTasks
<1>14. QED
  BY <1>3, <1>9, <1>10, <1>11, <1>12, <1>13

\* An application that was too hot waits without an identity, and without a
\* process.
LEMMA CoolKeeps == IInv /\ Cool => IInv'
<1> SUFFICES ASSUME IInv, Cool
             PROVE  IInv'
  OBVIOUS
<1>1. /\ TaskShape /\ Subject \in Apps /\ task.app = {Subject} /\ ~Starting
      /\ call.app = task.app /\ call.pc \in {"ok", "fail"} /\ task.step = "cool"
  BY TheSubject DEF IInv, Cool, Done, TaskShape, OneSteps
<1> PICK a \in Apps : a = Subject
  BY <1>1
<1>2. /\ TypeOK /\ Held /\ Named /\ Waits /\ rec \in [Apps -> Record] /\ rec[a] \in Record
      /\ recon \in [boot: BOOLEAN, todo: SUBSET Apps]
      /\ faults \in 0 .. MaxFaults /\ ops \in 0 .. MaxOps
      /\ \A p \in procs : <<p[1], p[2]>> \in alloc
      /\ call.pc = "ok" => run[a].stage = 0
  <2>1. CallOf(a)
    BY <1>1 DEF IInv, CallInv
  <2>2. QED
    BY <1>1, <2>1 DEF IInv, TypeOK, Record, Held, CallOf
<1>3. UNCHANGED <<alloc, auth, run, procs, children, exits, lastExit, recon, faults, ops>>
  BY DEF Cool, world
<1>4. CallShape' /\ TaskShape' /\ CallInv' /\ TaskInv' /\ IntentInv' /\ BudgetInv'
  BY Ends DEF Cool
<1>5. CASE call.pc = "fail" /\ rec' = rec
  BY <1>1, <1>2, <1>3, <1>4, <1>5, BetweenTasks
<1>6. CASE call.pc = "ok" /\ Put(a, [Retired(rec[a], "waiting_resource") EXCEPT !.inst = FALSE])
  <2> DEFINE s == [Retired(rec[a], "waiting_resource") EXCEPT !.inst = FALSE]
  <2>1. s \in Record /\ ~s.inst
    <3>1. "waiting_resource" \in Observed
      BY DEF Observed, Waiting
    <3>2. QED
      BY <1>2, <3>1 DEF Record, Retired
  <2>2. Put(a, s)
    BY <1>6
  <2> HIDE DEF s
  <2>3. rec' \in [Apps -> Record] /\ ~rec'[a].inst /\ \A b \in Apps : b # a => rec'[b] = rec[b]
    BY <1>2, <2>1, <2>2, PutOne
  <2>4. \A p \in procs : p[1] # a
    BY <1>1, <1>2, <1>6, NoProcess
  <2>5. Kept(a)
    BY <2>3, <2>4 DEF Kept, Leader
  <2>6. \A b \in Apps : rec'[b] = rec[b] \/ Kept(b)
    BY <2>3, <2>5
  <2>7. QED
    BY <1>1, <1>2, <1>3, <1>4, <2>3, <2>6, BetweenCalls
<1>7. QED
  BY <1>1, <1>5, <1>6 DEF Cool

\* The authorization of a generation that is gone is revoked, or its teardown
\* is left to the next recovery.
LEMMA ObserveRevokeKeeps == IInv /\ ObserveRevoke => IInv'
<1> SUFFICES ASSUME IInv, ObserveRevoke
             PROVE  IInv'
  OBVIOUS
<1> PICK a \in Apps : Section(a)
  BY SectionFacts DEF ObserveRevoke
<1>1. /\ a = Subject /\ task.app = {a} /\ task.job = "one" /\ task \in TaskType
      /\ call = NoCall /\ call.pc = "" /\ TypeOK /\ Held /\ Named /\ Waits
      /\ rec \in [Apps -> Record] /\ rec[a] \in Record /\ rec[a].desired = "running"
      /\ recon \in [boot: BOOLEAN, todo: SUBSET Apps] /\ ops \in 0 .. MaxOps
      /\ \A p \in procs : <<p[1], p[2]>> \in alloc
      /\ run[a].stage = 0
  BY DEF Section, ObserveRevoke
<1>2. UNCHANGED <<alloc, run, procs, children, exits, lastExit, recon, ops, call>>
  BY DEF ObserveRevoke, world
<1> DEFINE lost == [rec[a] EXCEPT !.obs = "failed", !.teardown = TRUE]
<1>3. PICK bad \in BOOLEAN :
         /\ Maybe("revoke", bad)
         /\ IF bad THEN Put(a, lost) /\ auth' = auth /\ task' = NoTask
            ELSE /\ auth' \subseteq auth /\ rec' = rec
                 /\ task' = [task EXCEPT !.step = "release"]
  BY <1>1 DEF ObserveRevoke
<1>4. faults' \in 0 .. MaxFaults
  BY <1>1, <1>3, FaultsTyped
<1>5. CASE bad
  <2>1. lost \in Record /\ lost.gen = rec[a].gen /\ lost.inst = rec[a].inst
        /\ lost.pid = rec[a].pid /\ lost.obs = "failed"
    <3>1. "failed" \in Observed
      BY DEF Observed
    <3>2. QED
      BY <1>1, <3>1 DEF Record
  <2>2. Put(a, lost) /\ auth' = auth /\ task' = NoTask
    BY <1>3, <1>5
  <2> HIDE DEF lost
  <2>3. rec' \in [Apps -> Record] /\ rec'[a] = lost /\ \A b \in Apps : b # a => rec'[b] = rec[b]
    BY <1>1, <2>1, <2>2, PutOne
  <2>4. Kept(a)
    BY <1>1, <2>1, <2>3 DEF Kept, Named, Waits, Waiting
  <2>5. \A b \in Apps : rec'[b] = rec[b] \/ Kept(b)
    BY <2>3, <2>4
  <2>6. CallShape' /\ TaskShape' /\ CallInv' /\ TaskInv' /\ IntentInv' /\ BudgetInv'
    BY <1>1, <1>2, <2>2, Ends DEF End
  <2>7. QED
    BY <1>1, <1>2, <1>4, <2>2, <2>3, <2>5, <2>6, BetweenCalls
<1>6. CASE ~bad
  <2>1. auth' \subseteq auth /\ rec' = rec /\ task' = [task EXCEPT !.step = "release"]
    BY <1>3, <1>6
  <2>2. /\ task' \in TaskType /\ task'.step = "release" /\ task'.job = "one" /\ task'.app = {a}
    <3>1. "release" \in Steps
      BY DEF Steps, OneSteps
    <3>2. QED
      BY <1>1, <2>1, <3>1, StepTyped
  <2>3. CallShape' /\ TaskShape' /\ CallInv' /\ TaskInv' /\ IntentInv' /\ BudgetInv'
    BY <1>1, <1>2, <2>1, <2>2, SectionGoes
  <2>4. QED
    BY <1>1, <1>2, <1>4, <2>1, <2>3, BetweenCalls
<1>7. QED
  BY <1>5, <1>6

\* The reservation of a generation whose group is gone is given back.
LEMMA ObserveReleaseKeeps == IInv /\ ObserveRelease => IInv'
<1> SUFFICES ASSUME IInv, ObserveRelease
             PROVE  IInv'
  OBVIOUS
<1> PICK a \in Apps : Section(a)
  BY SectionFacts DEF ObserveRelease
<1>1. /\ a = Subject /\ task.app = {a} /\ task.job = "one" /\ task \in TaskType
      /\ call = NoCall /\ call.pc = "" /\ TypeOK
      /\ rec \in [Apps -> Record] /\ rec[a].desired = "running"
      /\ recon \in [boot: BOOLEAN, todo: SUBSET Apps] /\ ops \in 0 .. MaxOps
      /\ faults \in 0 .. MaxFaults
      /\ \A p \in procs : <<p[1], p[2]>> \in alloc
      /\ run[a].stage = 0
  BY DEF Section, ObserveRelease
<1>2. /\ UNCHANGED <<rec, auth, run, procs, children, exits, lastExit, recon, faults, ops, call>>
      /\ task' = [task EXCEPT !.step = "crashed"]
      /\ alloc' = alloc \ {<<a, rec[a].gen>>}
  BY <1>1 DEF ObserveRelease, world
<1>3. \A p \in procs : p[1] # a
  BY <1>1, NoProcess
<1>4. alloc' \subseteq alloc /\ \A p \in procs : <<p[1], p[2]>> \in alloc'
  BY <1>1, <1>2, <1>3
<1>5. /\ task' \in TaskType /\ task'.step = "crashed" /\ task'.job = "one" /\ task'.app = {a}
  <2>1. "crashed" \in Steps
    BY DEF Steps, OneSteps
  <2>2. QED
    BY <1>1, <1>2, <2>1, StepTyped
<1>6. CallShape' /\ TaskShape' /\ CallInv' /\ TaskInv' /\ IntentInv' /\ BudgetInv'
  BY <1>1, <1>2, <1>5, SectionGoes
<1>7. QED
  BY <1>1, <1>2, <1>4, <1>6, BetweenCalls

\* The crash of a generation is published when it has no process left.
LEMMA ObserveCrashKeeps == IInv /\ ObserveCrash => IInv'
<1> SUFFICES ASSUME IInv, ObserveCrash
             PROVE  IInv'
  OBVIOUS
<1> PICK a \in Apps : Section(a)
  BY SectionFacts DEF ObserveCrash
<1>1. /\ a = Subject /\ task.app = {a} /\ task.job = "one" /\ task \in TaskType
      /\ call = NoCall /\ call.pc = "" /\ TypeOK /\ Waits
      /\ rec \in [Apps -> Record] /\ rec[a] \in Record /\ rec[a].desired = "running"
      /\ recon \in [boot: BOOLEAN, todo: SUBSET Apps] /\ ops \in 0 .. MaxOps
      /\ faults \in 0 .. MaxFaults
      /\ \A p \in procs : <<p[1], p[2]>> \in alloc
      /\ run[a].stage = 0
  BY DEF Section, ObserveCrash
<1> DEFINE s == Retired(rec[a], "failed")
<1>2. /\ UNCHANGED <<alloc, auth, run, procs, children, exits, lastExit, recon, faults, ops>>
      /\ Put(a, s)
      /\ \/ task' = [task EXCEPT !.step = "policy"] /\ call' = call
         \/ task' = [task EXCEPT !.step = "called"] /\ call' = Call("reconcile_restore", a)
  BY <1>1 DEF ObserveCrash, world, Policy
<1>3. s \in Record /\ s.inst = rec[a].inst /\ s.gen = rec[a].gen /\ s.obs = "failed"
      /\ s.desired = "running"
  <2>1. "failed" \in Observed
    BY DEF Observed
  <2>2. QED
    BY <1>1, <2>1 DEF Record, Retired
<1> HIDE DEF s
<1>4. rec' \in [Apps -> Record] /\ rec'[a] = s /\ \A b \in Apps : b # a => rec'[b] = rec[b]
  BY <1>1, <1>2, <1>3, PutOne
<1>5. \A p \in procs : p[1] # a
  BY <1>1, NoProcess
<1>6. Kept(a)
  BY <1>1, <1>3, <1>4, <1>5 DEF Kept, Leader, Waits, Waiting
<1>7. \A b \in Apps : rec'[b] = rec[b] \/ Kept(b)
  BY <1>4, <1>6
<1>8. CallShape' /\ TaskShape' /\ CallInv' /\ TaskInv' /\ IntentInv' /\ BudgetInv'
  <2>1. "policy" \in Steps /\ "called" \in Steps /\ "reconcile_restore" \in StartOps
    BY DEF Steps, OneSteps, StartOps
  <2>2. rec'[a].desired = "running"
    BY <1>3, <1>4
  <2>3. CASE task' = [task EXCEPT !.step = "policy"] /\ call' = call
    <3>1. /\ task' \in TaskType /\ task'.step = "policy" /\ task'.job = "one" /\ task'.app = {a}
      BY <1>1, <2>1, <2>3, StepTyped
    <3>2. QED
      BY <1>1, <2>2, <2>3, <3>1, SectionGoes
  <2>4. CASE task' = [task EXCEPT !.step = "called"] /\ call' = Call("reconcile_restore", a)
    <3>1. /\ task' \in TaskType /\ task'.step = "called" /\ task'.job = "one" /\ task'.app = {a}
      BY <1>1, <2>1, <2>4, StepTyped
    <3>2. QED
      BY <2>1, <2>2, <2>4, <3>1, SectionCalls
  <2>5. QED
    BY <1>2, <2>3, <2>4
<1>9. QED
  BY <1>1, <1>2, <1>4, <1>7, <1>8, BetweenCalls

\* An automatic restart is asked for only with budget left.
LEMMA RestartPolicyKeeps == IInv /\ RestartPolicy => IInv'
<1> SUFFICES ASSUME IInv, RestartPolicy
             PROVE  IInv'
  OBVIOUS
<1> PICK a \in Apps : Section(a)
  BY SectionFacts DEF RestartPolicy
<1>1. /\ a = Subject /\ task.app = {a} /\ task.job = "one" /\ task \in TaskType
      /\ call = NoCall /\ call.pc = "" /\ TypeOK /\ Named /\ Waits
      /\ rec \in [Apps -> Record] /\ rec[a] \in Record /\ rec[a].desired = "running"
      /\ recon \in [boot: BOOLEAN, todo: SUBSET Apps] /\ ops \in 0 .. MaxOps
      /\ faults \in 0 .. MaxFaults
      /\ \A p \in procs : <<p[1], p[2]>> \in alloc
  BY DEF Section
<1> DEFINE looped == [rec[a] EXCEPT !.obs = "crash_loop", !.retry = FALSE]
           backed == [rec[a] EXCEPT !.obs = "backoff", !.retry = TRUE]
<1>2. UNCHANGED <<alloc, auth, run, procs, children, exits, lastExit, recon, faults, ops>>
  BY DEF RestartPolicy, world
<1>3. \/ End /\ UNCHANGED rec
      \/ End /\ Put(a, looped)
      \/ End /\ Put(a, backed)
      \/ /\ task' = [task EXCEPT !.step = "called"] /\ UNCHANGED rec
         /\ \/ call' = Call("reconcile_wait", a) \/ call' = Call("reconcile_restore", a)
            \/ call' = Call("auto_restart", a) /\ BudgetLeft(a)
  BY <1>1 DEF RestartPolicy
<1>4. \A s \in {looped, backed} :
         s \in Record /\ s.gen = rec[a].gen /\ s.inst = rec[a].inst /\ s.pid = rec[a].pid
         /\ s.obs \in {"crash_loop", "backoff"}
  <2>1. "crash_loop" \in Observed /\ "backoff" \in Observed
    BY DEF Observed
  <2>2. QED
    BY <1>1, <2>1 DEF Record
<1> HIDE DEF looped, backed
<1>5. CASE End /\ UNCHANGED rec
  BY <1>1, <1>2, <1>5, Ends, BetweenTasks
<1>6. ASSUME NEW s \in {looped, backed}, End, Put(a, s)
      PROVE  IInv'
  <2>1. rec' \in [Apps -> Record] /\ rec'[a] = s /\ \A b \in Apps : b # a => rec'[b] = rec[b]
    BY <1>1, <1>4, <1>6, PutOne
  <2>2. Kept(a)
    BY <1>1, <1>4, <2>1 DEF Kept, Named, Waits, Waiting
  <2>3. \A b \in Apps : rec'[b] = rec[b] \/ Kept(b)
    BY <2>1, <2>2
  <2>4. QED
    BY <1>1, <1>2, <1>6, <2>1, <2>3, Ends, BetweenCalls
<1>7. ASSUME NEW op \in {"reconcile_wait", "reconcile_restore", "auto_restart"},
             task' = [task EXCEPT !.step = "called"], UNCHANGED rec, call' = Call(op, a),
             op = "auto_restart" => BudgetLeft(a)
      PROVE  IInv'
  <2>1. op \in StartOps /\ "called" \in Steps
    BY DEF StartOps, Steps, OneSteps
  <2>2. /\ task' \in TaskType /\ task'.step = "called" /\ task'.job = "one" /\ task'.app = {a}
    BY <1>1, <1>7, <2>1, StepTyped
  <2>3. op = "auto_restart" => rec'[a].hist < MaxAttempts
    BY <1>7 DEF BudgetLeft
  <2>4. rec'[a].desired = "running"
    BY <1>1, <1>7
  <2>5. CallShape' /\ TaskShape' /\ CallInv' /\ TaskInv' /\ IntentInv' /\ BudgetInv'
    BY <1>7, <2>1, <2>2, <2>3, <2>4, SectionCalls
  <2>6. QED
    BY <1>1, <1>2, <1>7, <2>5, BetweenTasks
<1>8. QED
  BY <1>3, <1>5, <1>6, <1>7

\* An attempt counts against the budget it was taken from.
LEMMA OneDoneKeeps == IInv /\ OneDone => IInv'
<1> SUFFICES ASSUME IInv, OneDone
             PROVE  IInv'
  OBVIOUS
<1>1. /\ TaskShape /\ Subject \in Apps /\ task.app = {Subject}
      /\ call.pc \in {"ok", "fail"} /\ task.step = "called"
  BY TheSubject DEF IInv, OneDone, Done, OneSteps
<1> PICK a \in Apps : a = Subject
  BY <1>1
<1>2. /\ TypeOK /\ Held /\ Named /\ Waits /\ rec \in [Apps -> Record] /\ rec[a] \in Record
      /\ recon \in [boot: BOOLEAN, todo: SUBSET Apps]
      /\ faults \in 0 .. MaxFaults /\ ops \in 0 .. MaxOps
      /\ \A p \in procs : <<p[1], p[2]>> \in alloc
      /\ call.op = "auto_restart" => rec[a].hist < MaxAttempts
  BY <1>1 DEF IInv, TypeOK, Record, Held, BudgetInv
<1>3. UNCHANGED <<alloc, auth, run, procs, children, exits, lastExit, recon, faults, ops>>
  BY DEF OneDone, world
<1>4. CallShape' /\ TaskShape' /\ CallInv' /\ TaskInv' /\ IntentInv' /\ BudgetInv'
  BY Ends DEF OneDone
<1> DEFINE h == rec[a].hist + 1
<1>5. CASE rec' = rec
  BY <1>1, <1>2, <1>3, <1>4, <1>5, BetweenTasks
<1>6. ASSUME NEW obs \in {"running", "failed"}, call.op = "auto_restart",
             Put(a, [rec[a] EXCEPT !.hist = h, !.retry = FALSE, !.obs = obs])
      PROVE  IInv'
  <2> DEFINE s == [rec[a] EXCEPT !.hist = h, !.retry = FALSE, !.obs = obs]
  <2>1. h \in 0 .. MaxAttempts
    <3>1. rec[a].hist \in 0 .. MaxAttempts /\ rec[a].hist < MaxAttempts
      BY <1>2, <1>6 DEF Record
    <3>2. MaxAttempts \in Nat
      BY ConstantsAssumption
    <3>3. QED
      BY <3>1, <3>2
  <2> HIDE DEF h
  <2>2. s \in Record /\ s.gen = rec[a].gen /\ s.inst = rec[a].inst /\ s.pid = rec[a].pid
        /\ s.obs \in {"running", "failed"}
    <3>1. {"running", "failed"} \subseteq Observed
      BY DEF Observed, LivePhase
    <3>2. QED
      BY <1>2, <2>1, <3>1 DEF Record
  <2>3. Put(a, s)
    BY <1>6
  <2> HIDE DEF s
  <2>4. rec' \in [Apps -> Record] /\ rec'[a] = s /\ \A b \in Apps : b # a => rec'[b] = rec[b]
    BY <1>2, <2>2, <2>3, PutOne
  <2>5. Kept(a)
    BY <1>2, <2>2, <2>4 DEF Kept, Named, Waits, Waiting, Held
  <2>6. \A b \in Apps : rec'[b] = rec[b] \/ Kept(b)
    BY <2>4, <2>5
  <2>7. QED
    BY <1>1, <1>2, <1>3, <1>4, <2>4, <2>6, BetweenCalls
<1>7. QED
  BY <1>1, <1>5, <1>6 DEF OneDone

\* The steps of transactions between their calls keep the invariant.
LEMMA TaskKeeps == NoOrphan /\ IInv /\ TaskStep => IInv'
BY UserDoneKeeps, SweepKeeps, RecoverKeeps, ReconcileAllocationsKeeps, RestoreKeeps,
   ShutdownKeeps, DecideKeeps, CoolKeeps, ObserveRevokeKeeps, ObserveReleaseKeeps,
   ObserveCrashKeeps, RestartPolicyKeeps, OneDoneKeeps
DEF TaskStep

-----------------------------------------------------------------------------
(* What happens beside the gate. *)

\* A step that the transaction takes no part in: at most it takes processes
\* away, clears run records of what has none left, or leaves a helper that a
\* record speaks of.
LEMMA BesideTheGate ==
    ASSUME IInv, UNCHANGED <<rec, alloc, auth, task, call, recon, ops>>, TypeOK',
           \A b, h : Leader(b, h)' => Leader(b, h),
           \A b \in Apps : run'[b] = run[b] \/ run'[b].stage = 0,
           \A p \in procs' :
              /\ <<p[1], p[2]>> \in alloc /\ rec[p[1]].gen = p[2] /\ rec[p[1]].inst
              /\ Recorded(p[1], p[2])' \/ Spawning(p)
    PROVE  IInv'
<1>1. CallShape' /\ TaskShape' /\ IntentInv' /\ BudgetInv'
  BY DEF IInv, CallShape, TaskShape, IntentInv, BudgetInv, Starting
<1>2. Held'
  BY DEF Held, Spawning, Starting
<1>3. Named' /\ Waits'
  BY DEF IInv, Named, Waits
<1>4. \A b \in Apps : run[b].stage = 0 => run'[b].stage = 0
  OBVIOUS
<1>5. CallInv'
  <2> SUFFICES ASSUME NEW b \in Apps, call.app = {b}
               PROVE  CallOf(b)'
    BY DEF CallInv
  <2>1. CallOf(b)
    BY DEF IInv, CallInv
  <2>2. Own(b) => Own(b)'
    BY DEF Own
  <2>3. Mine(b) => Mine(b)'
    BY DEF Mine
  <2>4. QED
    BY <1>4, <2>1, <2>2, <2>3 DEF CallOf, Starting
<1>6. TaskInv'
  BY <1>4 DEF IInv, TaskInv
<1>7. QED
  BY <1>1, <1>2, <1>3, <1>5, <1>6 DEF IInv

\* Processes that are left over are as they were.
LEMMA FewerProcs ==
    ASSUME IInv, UNCHANGED <<rec, alloc, auth, run, children, exits, lastExit, task, call, recon, ops>>,
           procs' \subseteq procs, faults' \in 0 .. MaxFaults
    PROVE  IInv'
<1>1. TypeOK'
  BY DEF IInv, TypeOK
<1>2. \A b, h : Leader(b, h)' => Leader(b, h)
  BY DEF Leader
<1>3. \A p \in procs' :
         /\ <<p[1], p[2]>> \in alloc /\ rec[p[1]].gen = p[2] /\ rec[p[1]].inst
         /\ Recorded(p[1], p[2])' \/ Spawning(p)
  BY DEF IInv, Held, Recorded
<1>4. QED
  BY <1>1, <1>2, <1>3, BesideTheGate

\* A leader exits.
LEMMA LeaderExitsKeeps ==
    ASSUME IInv, NEW a \in Apps, NEW g \in Gens, LeaderExits(a, g)
    PROVE  IInv'
<1>1. UNCHANGED <<rec, alloc, auth, run, children, exits, lastExit, task, call, recon, ops>>
  BY DEF LeaderExits, durable
<1>2. faults' \in 0 .. MaxFaults
  BY FaultsTyped DEF IInv, LeaderExits, Maybe
<1>3. procs' \subseteq procs
  BY DEF LeaderExits
<1>4. QED
  BY <1>1, <1>2, <1>3, FewerProcs

\* A helper leaves its system call and dies.
LEMMA HelperDiesKeeps ==
    ASSUME IInv, NEW a \in Apps, NEW g \in Gens, HelperDies(a, g)
    PROVE  IInv'
<1>1. UNCHANGED <<rec, alloc, auth, run, children, exits, lastExit, task, call, recon, ops>>
  BY DEF HelperDies, durable
<1>2. faults' \in 0 .. MaxFaults /\ procs' \subseteq procs
  BY DEF HelperDies, IInv, TypeOK
<1>3. QED
  BY <1>1, <1>2, FewerProcs

\* SIGCHLD takes the leader and kills its group.
LEMMA ReapChildrenKeeps ==
    ASSUME NoOrphan, IInv, NEW a \in Apps, NEW g \in Gens, ReapChildren(a, g)
    PROVE  IInv'
<1>1. UNCHANGED <<rec, alloc, auth, run, lastExit, task, call, recon, ops>>
  BY DEF ReapChildren, durable
<1>2. PICK stays \in BOOLEAN : MayStay(a, g, stays) /\ procs' = Killed(a, g, stays)
  BY DEF ReapChildren
<1>3. /\ faults' \in 0 .. MaxFaults /\ procs' \subseteq Apps \X Gens \X Parts
      /\ \A b, h : Leader(b, h)' => Leader(b, h)
      /\ \A p \in procs' :
            \/ p \in procs /\ ~(p[1] = a /\ p[2] = g)
            \/ /\ p = <<a, g, "dstate">> /\ stays /\ Recorded(a, g) /\ <<a, g>> \in alloc
               /\ rec[a].gen = g /\ rec[a].inst
  BY <1>2, KillLeaves
<1>4. children' \subseteq Apps \X Gens /\ exits' \subseteq Apps \X Gens
  BY DEF ReapChildren, IInv, TypeOK
<1>5. TypeOK'
  BY <1>1, <1>3, <1>4 DEF IInv, TypeOK
<1>6. \A p \in procs' :
         /\ <<p[1], p[2]>> \in alloc /\ rec[p[1]].gen = p[2] /\ rec[p[1]].inst
         /\ Recorded(p[1], p[2])' \/ Spawning(p)
  <2> SUFFICES ASSUME NEW p \in procs'
               PROVE  /\ <<p[1], p[2]>> \in alloc /\ rec[p[1]].gen = p[2] /\ rec[p[1]].inst
                      /\ Recorded(p[1], p[2]) \/ Spawning(p)
    BY <1>1 DEF Recorded
  <2>1. CASE p \in procs
    BY <2>1 DEF IInv, Held
  <2>2. CASE p \notin procs
    BY <1>3, <2>2
  <2>3. QED
    BY <2>1, <2>2
<1>7. QED
  BY <1>1, <1>3, <1>5, <1>6, BesideTheGate

\* A poll clears the run record of an exit whose group is empty.
LEMMA DrainExitsKeeps ==
    ASSUME IInv, NEW a \in Apps, NEW g \in Gens, DrainExits(a, g)
    PROVE  IInv'
<1>1. UNCHANGED <<rec, alloc, auth, procs, children, task, call, recon, faults, ops>>
  BY DEF DrainExits
<1>2. /\ ~GroupAlive(a, g)
      /\ \/ run' = run
         \/ run[a].gen = g /\ run' = [run EXCEPT ![a] = NoRun]
  BY DEF DrainExits
<1>3. /\ run \in [Apps -> RunRecord] /\ lastExit \in [Apps -> Gens \cup {0}] /\ Held /\ TypeOK
  BY DEF IInv, TypeOK, RunRecord
<1>4. NoRun \in RunRecord /\ NoRun.stage = 0
  BY DEF NoRun, RunRecord
<1>5. /\ run' \in [Apps -> RunRecord] /\ \A b \in Apps : b # a => run'[b] = run[b]
      /\ run' = run \/ (run[a].gen = g /\ run'[a].stage = 0)
  BY <1>2, <1>3, <1>4
<1>6. lastExit' \in [Apps -> Gens \cup {0}] /\ exits' \subseteq exits
  BY <1>3 DEF DrainExits
<1>7. TypeOK'
  BY <1>1, <1>3, <1>5, <1>6 DEF TypeOK, RunRecord
<1>8. \A p \in procs' :
         /\ <<p[1], p[2]>> \in alloc /\ rec[p[1]].gen = p[2] /\ rec[p[1]].inst
         /\ Recorded(p[1], p[2])' \/ Spawning(p)
  <2> SUFFICES ASSUME NEW p \in procs, Recorded(p[1], p[2])
               PROVE  Recorded(p[1], p[2])'
    BY <1>1, <1>3 DEF Held
  <2>1. p[1] \in Apps
    BY <1>3, ProcParts
  <2>2. CASE run' = run
    BY <2>2 DEF Recorded
  <2>3. CASE p[1] # a
    BY <1>5, <2>1, <2>3 DEF Recorded
  <2>4. CASE p[1] = a /\ run[a].gen = g
    <3>1. p \in Group(a, g)
      BY <2>4 DEF Group, Recorded
    <3>2. QED
      BY <1>2, <3>1 DEF GroupAlive
  <2>5. QED
    BY <1>5, <2>2, <2>3, <2>4
<1>9. \A b, h : Leader(b, h)' => Leader(b, h)
  BY <1>1 DEF Leader
<1>10. QED
  BY <1>1, <1>5, <1>7, <1>8, <1>9, BesideTheGate

\* The dependency comes and goes.
LEMMA DependencyKeeps == IInv /\ (DependencyLost \/ DependencyBack) => IInv'
<1> SUFFICES ASSUME IInv, DependencyLost \/ DependencyBack
             PROVE  IInv'
  OBVIOUS
<1>1. UNCHANGED <<rec, alloc, auth, run, procs, children, exits, lastExit, task, call, recon, ops>>
  BY DEF DependencyLost, DependencyBack, durable, world
<1>2. faults' \in 0 .. MaxFaults
  <2>1. Maybe("dependency", TRUE) \/ faults' = faults
    BY DEF DependencyLost, DependencyBack, Maybe
  <2>2. QED
    BY <2>1, FaultsTyped DEF IInv, TypeOK
<1>3. QED
  BY <1>1, <1>2, FewerProcs

\* A new daemon finds every process by its run record.
LEMMA CrashKeeps == NoOrphan /\ IInv /\ Crash => IInv'
<1> SUFFICES ASSUME NoOrphan, IInv, Crash
             PROVE  IInv'
  OBVIOUS
<1>1. /\ End /\ UNCHANGED <<rec, alloc, auth, run, procs, lastExit, ops>>
      /\ children' = {} /\ exits' = {} /\ recon' = [boot |-> TRUE, todo |-> {}]
  BY DEF Crash, durable
<1>2. faults' \in 0 .. MaxFaults
  <2>1. Maybe("crash", TRUE) \/ Maybe("orphan", TRUE)
    BY DEF Crash, Maybe
  <2>2. QED
    BY <2>1, FaultsTyped DEF IInv
<1>3. ~(call.pc \in {"ids", "term", "kill", "fence"} /\ Starting /\ run[App].stage < 2)
  BY DEF Crash, Fault, NoOrphan
<1>4. TypeOK'
  <2>1. recon' \in [boot: BOOLEAN, todo: SUBSET Apps]
    BY <1>1
  <2>2. QED
    BY <1>1, <1>2, <2>1 DEF IInv, TypeOK
<1>5. Held'
  <2> SUFFICES ASSUME NEW p \in procs
               PROVE  Recorded(p[1], p[2])
    BY <1>1 DEF IInv, Held, Recorded
  <2>1. p[1] \in Apps /\ rec[p[1]].gen = p[2] /\ (Recorded(p[1], p[2]) \/ Spawning(p))
    BY ProcParts DEF IInv, Held
  <2>2. ASSUME Spawning(p)
        PROVE  Recorded(p[1], p[2])
    <3>1. call.pc \in {"ids", "term", "kill"} /\ Starting /\ call.app = {p[1]} /\ p[2] = call.gen
      BY <2>2 DEF Spawning
    <3>2. App = p[1]
      BY <3>1 DEF App
    <3>3. run[p[1]].stage \in 0 .. 3
      BY <2>1 DEF IInv, TypeOK
    <3>4. run[p[1]].stage >= 2 /\ run[p[1]].stage > 0
      BY <1>3, <3>1, <3>2, <3>3
    <3>5. Own(p[1])
      BY <2>1, <3>1 DEF IInv, CallInv, CallOf, PostSpawn
    <3>6. QED
      BY <3>1, <3>4, <3>5 DEF Own, Recorded
  <2>3. QED
    BY <2>1, <2>2
<1>6. Named' /\ Waits'
  BY <1>1 DEF IInv, Named, Waits, Leader
<1>7. QED
  BY <1>1, <1>4, <1>5, <1>6, Ends DEF IInv

\* No process and no authorization survives a restart of the device.
LEMMA RebootKeeps == IInv /\ Reboot => IInv'
<1> SUFFICES ASSUME IInv, Reboot
             PROVE  IInv'
  OBVIOUS
<1>1. /\ End /\ UNCHANGED <<rec, alloc, lastExit, ops>>
      /\ procs' = {} /\ children' = {} /\ exits' = {} /\ auth' = {}
      /\ recon' = [boot |-> TRUE, todo |-> {}]
      /\ run' = [a \in Apps |-> [run[a] EXCEPT !.old = @ \/ run[a].stage > 0]]
  BY DEF Reboot
<1>2. faults' \in 0 .. MaxFaults
  BY FaultsTyped DEF Reboot, Maybe, IInv
<1>3. run \in [Apps -> RunRecord] /\ TypeOK /\ Waits
  BY DEF IInv, TypeOK, RunRecord
<1>4. run' \in [Apps -> RunRecord]
  <2> SUFFICES ASSUME NEW a \in Apps
               PROVE  [run[a] EXCEPT !.old = @ \/ run[a].stage > 0] \in RunRecord
    BY <1>1
  <2> DEFINE o == run[a].old \/ run[a].stage > 0
  <2>1. o \in BOOLEAN
    OBVIOUS
  <2> HIDE DEF o
  <2>2. [run[a] EXCEPT !.old = o] \in RunRecord
    BY <1>3, <2>1 DEF RunRecord
  <2>3. QED
    BY <2>2 DEF o
<1>5. TypeOK'
  <2>1. recon' \in [boot: BOOLEAN, todo: SUBSET Apps]
    BY <1>1
  <2>2. QED
    BY <1>1, <1>2, <1>3, <1>4, <2>1 DEF TypeOK, RunRecord
<1>6. Held' /\ Named' /\ Waits'
  BY <1>1, <1>3 DEF Held, Named, Waits
<1>7. QED
  BY <1>1, <1>5, <1>6, Ends DEF IInv

\* What happens beside the gate keeps the invariant.
LEMMA EnvironmentKeeps == NoOrphan /\ IInv /\ Environment => IInv'
BY LeaderExitsKeeps, HelperDiesKeeps, ReapChildrenKeeps, DrainExitsKeeps, DependencyKeeps,
   CrashKeeps, RebootKeeps
DEF Environment

-----------------------------------------------------------------------------
(* The theorems. *)

\* A device with nothing but installed applications.
LEMMA InitIInv == Init => IInv
<1> SUFFICES ASSUME Init
             PROVE  IInv
  OBVIOUS
<1>1. task = NoTask /\ call = NoCall /\ procs = {} /\ auth = {}
  BY DEF Init
<1>2. TypeOK
  <2>1. 0 \in 0 .. MaxAttempts /\ 0 \in 0 .. MaxFaults /\ 0 \in 0 .. MaxOps
    BY ConstantsAssumption
  <2>2. "installed" \in Observed
    BY DEF Observed, Unspawned
  <2>3. run \in [Apps -> RunRecord]
    BY DEF Init, NoRun, RunRecord
  <2>4. rec \in [Apps -> Record]
    BY <2>1, <2>2 DEF Init, Record
  <2>5. recon \in [boot: BOOLEAN, todo: SUBSET Apps]
    BY DEF Init
  <2>6. QED
    BY <2>1, <2>3, <2>4, <2>5 DEF Init, TypeOK, Record, RunRecord
<1>3. CallShape /\ CallInv
  <2>1. NoCall \in CallType /\ NoCall.pc = "" /\ NoCall.app = {}
    BY DEF NoCall, CallType, CallPlaces
  <2>2. QED
    BY <1>1, <2>1 DEF CallShape, CallInv, PreSpawn, PostSpawn
<1>4. TaskShape /\ TaskInv /\ IntentInv /\ BudgetInv
  <2>1. /\ NoTask.job = "idle" /\ NoTask.step = "" /\ NoTask.app = {} /\ NoTask \in TaskType
    BY DEF NoTask, TaskType, Jobs, Steps
  <2>2. QED
    BY <1>1, <2>1, NoCallIs DEF TaskShape, OneSteps, TaskInv, IntentInv, BudgetInv
<1>5. Held /\ Named
  BY <1>1 DEF Held, Named
<1>6. Waits
  BY <1>1 DEF Waits, Init
<1>7. QED
  BY <1>2, <1>3, <1>4, <1>5, <1>6 DEF IInv

\* Every step keeps the invariant.
LEMMA NextIInv == NoOrphan /\ IInv /\ [Next]_vars => IInv'
<1> SUFFICES ASSUME NoOrphan, IInv, [Next]_vars
             PROVE  IInv'
  OBVIOUS
<1>1. CASE UNCHANGED vars
  BY <1>1, FewerProcs DEF vars, IInv, TypeOK
<1>2. CASE CallStep \/ TaskStep \/ Environment
  BY <1>2, CallKeeps, TaskKeeps, EnvironmentKeeps
<1>3. CASE Reconciler \/ BeginShutdown \/ \E a \in Apps : UserOp(a)
  BY <1>3, BeginTickKeeps, BeginOneKeeps, BeginShutdownKeeps, UserOpKeeps DEF Reconciler
<1>4. QED
  BY <1>1, <1>2, <1>3 DEF Next

(* The invariant holds for any applications, any generations and any       *)
(* number of faults and transactions.                                      *)
THEOREM Invariant == NoOrphan /\ Spec => []IInv
<1>1. NoOrphan /\ Init => NoOrphan /\ IInv
  BY InitIInv
<1>2. (NoOrphan /\ IInv) /\ [Next]_vars => (NoOrphan /\ IInv)'
  BY NextIInv DEF NoOrphan
<1>3. QED
  BY <1>1, <1>2, PTL DEF Spec

(* The coordinator's state keeps its shape.                                *)
THEOREM Typed == NoOrphan /\ Spec => []TypeOK
<1>1. IInv => TypeOK
  BY DEF IInv
<1>2. QED
  BY <1>1, Invariant, PTL

(* Every process keeps the reservation of its generation and an            *)
(* application never has processes of two generations, through failed      *)
(* writes, helpers that outlive their kill, deaths of the daemon between   *)
(* any two durable writes and restarts of the device.                      *)
THEOREM HeldAlways == NoOrphan /\ Spec => []ResourcesHeld
<1>1. IInv => ResourcesHeld
  BY DEF IInv, Held, ResourcesHeld
<1>2. QED
  BY <1>1, Invariant, PTL

(* A live process that inferenced would trust is always the one the        *)
(* lifecycle record names, so the next stop revokes it.                    *)
THEOREM RevocableAlways == NoOrphan /\ Spec => []AuthorizationRevocable
<1>1. IInv => AuthorizationRevocable
  BY LeaderNamed DEF IInv, Named, AuthorizationRevocable
<1>2. QED
  BY <1>1, Invariant, PTL

-----------------------------------------------------------------------------
(* Who writes the intents. *)

SameIntents == \A b \in Apps : rec'[b].desired = rec[b].desired

\* A lifecycle record rewritten with the same intent changes no intent.
LEMMA SameIntent ==
    ASSUME IInv, NEW a, NEW r, Put(a, r), r.desired = rec[a].desired
    PROVE  SameIntents
BY DEF IInv, TypeOK, Put, SameIntents

\* A change of any other field keeps the intent.
LEMMA Rewrites ==
    ASSUME IInv, NEW a \in Apps, NEW obs
    PROVE  /\ Put(a, [rec[a] EXCEPT !.obs = obs]) => SameIntents
           /\ \A pid : Put(a, [rec[a] EXCEPT !.obs = obs, !.pid = pid]) => SameIntents
           /\ \A teardown : Put(a, [rec[a] EXCEPT !.obs = obs, !.teardown = teardown])
                               => SameIntents
           /\ \A pid, retry :
                 Put(a, [rec[a] EXCEPT !.obs = obs, !.pid = pid, !.retry = retry]) => SameIntents
           /\ \A teardown, pid :
                 Put(a, [rec[a] EXCEPT !.obs = obs, !.teardown = teardown, !.pid = pid])
                    => SameIntents
           /\ \A hist, retry :
                 Put(a, [rec[a] EXCEPT !.hist = hist, !.retry = retry, !.obs = obs])
                    => SameIntents
           /\ \A retry : Put(a, [rec[a] EXCEPT !.obs = obs, !.retry = retry]) => SameIntents
           /\ Put(a, Retired(rec[a], obs)) => SameIntents
           /\ \A hist, retry :
                 Put(a, [Retired(rec[a], obs) EXCEPT !.hist = hist, !.retry = retry])
                    => SameIntents
           /\ \A inst : Put(a, [Retired(rec[a], obs) EXCEPT !.inst = inst]) => SameIntents
<1>1. rec[a] \in Record
  BY DEF IInv, TypeOK, Record
<1>2. QED
  BY <1>1, SameIntent DEF Retired, Record

\* Of the steps of a call, only an admission and the first step of a stop
\* write an intent.
LEMMA CallIntents ==
    ASSUME IInv, CallStep, ~Admit, ~StopIntent
    PROVE  SameIntents
<1>1. CASE UNCHANGED rec
  BY <1>1 DEF SameIntents
<1>2. CASE \/ Republish \/ Reserve \/ Popen \/ WriteRunIds \/ Publish
           \/ Terminate \/ Kill \/ Fence \/ Revoke
  BY <1>2, <1>1
  DEF Republish, Reserve, Popen, WriteRunIds, Publish, Terminate, Kill, Fence, Revoke, durable
<1>3. CASE Adopt \/ Probe \/ Defer \/ Commit \/ OnSpawn \/ AwaitReady \/ StopPhase
  <2>1. App \in Apps
    BY <1>3, TheApp
    DEF IInv, At, Adopt, Probe, Defer, Commit, OnSpawn, AwaitReady, StopPhase
  <2>2. QED
    BY <1>1, <1>3, <2>1, Rewrites DEF Adopt, Probe, Defer, Commit, OnSpawn, AwaitReady, StopPhase
<1>4. CASE Settle \/ Stopped \/ FailedStart
  <2>1. App \in Apps
    BY <1>4, TheApp DEF IInv, At, Settle, Stopped, FailedStart
  <2>2. QED
    BY <1>1, <1>4, <2>1, Rewrites DEF Settle, Stopped, FailedStart
<1>5. QED
  BY <1>2, <1>3, <1>4 DEF CallStep

\* The steps between the calls write no intent.
LEMMA TaskIntents ==
    ASSUME IInv, TaskStep
    PROVE  SameIntents
<1>1. CASE UNCHANGED rec
  BY <1>1 DEF SameIntents
<1>2. CASE \/ UserDone \/ Sweep \/ Recover \/ ReconcileAllocations \/ Restore \/ Shutdown
           \/ ObserveRelease
  BY <1>2, <1>1
  DEF UserDone, Sweep, Recover, ReconcileAllocations, Restore, Shutdown, ObserveRelease, durable
<1>3. CASE Decide \/ Cool \/ ObserveRevoke \/ ObserveCrash \/ RestartPolicy \/ OneDone
  <2>1. Subject \in Apps
    BY <1>3, TheSubject
    DEF Decide, Cool, ObserveRevoke, ObserveCrash, RestartPolicy, OneDone, IInv, OneSteps
  <2>2. CASE Decide
    <3> DEFINE seen == [rec[Subject] EXCEPT !.obs = IF @ \in LivePhase THEN @ ELSE "running",
                                            !.pid = Running(Subject)]
               fresh == [seen EXCEPT !.obs = "running", !.hist = 0, !.retry = FALSE]
    <3>1. rec[Subject] \in Record
      BY <2>1 DEF IInv, TypeOK, Record
    <3>2. seen.desired = rec[Subject].desired /\ fresh.desired = rec[Subject].desired
      BY <3>1 DEF Record
    <3>3. \/ Put(Subject, seen) \/ Put(Subject, fresh) \/ Pending(Subject)
          \/ UNCHANGED rec
      BY <2>2 DEF Decide
    <3> HIDE DEF seen, fresh
    <3>4. QED
      BY <1>1, <2>1, <3>2, <3>3, Rewrites, SameIntent DEF Pending
  <2>3. CASE Cool \/ ObserveRevoke \/ ObserveCrash \/ OneDone
    BY <1>1, <2>1, <2>3, Rewrites DEF Cool, ObserveRevoke, ObserveCrash, OneDone
  <2>4. CASE RestartPolicy
    BY <1>1, <2>1, <2>4, Rewrites DEF RestartPolicy
  <2>5. QED
    BY <1>3, <2>2, <2>3, <2>4
<1>4. QED
  BY <1>2, <1>3 DEF TaskStep

\* Nobody but the coordinator's calls writes an intent.
LEMMA IntentWriters ==
    ASSUME IInv, [Next]_vars, ~Admit, ~StopIntent
    PROVE  SameIntents
<1>1. CASE UNCHANGED rec
  BY <1>1 DEF SameIntents
<1>2. CASE Environment
  BY <1>1, <1>2
  DEF Environment, LeaderExits, ReapChildren, DrainExits, HelperDies, DependencyLost,
      DependencyBack, Crash, Reboot, durable
<1>3. CASE Reconciler \/ BeginShutdown \/ \E a \in Apps : UserOp(a)
  BY <1>1, <1>3 DEF Reconciler, BeginTick, BeginOne, BeginShutdown, UserOp, durable
<1>4. QED
  BY <1>1, <1>2, <1>3, CallIntents, TaskIntents DEF Next, vars

\* An intent that turns back is that of the application a user starts.
LEMMA StepKeepsIntent ==
    ASSUME IInv, [Next]_vars, NEW a \in Apps,
           rec[a].desired = "stopped", rec'[a].desired = "running"
    PROVE  task.job \in {"start", "restart"} /\ a = Subject
<1>1. Admit \/ StopIntent
  BY IntentWriters DEF SameIntents
<1>2. App \in Apps /\ call.app = {App} /\ call.pc # ""
  BY <1>1, TheApp DEF IInv, At, Admit, StopIntent
<1>3. \A b \in Apps : b # App => rec'[b] = rec[b]
  BY <1>1, <1>2 DEF IInv, TypeOK, Admit, StopIntent, Put, Desire
<1>4. a = App
  BY <1>3
<1>5. ~StopIntent
  <2> SUFFICES ASSUME StopIntent
               PROVE  FALSE
    OBVIOUS
  <2>1. rec'[a].desired = call.op
    BY <1>2, <1>4 DEF StopIntent, Desire, Put, IInv, TypeOK
  <2>2. QED
    BY <1>2, <1>4, <2>1 DEF StopIntent, At, IInv, IntentInv
<1>6. task.job \in {"start", "restart"}
  BY <1>1, <1>2, <1>4, <1>5 DEF Admit, At, IInv, IntentInv
<1>7. task.app = {a}
  BY <1>2, <1>4, <1>6 DEF IInv, TaskShape
<1>8. QED
  BY <1>6, <1>7 DEF Subject

(* What the user stopped stays stopped: whatever the reconciler saw before *)
(* it took the gate, only a start or a restart that a user asked for turns *)
(* the intent of an application back to running.                           *)
THEOREM StopsStay == NoOrphan /\ Spec => StopIntentKept
<1>1. IInv /\ [Next]_vars
         => [\A a \in Apps : rec[a].desired = "stopped" /\ rec'[a].desired = "running"
                => task.job \in {"start", "restart"} /\ a = Subject]_vars
  BY StepKeepsIntent
<1>2. QED
  BY <1>1, Invariant, PTL DEF Spec, StopIntentKept
=============================================================================
