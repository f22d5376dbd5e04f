# A verification development for the reCamera Pro extension API

This directory holds TLA+ models of the concurrent core of the repository, the
TLC configurations that check them, and machine-checked proofs of every safety
invariant that is checked. Definitions are named after the source and `PROJECT.json` maps each of
them to the lines it stands for.

## The system

Firmware (`rkipc`, outside this repository) owns the camera and the NPU and
offers unix sockets. On top of it run:

| Part | Source | State | Operations | Talks to |
|---|---|---|---|---|
| Inference daemon: scheduler | `market/inferenced/scheduler.py` | queues per application, rotation, active keys, frame-rate clocks | `submit`, `cancel_client`, `close`, worker loop | server, its workers |
| Inference daemon: driver fence | `_concurrency.py`, `_memory.py`, `driver_lock.py` | gate (readers, writers, owner), kernel lock, quarantine reason, due collection | `shared`, `exclusive`, `inference`, `hold`, `collect` | `RknnBackend`, `rkipc` (same kernel lock) |
| Inference daemon: service | `server.py`, `authorization.py` | model cache, aliases, DMA channels, clients, fault | `hello`, `load`, `infer`, `open_shared_io`, `unload`, disconnect, `close` | applications (socket), scheduler, fence, launch records |
| Control plane: operations | `market/appmgr/operations.py` | records, journal, queue, one worker | `submit`, `for_upload`, `close`, restart | every mutating route |
| Control plane: store | `store_tasks.py`, `store_download.py` | tasks, journal, queue, one worker | `create`, `cancel`, `install`, `list`, `close`, restart | uploads, finalize |
| Control plane: uploads and finalize | `uploads.py`, parts of `server.py` | staged packages and their status, orphan marks | receive, preflight, `do_v1_install`, cancel, collection, startup recovery | operations |
| Control plane: app lifecycle | `coordinator.py`, `supervisor.py`, `state.py`, `resources.py`, `inference_auth.py` | desired and observed state, processes, run records, allocations, launch records | start, stop, restart, observe, reconcile, boot | daemon (launch records), result hub |
| Control plane: installer | `installer.py`, `pythonenv.py`, `server.py`, `trust.py`, `signing.py` | application directories, `.prev`, staging, environment pointer and rollback record, journal | stage, swap, activate, commit, rollback, reconcile | operations |
| Control plane: results and recording | `result_hub.py`, `recording.py`, `gateway.py`, `render_override.py` | generations, queues, client buffers, capabilities, epochs | hello, submit, publish, retire, reset | applications, web clients |
| SDK | `sdk/src`, `sdk/python` | lease, socket, last request | acquire, renew, fallback, frame and result I/O | `rkipc` |
| Application kit | `kit/` | frame loop, workflow queues, resource claims | run, put/get, close | SDK, daemon |
| Build, release, web page, examples, apps | `market/packaging`, `market/spa`, `release`, `apps`, `examples` | none at run time | - | - |

What makes it hard: threads that give up while their native call goes on;
locks taken in nested order by connections, workers and shutdown; a kernel lock
shared with another process; launch records revoked between a check and its
use; several files that a crash can catch at different ages; failing journal
writes; retries of requests whose answer was lost; helper processes that
survive their leader; directories and links that two renames apart hold halves
of two releases; connections that speak for a generation that is gone. `PROJECT.json` lists each
such hazard at its line with the properties that cover it.

What correctness means, part by part:

- *Scheduler*: one worker per model context, one outcome per request, no lost
  wake-up, no forgotten application, an end to every request.
- *Fence*: inference, maintenance, collection and `rkipc` exclude each other; a
  failed teardown seals the driver until the process dies.
- *Service*: no native call on released memory, budgets hold, admission is
  decided at the native boundary, nothing leaks, shutdown ends.
- *Operations, store, uploads*: a package is installed once, one mutation per
  application, nobody deletes bytes in use, nothing is stuck after a crash.
  One failing save leaves a package stuck until the next start, see below.
- *Lifecycle*: a process keeps its reservation whatever dies around it, one
  generation of an application lives at a time, the record that authorizes it
  can be found and revoked; a stop stays a stop, and both intents are reached.
- *Installer*: whoever looks sees the whole old or the whole new release; no
  process runs on halves of two, with one exception described below; every
  crash is recovered from.
- *Results, recording*: nothing of a retired generation is shown or recorded;
  once the hub has been told of the live generation it accepts no other, and
  what late hellos did is undone.
- *SDK lease*: an answer is matched to its own request.

## Modules

`FairScheduler` - `scheduler.py`. Each method that holds the condition's lock is
one action; a worker's loop is `Pick`/`Wait`, then `Check`, `Execute` and
`Release`, because the lock is left between them. Time is relative: `age`, `ttl`,
`cool` and `timer` count ticks and saturate at `Horizon`/`AgeCap`, beyond which
the code does not tell values apart. `wait(timeout)` is a label plus a timer;
`NotifyAll` moves every sleeper back to compete. `IndexesAgree` joins the two
indexes: a model is marked active exactly while one worker holds a job of it
(`KeyExclusive`, `HeldByOne`), and the rotation names exactly the applications
with queued jobs (`RotationIndex`).

`NpuFence` - the gate, the kernel lock, the quarantine and the collector, in the
order `RknnBackend` takes them. `pc` says where each thread is; waiting on the
condition is the set `asleep`. `Restart` is the death of the daemon, which makes
the kernel drop its locks; `IpcLock`/`IpcUnlock` are `rkipc`. `Collects` lists
the values of `_needs_collection` a thread may meet, so both runtimes are
covered. `NativeExclusion` is what the fence promises, without saying how, and
`ImplementsExclusion` is the refinement under the mapping in `Abstract`.

`InferenceService` - `server.py`, with the two components above replaced by what
they promise: a maintenance call is one step taken while no worker is inside the
gate (`GateFree`), and any queued job may be picked if its model is free.
Connection threads, workers and the thread in `close()` have labels for every
place where they leave a lock or wait for one. `late` is a history variable: the
workers whose job lost its authority before the decisive check. `NothingLeaks`
joins `CacheConsistent` and `CloseReleasesAll`; that a context serves one call at
a time is part of `NoUseAfterRelease`. Sizes are natural numbers and what is used
is the size of a disjoint union (`Sum`), a form that can be reasoned about where
a fold cannot. Three simplifications: leaving the
operation lock, finishing the job and freeing the key are one step (`Finish`;
nothing else can use the context in between, because the key is freed last); the
estimated channel size is the size it gets, so the roll-back for a wrong estimate
does not occur; and the second runtime `load` falls back to is part of
`LoadNative`.

`Operations` - the registry. `records` is memory, `journal` the file; `Saved` and
`Raised` are the two ends of `_save`, which may raise before or after it replaced
the file. `PackageInstall` extends it with the store, the staging area and
`do_v1_install`. The finalize lock is `flight`: `do_v1_install` keeps it over
`QueueUpload`, `Submit` and `Answer` or `Rollback`, and every other method that
inspects an upload needs it (`MayInspect`). A crash (`Restart`) can come between
any two steps; what survives is `taskFile`, `journal` and `upload`. A task and
the package it stages share their name, as a task stages at most one. The
preflight, the download and `do_install` are single steps that succeed or fail.
`list` and `create` look at several uploads one after the other, which is one
step here. `InstallOnce` counts operations per package and per application;
`NothingStranded` joins `ActiveUploadOwned` and `DownloadOwned`. The update that
marks an upload `install_queued` may raise behind its `os.replace`
(`uploads.py:478-493`), and the call at `server.py:3663` is outside any try: the
model gives such an upload the status "unreported", which the code cannot tell
from `install_queued`. It is the one package `ActiveUploadOwned` excepts from
having an owner; what it still claims of it is that no operation for it is
queued, run or answered. The other updates that may raise the same way
(`UploadRaises`, `RejectedRemains`) leave statuses the code deletes or collects.

`AppLifecycle` - coordinator, supervisor, `state.json`, resource journal, run
records and launch records. One transaction at a time holds the busy gate: `task`
is the transaction (a user operation, a pass of the reconciler over one
application, the boot, the shutdown), `call` the `start` or `stop` of the
coordinator it is in, with one label for every durable write between which the
daemon can die. A run record is `run.pgid`, `run.boot_id`, `run.pid` in the order
they are written (`stage` 1 to 3) and `old` when it is of an earlier boot. A
process group has a leader, a helper that outlives it, or a member in an
uninterruptible sleep that outlives SIGKILL. A generation stands for the pair of
instance id and generation, which are only compared, and for its process id; a
number nobody refers to is used again, so that traces are unbounded. Beside the
gate: processes exit, SIGCHLD reaps, polls drain, dependencies come and go, the
daemon dies (`Crash`, children live on) and the device restarts (`Reboot`).

`InstallTransaction` - one installation, with everything the code may find when
it begins (`Begins`: v1 and v2 releases, a retained generation or none, a
rollback record or none). `disk` holds the four directories, `env` the `current`
link and the rollback record; both name the release they hold. An operation on
files is a set of outcomes (`Out`): it returns, refuses, raises half way, or the
daemon dies half way. `commit_prepared`'s own undo, the rollback by the journal,
`restore_prev` and the boot are separate operators, because the code has them
separately and they disagree about details. `ReleaseSwitch` is what an observer
is promised - the release in force is whole and changes once - and
`ImplementsSwitch` is the refinement: `Release` is the old release while the
journal is open, and afterwards whatever directory, environment and
configuration all agree on, or "torn", which the abstract specification does not
know. `restore_prev` reverses its swap of directories for a `PythonEnvError`
only; an `OSError` from the switch of the environment leaves the old code with
the new environment. `RestorePrev` has this outcome, `HalfRestored` describes the
situation it leaves, and `RunsItsPair` names it as the only one in which a process
may meet an environment that is not its own.

`RecordingBridge` - the observer's queue of the hub, the bridge and the worker
that owns the connection to the recorder. `ResultHub` extends it with the
registry of generations and everybody who changes it: the control plane under
the gate (`control`), the hello of a connecting publisher without it (`hello`),
and results on their way. The four steps of a registration (read the live
identity, refresh, read again, revoke exactly it) are the same code path for
both and share `Read`, `Refreshing`, `Rechecked`. Not every operation goes
through them. A `Start` of a request refreshes the hub before it leaves the gate
(`server.py:2267`, 2326, 2001, 686; `Reconfigure` is 2692); one of the reconciler,
the boot, `do_switch`, `do_activate` or `_restore_active` does not (5173-5190,
5003-5035, 2358, 2435, 2204), and the hub learns of the generation from its
publisher's hello. A `Stop` revokes; but a crash that the same pass observes and
restarts, a restart, and the retry of an incomplete teardown (4940) do not.
`told` is a history variable for this: whether the hub has been told of the
lifecycle as it is. `NothingStale` claims nothing about which generation is
accepted while it has not been; it then goes on with the one before. What holds
the publish fence is one step; `Normalise` and `Publish` are two because the fence
is not held in between, and `Submit` may leave a result of a retired generation
behind in the queue, because the check and the append are under different locks.
`FailedReconcile` adds the handler of a reconcile pass that raised.

`Filtering` is what the code writes as `[x for x in queue if ...]`: `Keep(s, S)`,
defined by the places it keeps and not by recursion, so that facts about it can
be proved. `CollectionTheorems` proves them, and that a choice of the best of
finitely many elements exists.

The `MC...` modules name small sets for TLC; each `..._proofs` module holds the
theorems about the component it is named after. Operators commented as *Mutant* are plausible
bugs: `PROJECT.json` pairs each property of a passing run with one that violates
it under the same bounds.

## Runs

| Run | Shows | Bounds |
|---|---|---|
| `FairScheduler` | safety of the scheduler | 3 request slots, 2 applications (one with two connections), 2 models, 2 workers, queue bound 2, 3 instants |
| `FairSchedulerLive` | every job ends; `close()` drains | 1 worker, separate models, 2 instants |
| `NpuFence` | exclusion, seal, refinement, inductive invariant, writers not overtaken for ever | 2 workers (one on the ctypes runtime), 2 connections, 1 accept loop, `rkipc` |
| `InferenceService` | safety of the service | 2 connections, 1 model with 2 handles, 1 channel, 2 jobs, 1 worker, no failures |
| `InferenceFaults` | memory safety under failures; requests and `close()` end | 1 connection, 2 models, 1 job, lock timeouts and failed teardowns |
| `PackageInstall` | safety of store, finalize and journals, with a save of any status that raises behind its replacement | 2 tasks of one application, queue bound 1, failing saves, crashes |
| `PackageInstallLive` | operations and downloads end | 1 task and other mutations, failing saves and removals, crashes |
| `AppLifecycle` | reservations, revocation, intent; both intents reached | 2 applications that want one device (one also uses inference and restarts), 3 generations, 2 user operations, 2 faults of any kind but "orphan", 1 restart attempt |
| `InstallTransaction` | atomic, on a torn pair only where `HalfRestored` says so, always recovered | every history of `Begins`, 1 failing call, 3 deaths of the daemon |
| `ResultHub` | nothing stale shown or recorded; a hub that has been told accepts the live generation only, and late hellos are undone | 2 generations, 1 hello or reconfiguration, queues of 1, any number of stops, results, views and failing sends |
| `InstallReinstall` | expected violation: the undo of a reinstall jumps back a generation | the installed release again, failures before the switch, no death |
| `HubTombstone` | expected violation: a failed reconcile pass retires a live generation | 2 generations, no hello |

Why this is enough: each bound is the smallest at which every pair of roles
meets. Two workers and two connections give reader against reader, writer
against writer and both; two handles of a model give a re-load beside a job that
still runs on the old one; two jobs give one whose caller left and
one on a re-opened channel; two tasks give a store confirmation against a second
package of the same application. Two applications and one device give every way
to lose or to double a reservation, and two faults give a crash in the recovery
of a crash; three generations leave one to mint while a dead and a dying one are
still referred to. Three deaths of the daemon give a crash in the recovery of an
interrupted recovery, after which every combination of directories the code can
leave has been met. Two generations and a hello that may begin under the first and
end under the second give the races the hub guards against, beside starts and
stops of every kind. A queue of one is at its limit with every arrival; that a
reset stays ahead of the results in a longer one is in `RecorderFenced`, which
bounds no queue. Slots (jobs, handles, channels, generations
of `AppLifecycle`) are reused, so traces are unbounded in length. `MaxHistory`
(200 in the source) is never exceeded in the runs: eviction of a record whose
package is still staged is a known limit of idempotency, see below.

Deadlock is checked except where the system rests by design: a daemon that has
been closed (`Inference...`), nothing installed and no restart left
(`Install...`), the last generation served (`ResultHub`, `HubTombstone`).

Two bounds of `InstallTransaction` hide states the code can reach, and are named
for it. `EarlyFailures = FALSE`: activating the release that is active already
fails after the switch only; `InstallReinstall` lifts it and shows what then
happens. And `MarkCommitted` of a journal that is "ready" does not raise; what
happens if it does is described below.

### Fairness

`FairScheduler`: workers that can take a step do (native calls return), time
passes; callers do nothing they do not want to. `NpuFence`: threads inside an
operation go on; nobody has to begin one, `rkipc` need not unlock.
`InferenceService`: threads and workers go on and deadlines pass; clients,
revocation and shutdown are free. Its liveness uses one connection: Python's
locks promise no order, so with several of them "everybody gets the lock" would
be an assumption and not a result. `PackageInstall`: both workers and the request
in progress go on; the download worker gets strong fairness because it waits for
two locks that every request lets go of - between two requests they are free.

`AppLifecycle`: the reconciler thread runs for ever and passes over every
application, a transaction that has begun runs on, SIGCHLD is delivered and reaped
exits are drained, a killed process leaves its system call in the end, and
firmware services come back. User operations and faults are free and bounded.
`InstallTransaction`: the service manager starts a dead daemon again, and a boot
runs on; the installation itself need not (its end is not claimed).
`ResultHub`: an operation that holds the gate goes on and a hello that has begun
ends; no publisher has to connect and no result has to move. So that a
generation nobody told the hub of is accepted in the end is not claimed; it takes
its publisher's hello. `FailedReconcile`
adds that the handler, once it runs, ends.

### What the expected violations say

`InstallReinstall`: `rollback_candidate_activation` takes "current is the
candidate" for "this transaction switched to the candidate" (`pythonenv.py:697`).
When the release that is active is installed again and its activation fails
before the switch, the undo consumes the rollback record of an *earlier*
activation and goes back to the generation before. The docstring (690-693) says
that failures before the switch only discard the orphan, and the rollback by the
journal avoids exactly this in its own code (`installer.py:1143-1147`).

`HubTombstone`: the handler of a failed reconcile pass reads the lifecycle and
revokes "whatever is current" after the gate has been left (`server.py:5194`). A
start in between registers its generation, which is then retired: its results are
rejected until the next restart. The comment at 5093-5094 asks that the
invalidation stays inside the gate.

### Seen on the way

Behaviour that disagrees with a comment or surprises, found while modelling. No
run of the project expects these; where a fault leads to one of them, it is left
out of the run by a named bound, or a property names it as its exception.

- *Aging is bounded.* The scheduler's docstring promises that a lower priority
  becomes runnable after waiting; the bonus is capped at 100 and priorities span
  0..100, so two saturating streams at 100 win every time. The daemon admits one
  fixed priority, so only other users of the class can see it.
- A model that another application keeps busy can starve a request at equal
  priority: passes skip it while its key is active, and nothing reserves the key.
  Its deadline ends it. `FairSchedulerLive` therefore gives each application its
  own model when it claims that jobs end without one.
- Readers of the gate have no promise when writers keep coming; threads whose
  runtime never collects may let writers overtake each other. Neither is claimed.
- `gc.collect()` raising in the accept loop ends the daemon; it is one of the
  deaths `Restart` stands for.
- A disconnect whose unload times out forgets its client, and with it channels
  that are still allocated; a load that had been admitted before the fault was
  recorded then goes over the budget. With two connections, two models, a budget
  of 4 and the failure "timeout", TLC violates `BudgetRespected` in 22 states;
  this is why `WithinBudget` says "unless a fault is recorded". The daemon is
  faulty by then and takes no new request.
- A removal that failed marks an upload as ownerless (`store_tasks.py:126`), and
  nothing takes the mark back when the upload is finalized after all. Collection
  then deletes a package whose installation is queued or running
  (`uploads.py:235-241`), against "Runtime collection preserves queued/running
  installs" (`uploads.py:250`). `PackageInstall.cfg` with `Failures = {"remove"}`
  violates `PackageHeld` in 16 states. The run therefore has no failing removals,
  and `HeldWhileInstalled` assumes that there are none.
- *A request that fails after its status is on disk.* The update to
  `install_queued` at `server.py:3663` can raise behind its `os.replace`. The request
  fails, there is no operation, and the upload reads `install_queued`: `DELETE`
  refuses it (`uploads.py:877`), collection skips it (236), it occupies the quota,
  and only the recovery of the next start releases it. It is the exception in
  `ActiveUploadOwned`; without it, `PackageInstall` is violated.
- The history of operations is cut by age, whatever the status
  (`operations.py:258`). A failed save leaves a terminal record behind, so
  `MAX_HISTORY` failed submissions for other applications during one long
  operation push its record out; a second operation of the same application is
  then accepted. This is the condition `Evicts` of `OnceWhileRemembered`.
- `cancel` of a task in preflight answers "cancelled" and only signals; a request
  to the finalize route that comes before the loader discards the package still
  installs it, and the task then reads "installing" again.
- A task cancelled by the user and caught by `close()` before the loader notices
  is recorded as failed. An operation that finished just before a crash, before
  its last save, is reported as failed after the restart.
- A package whose removal was prevented by a crash and whose record was evicted
  by 200 newer operations can be installed again by an explicit request
  (`operations.py:257`). Events of two operations are published outside the lock
  and may arrive out of order (`operations.py:76`).
- *A second process after a crash of the daemon.* Between `Popen` and the write of
  the boot id nothing on disk can contain the process (`supervisor.py:1392`); a
  daemon that dies there cannot find it, and the next start mints another one,
  against "never spawn a second process for the same app" (`coordinator.py:168`).
  This is the fault "orphan", which the run leaves out.
- *Lease before revocation.* A start that finds an exited generation nobody has
  observed yet gives the lifecycle record a new identity; when the daemon dies in
  its dependency probe, the reconciliation of allocations (`coordinator.py:948-968`)
  sees a record that no longer speaks of the old generation and releases its
  reservation while its launch record is still published, against the comment
  there that a crashed process must keep its lease until its authorization has
  been revoked. The process is dead, so `ResourcesHeld` is not affected.
- *Restart budget.* `stop()` clears the restart history whoever calls it
  (`coordinator.py:607`), so recovering a teardown inside a crash loop grants
  attempts beyond the budget documented at 717-721.
- A `mark("committed")` that raises after "ready", followed by a crash during the
  rollback, leaves a journal that names a release the boot no longer finds: the
  validation of the boot then fails for ever.
- *Old code with the new interpreter.* `restore_prev` promises that "runtime never
  observes old code with the new interpreter" (`installer.py:989-990`), and reverses
  the swap of directories when the environment cannot follow, but for a
  `PythonEnvError` only (1021). An `OSError` of `_switch_current`
  (`pythonenv.py:543`, 551-554), or of the reading of the link afterwards, leaves
  the old code live and the new environment current. The handler at 1029 does
  nothing then, since there is a live directory. The boot repairs it; before the
  boot, a retried teardown may lift the fence and the pair be launched. Removing
  `HalfRestored` from `RunsItsPair` makes TLC show this.
- After a rollback that stayed incomplete, the reconciler of the same daemon life
  may retry the teardown, lift the fence and launch what is there;
  `mark("stopped")` raising leaves the journal open until the next boot.
- *A generation the hub is not told of.* After a crash the reconciler has observed
  and restarted in one pass, the hub accepts, shows and replays the previous
  generation until the new publisher's hello; the same holds after a restart at
  boot, a switch and an activation. `NothingStale` therefore speaks of a hub that
  has been told. The handler of `_rollback_upgrade` (`server.py:1648-1653`) revokes
  whatever is current also when its start had succeeded and a later call raised.
- An uninstallation interrupted between the removal of the live directory and of
  its `.prev` comes back at boot as the retained release.
- The gateway's hello loads the display override outside the fence
  (`result_hub.py:2576`) and may commit a render configuration that has been
  replaced meanwhile.
- The cleanup request of an inference is handed from the worker to the response
  path, which may have gone already (`inferenced/server.py:771`).

## Proofs

TLC checks the bounds of the table; the theorems hold for every value of the
constants that the named assumptions allow, any numbers of threads, applications,
requests and crashes among them. Every safety invariant, action property and
refinement of a passing run is stated by a theorem.

| Module | Theorems | Assumed |
|---|---|---|
| `NpuFence_proofs` | `Consistent`, `Exclusion`, `Sealed`, `Implements` | `ThreadKinds` |
| `FairScheduler_proofs` | `Typed`, `IndexesAlwaysAgree`, `FinishesOnce`, `NoWakeupLost` | `JobAttributes`, `Bounds` |
| `InferenceService_proofs` | `Typed`, `AliveWhileUsed`, `OneJobAChannel`, `AdmissionAlwaysDecides`, `LeaksNothing`, `WithinLimits`, `WithinBudget` | `Names`, `Sizes` |
| | `WithinBudgetAlways` | and `Failures = {}` |
| `PackageInstall_proofs` | `Typed`, `NothingIsStranded` | `TaskNames`, `HistoryHoldsQueue` |
| | `HeldWhileInstalled` | and `"remove" \notin Failures` |
| | `OnceWhileRemembered` | and no step `Evicts` |
| | `OnceIfSaved` | and `"save" \notin Failures` |
| `AppLifecycle_proofs` | `Typed`, `HeldAlways`, `RevocableAlways`, `StopsStay` | `ConstantsAssumption`, `NoOrphan` |
| `InstallTransaction_proofs` | `Typed`, `RunsAlways`, `Implements` | `InstallAssumption`, `NoEarlyReinstall` |
| `ResultHub_proofs` | `Typed`, `ShowsTheLive`, `RecorderFenced` | `BridgeAssumption`, `HubAssumption` |

The assumptions on constants say that tokens (`None`, the closing thread) are
none of the objects, that kinds of threads are disjoint, that bounds are natural
numbers (positive where the code refuses zero), and that connections, model keys
and tasks are finite sets, because the proofs count them. The other conditions
exclude a fault under which the property is *false*, and each is one of the
observations above.

None of the properties is inductive: they speak of what is visible, while what
makes a step safe is who is where in the code and what he holds. What each proof
adds:

*The fence.* `ReadLabels` and `WriteLabels` say at which places a thread is
counted as reader or is the owner, `GateBooks` that a writer and readers exclude
each other and how `depth` follows the nesting, `LockBooks` how the two sides of
the kernel lock, the local mutex and the quarantine go together. There is one
step per action, and each uses the parts of `IInv` the action can disturb. The
refinement maps each action to a step of `NativeExclusion` or to a stutter.

*The scheduler.* `IndexesAgree` is inductive together with `TypeOK`; the work is
in what one pass over the queues computes (`CollectionTheorems` on `Keep`, and
that the choice among finitely many applications has a result). `NoLostWakeup`
needs that a pass that finds nothing stays without a find until somebody
notifies or the timer it was given runs out, whatever other workers, callers and
the clock do; the time a worker sleeps is the minimum of what may change the
answer.

*The service.* `Places` says which thread owns the writer lock `drv`, and with it
that nobody else writes `models`, `aliases` or `io`; `Locks` and `Locals` what a
thread holds at each place and what its local variables still mean there; `Work`,
`JobsOf` and `ChannelsOf` what a job in the hands of a worker, a queued job and a
channel refer to. `Contexts` and `Buffers` tie references, cache and native
objects together: a release is guarded by `GateFree`, so no worker is inside, and
what is unreferenced is released by the thread that owns `drv` or was left behind
by a recorded fault. `Dropped` covers the connection that is torn down under its
own request (`DropOf`) and the channel that is opened late (`LateOpen`), `Refused`
the worker whose job has lost its authority, `Bound` the native call. For the two
limits the invariant counts: `InstInv` says that what the connections of one
application generation hold, with the load that is under way, is inside its
limit; `BudgetInv` says that every channel that occupies memory is listed, and
that a load under way has its place in the budget. The link to the native side is
`UsedIsReserved`: what is occupied is part of what is reserved. A fault ends this,
as described above; `FaultsAreTold` is why there is none when `Failures = {}`.

*The registry and packages.* `Registry` says that the history holds no operation,
package or live application twice (`Sound`) and what it says of operations under
way (`LiveJobs`), `Shape` adds the tasks. Steps are then sorted into few kinds
(`Quiet`, `Created`, `Loading`, `Handling`, `Restarted`), and the rest is proved
once for each kind. `Owned` names for every waiting package who owes it a move;
`Inert` says of one whose status was saved by a failed request that nobody has it;
`Answered` the place of every downloading task. `HeldWhileInstalled` follows the
package: it is with the loader (`LoaderKeeps`), or passed on to the request in
flight, the queue, the worker (`PassedOn`), and never goes back. `InstallOnce`
holds as long as what is under way is remembered (`Tracked`). That is a condition
on steps (`[][~Evicts]_vars`); without failing saves it is a theorem, since the
operations under way are then the last ones of a history that has room for them
(`InOrder`).

*The lifecycle.* `Held` is the core: every process has the reservation of the
generation the lifecycle record names, and is either found by its run record
(`Recorded`) or has just been spawned by the call that will kill it (`Spawning`).
A daemon that dies between `Popen` and the write of the boot id leaves a process
that is neither (`supervisor.py:1392`); `NoOrphan` excludes this death. `Named` and
`Waits` say the same of launch records; `CallInv` and `TaskInv` say for every
place of a coordinator call what has been written so far, so that a death of the
daemon between any two writes leaves something the boot can use. `IntentInv` says
that whoever starts an application the user has not just asked for has seen,
under the gate, that it should run; `StopsStay` follows.

*The installer.* `DiskInv` and `EnvInv` list the directories and links that
renames, rollbacks and deaths can leave; `Place` says for every place of
`do_install` and of the boot which of them it may stand with, in particular where
the pair is the whole old one (`OldState`) or the whole new one (`NewState`).
`TornPair` is what a half-failed restore leaves. `Place` admits it only where the
transaction has been given up with its journal open, and the boot brings the old
pair back before it closes the journal. `Running` adds that a process exists only
on one of these three pairs (`AnyPair`). The refinement then
has one step that switches: the one that marks the journal. `NoEarlyReinstall`
excludes the case `InstallReinstall` shows to be wrong.

*Results and recording.* `NothingStale` is not inductive: it says what the hub
accepts, not why a late hello cannot change it. `HubInv` adds that a generation that
is live or accepted is not retired and that nothing is newer than the last one
started (`Numbering`), at which places of the control plane something is live
(`ControlPlace`), that a hello or an operation speaks of a generation that was
started (`HelloPlace`), and what the hub accepts once it has been told (`Heard`): the
live generation, or, when none is live, nothing but what a hello that stands
before its second look has registered (`Late`) - and that look revokes it. A hub
that has not been told owes nothing until a second look finds the generation
live. `Shown` says that viewers and replay follow what is accepted. Which facts a
refresh and a revocation keep is proved once (`RegistryKept`, `LiveStays`).
`RecordingFenced` needs
the whole way of a reset: `InOrder` says that a reset is only ever first in the
queue and of the present epoch and that queued results are those of the present
capability, `InHand` the same of the action the worker holds, with the epoch
telling an overtaken reset from the present one, and `Connection` that the
recorder holds nothing without a connection. `RemoveAppend` and
`QueuedKeepsOrder` carry the facts about sequences: a full queue that gives up a
result keeps its reset first.

Only model-checked: liveness (`EveryJobFinishes`, `CloseDrains`,
`CollectionNotStarved`, `MaintenanceEnds`, `RequestsEnd`, `CloseEnds`, `WorkEnds`,
`StopCompletes`, `RunReached`, `RecoveryEnds`, `LiveServed`). These rest on
fairness and ENABLED, which the prover does not handle. Not stated as theorems
either are the two expected violations.

## Not modelled, and the plan

Left out of components that are modelled:

- `AppLifecycle`: the legacy `switch`/`activate` of one foreground application,
  memory protection, dependencies that are present but incompatible, the adoption
  of a process without a run record, the ageing of restart attempts out of their
  window; clearing a run record is one step, and so are the write of the desired
  state and the bind in an adoption; `restart` is the stop and the start it calls.
- `InstallTransaction`: verification of the package, extraction, uninstallation,
  and the phases of the journal no reader tells apart.
- `ResultHub`: the older WebSocket publisher of `gateway.py:199-200`, which gets
  every envelope but recording requests before the hub does and knows no
  generation fence - what is said of viewers here is said of viewers of the hub;
  a generation that returns to the live phases, as `observe` makes it do while a
  failed stop is being retried (`coordinator.py:638-650`); the handler of
  `_rollback_upgrade` mentioned above.
- `ResultHub`, `RecordingBridge`: normalisation, formatting and templates, display
  overrides, policies of single viewers, system sources, duplicate ids, the rate
  limit and closing the bridge. A result is its generation; which of two results a
  full queue keeps depends in the code on their kinds, here either may be lost.
- `PackageInstall`: packages uploaded by hand; their finalization is the same code
  with one owner less.

Not modelled for good: data (tensors, manifests, signatures, geometry), HTTP
routing, packaging, the web page, examples and applications, firmware beyond the
sockets and the kernel lock. They are most of the repository's lines.

Order of work, most important first:

1. `FairScheduler` - done.
2. `NpuFence`, `NativeExclusion`, proofs - done.
3. `InferenceService` on the promises of 1 and 2 - done.
4. `Operations`, `PackageInstall` - done.
5. `AppLifecycle` - done.
6. `InstallTransaction`, `ReleaseSwitch` - done.
7. `RecordingBridge`, `ResultHub`, `FailedReconcile`, proofs - done.
8. `InferenceLease`: request/answer matching of the SDK over a socket that keeps
   late answers.
9. `WorkflowQueue`: block, drop-oldest and close; `OutputCleanup`: the handoff
   of a collection request between worker and response.
10. Proofs of the safety invariants, action properties and refinements - done. The
    modules proved about use no RECURSIVE operator. Left: the same for 8 and 9.

## Running

    tlc -workers 2 -config NpuFence.cfg MCNpuFence
    tlc -workers 2 -config ResultHub.cfg ResultHub
    tlapm NpuFence_proofs.tla

`PROJECT.json` names the module of each run. A run takes between a second and
four minutes. `tlapm` is called once for each `..._proofs` module and for
`CollectionTheorems`; `InferenceService_proofs` takes about a quarter of an hour,
`PackageInstall_proofs`, `AppLifecycle_proofs` and `FairScheduler_proofs` some
minutes, the others less. It remembers what it has proved, so a second call is
short.
