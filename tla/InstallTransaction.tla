------------------------ MODULE InstallTransaction -------------------------
(***************************************************************************)
(* One installation of an application: the journal, the directory renames, *)
(* the environment pointer and its rollback record, the configuration, the *)
(* running process, every rollback path, and the recovery at boot          *)
(* (appmgr/installer.py, pythonenv.py, server.py).                         *)
(*                                                                         *)
(* A directory or an environment is named by the release it holds: "older" *)
(* (a retained generation), "old" (installed when the transaction begins)  *)
(* and "new".  The phases of the journal before "ready" are told apart by  *)
(* no reader and are one phase here, "open".                               *)
(***************************************************************************)
EXTENDS Naturals

CONSTANTS
    None,      \* no directory, no environment, no process
    Kinds,     \* which installations to begin, out of {"fresh", "upgrade", "reinstall"}
    MaxCuts,   \* bound: how often the daemon dies
    EarlyFailures  \* whether activating the release that is active may fail before the switch

ASSUME InstallAssumption ==
    /\ None \notin {"older", "old", "new", "open", "ready", "committed"}
    /\ Kinds \subseteq {"fresh", "upgrade", "reinstall"}
    /\ MaxCuts \in Nat /\ EarlyFailures \in BOOLEAN

VARIABLES
    plan,      \* what is installed over what: [installed, lock, env, rec], with lock[g] the
               \* environment the release lock of generation g names (None: a v1 package)
    disk,      \* [live, prev, failed, stage]: the directories <id>, <id>.prev, <id>.failed, staging
    env,       \* [cur, rec]: the `current` link and the rollback record <<new, previous>>
    config,    \* the release the user configuration has been validated for
    journal,   \* install-transaction.json: None, "open", "ready" or "committed"
    proc,      \* the generation whose process is running
    fence,     \* teardown_pending of the lifecycle record
    restart,   \* restart_previous: the application ran when the transaction began
    pc,        \* where do_install, or the boot, stands
    faulty,    \* an operation has failed (at most one does)
    cuts       \* how often the daemon has died

vars == <<plan, disk, env, config, journal, proc, fence, restart, pc, faulty, cuts>>

NoRecord == <<None, None>>
Generations == {"older", "old", "new", None}
AtRest == {"before", "idle"}
Working == {"stop", "mark", "moveOld", "moveNew", "activate", "switch", "configure", "start",
            "ready", "commit", "clear", "undo", "undoAgain", "recover", "revert",
            "restorePrev", "restoreState", "startOld", "giveUp"}
Booting == {"down", "bootStop", "bootFiles", "bootState", "bootClear", "sweep"}

TypeOK ==
    /\ disk \in [live : Generations, prev : Generations, failed : Generations, stage : {"new", None}]
    /\ env.cur \in Generations
    /\ env.rec \in Generations \X Generations
    /\ config \in {"old", "new"}
    /\ journal \in {None, "open", "ready", "committed"}
    /\ proc \in {"old", "new", None}
    /\ fence \in BOOLEAN /\ restart \in BOOLEAN /\ faulty \in BOOLEAN
    /\ pc \in AtRest \cup Working \cup Booting
    /\ cuts \in 0 .. MaxCuts

-----------------------------------------------------------------------------
(* What may be installed, and what earlier installations have left behind. *)

Plan(installed, old, target, cur, rec) ==
    [installed |-> installed, lock |-> [old |-> old, new |-> target], env |-> cur, rec |-> rec]

(* A v2 release leaves the record of its activation behind: over an older  *)
(* generation, over nothing, or none at all after a rollback consumed it.  *)
(* A v1 release has no environment of its own, but may follow one that had.*)
Histories ==
    {[prev |-> "older", rec |-> <<"old", "older">>],
     [prev |-> None, rec |-> <<"old", None>>],
     [prev |-> None, rec |-> NoRecord]}

UpgradesOfV2(target) ==
    {[plan |-> Plan(TRUE, "old", target, "old", h.rec), prev |-> h.prev] : h \in Histories}

UpgradesOfV1(target) ==
    {[plan |-> Plan(TRUE, None, target, None, NoRecord), prev |-> p] : p \in {None, "older"}}
    \cup {[plan |-> Plan(TRUE, None, target, "older", <<"older", None>>), prev |-> "older"]}

Fresh(target) == {[plan |-> Plan(FALSE, None, target, None, NoRecord), prev |-> None]}

Begins ==
    LET targets == {None, "new"}
    IN  (UNION {IF "fresh" \in Kinds THEN Fresh(t) ELSE {} : t \in targets})
        \cup (UNION {IF "upgrade" \in Kinds THEN UpgradesOfV2(t) \cup UpgradesOfV1(t) ELSE {} :
                        t \in targets})
        \cup (IF "reinstall" \in Kinds THEN UpgradesOfV2("old") ELSE {})

Init ==
    /\ \E b \in Begins :
        /\ plan = b.plan
        /\ disk = [live |-> IF b.plan.installed THEN "old" ELSE None,
                   prev |-> b.prev, failed |-> None, stage |-> None]
        /\ env = [cur |-> b.plan.env, rec |-> b.plan.rec]
    /\ config = "old" /\ journal = None /\ proc = None
    /\ fence = FALSE /\ restart = FALSE /\ faulty = FALSE
    /\ pc = "before" /\ cuts = 0

-----------------------------------------------------------------------------
(* Operations on files are sets of outcomes: the disk and the environment  *)
(* they leave, and how they end.  "ok" and "refused" are what the code     *)
(* returns when nothing fails, "failed" is an exception out of one failing *)
(* call, "cut" the daemon dying in the middle.                             *)

Out(d, e, how) == [disk |-> d, env |-> e, how |-> how]

(* server.py:1582 restore: the environment the old release ran in. *)
Expected == plan.env
Target == plan.lock["new"]
LockOf(gen) == IF gen \in DOMAIN plan.lock THEN plan.lock[gen] ELSE None

(* Switch back to the generation of the rollback record, exactly once: the *)
(* record of a switch already undone is only consumed.  Its unlink may     *)
(* fail without notice.                                                    *)
RestorePrevious(e) ==
    LET consumed(x) == {x, [x EXCEPT !.rec = NoRecord]}
        back(x) == [env |-> x, ok |-> TRUE]
    IN  IF e.rec = NoRecord THEN {back(e)}
        ELSE IF e.cur = e.rec[2] THEN {back(x) : x \in consumed(e)}
        ELSE IF e.cur # e.rec[1] THEN {[env |-> e, ok |-> FALSE]}
        ELSE {back(x) : x \in consumed([e EXCEPT !.cur = e.rec[2]])}

(* Undo a candidate that may have been switched to before the failure. *)
RollbackCandidate(e) ==
    IF Target = None \/ e.cur # Target THEN {[env |-> e, ok |-> TRUE]}
    ELSE {[r EXCEPT !.ok = r.ok /\ r.env.cur # Target] : r \in RestorePrevious(e)}

(* Leave `current` on the release it had before the transaction. *)
ReconcileEnvironment(e) ==
    {[r EXCEPT !.ok = r.ok /\ r.env.cur = Expected] :
        r \in IF Target # None /\ Target # Expected /\ e.cur = Target
              THEN RestorePrevious(e) ELSE {[env |-> e, ok |-> TRUE]}}

(* The code half of a failed publication is moved out and the backup back. *)
CodeRestored(d) ==
    [d EXCEPT !.live = IF plan.installed THEN "old" ELSE None,
              !.prev = IF plan.installed THEN None ELSE d.prev, !.failed = None]

Aside(d) == [d EXCEPT !.live = None, !.failed = d.live]

Undo(d, e) ==
    UNION {IF r.ok
           THEN {Out(CodeRestored(d), r.env, "ok"), Out(d, r.env, "failed"),
                 Out(d, r.env, "cut"), Out(Aside(d), r.env, "cut")}
           ELSE {Out(d, r.env, "refused")} : r \in RollbackCandidate(e)}

(* rollback_install_transaction_files, by what the live directory is: still*)
(* the old release, moved away, the new release, or never published.       *)
RollbackUntouched(d, e) ==
    UNION {{Out(d, e, "failed"), Out(d, r.env, "failed"), Out(d, r.env, "cut"),
            IF r.ok THEN Out([d EXCEPT !.failed = None], r.env, "ok")
                    ELSE Out(d, r.env, "refused")} : r \in ReconcileEnvironment(e)}

\* Mutant: the copy an interrupted rollback has moved aside is a stranger.
RollbackMovedAwayStrict(d, e) ==
    IF d.prev # "old" \/ d.failed # None THEN {Out(d, e, "refused")}
    ELSE {Out([d EXCEPT !.live = "old", !.prev = None], r.env,
              IF r.ok THEN "ok" ELSE "refused") : r \in ReconcileEnvironment(e)}

RollbackMovedAway(d, e) ==
    IF d.prev # "old" THEN {Out(d, e, "refused")}
    ELSE UNION {LET back == [d EXCEPT !.live = "old", !.prev = None]
                IN  {Out(d, e, "failed"), Out(d, r.env, "failed"), Out(d, r.env, "cut")}
                    \cup IF r.ok
                         THEN {Out(back, r.env, "failed"), Out(back, r.env, "cut"),
                               Out([back EXCEPT !.failed = None], r.env, "ok")}
                         ELSE {Out(d, r.env, "refused")} : r \in ReconcileEnvironment(e)}

\* Mutant: the rollback of a published release leaves the environment behind.
RollbackPublishedCodeOnly(d, e) ==
    IF d.prev # "old" THEN {Out(d, e, "refused")}
    ELSE {Out([d EXCEPT !.live = "old", !.prev = None], e, "ok"),
          Out(d, e, "failed"), Out(Aside(d), e, "cut")}

(* The environment is switched back only when the pointer proves that this *)
(* transaction switched it; the code goes first, and comes back when the   *)
(* environment cannot follow.                                              *)
RollbackPublished(d, e) ==
    LET mine == Target # None /\ Target # Expected
        tried == mine /\ e.cur = Target
        swapped == [d EXCEPT !.live = "old", !.prev = None, !.failed = d.live]
        restored == IF tried THEN RestorePrevious(e) ELSE {[env |-> e, ok |-> TRUE]}
    IN  IF d.prev # "old" \/ (mine /\ e.cur \notin {Target, Expected})
        THEN {Out(d, e, "refused")}
        ELSE {Out(d, e, "failed"), Out(Aside(d), e, "cut"), Out(swapped, e, "cut")}
             \cup UNION {IF ~r.ok THEN {Out(d, e, "refused")}
                         ELSE {Out(swapped, r.env, "cut"),
                               Out(swapped, r.env, IF tried THEN "failed" ELSE "cut"),
                               IF tried /\ r.env.cur # Expected
                               THEN Out(swapped, r.env, "refused")
                               ELSE Out([swapped EXCEPT !.failed = None], r.env, "ok")} :
                            r \in restored}

RollbackFresh(d, e) ==
    UNION {{Out(d, e, "failed"), Out(d, r.env, "failed"), Out(d, r.env, "cut"),
            IF r.ok THEN Out([d EXCEPT !.live = None], r.env, "ok")
                    ELSE Out(d, r.env, "refused")} : r \in ReconcileEnvironment(e)}

RollbackFiles(d, e) ==
    IF ~plan.installed THEN RollbackFresh(d, e)
    ELSE CASE d.live = "old" -> RollbackUntouched(d, e)
           [] d.live = None  -> RollbackMovedAway(d, e)
           [] OTHER          -> RollbackPublished(d, e)

(* installer.restore_prev: swap the code back and the environment with it; *)
(* when the two do not match, the swap is reversed.  Only that refusal     *)
(* reverses it: any other exception out of the environment helper, before  *)
(* or after its switch, leaves the code where it is.                       *)
RestorePrev(d, e) ==
    LET swapped == [d EXCEPT !.live = d.prev, !.prev = None, !.failed = d.live]
        followed == IF Target = None THEN {[env |-> e, ok |-> TRUE]}
                    ELSE {[r EXCEPT !.ok = /\ r.ok
                                           /\ ~(r.env.cur = Target /\ plan.lock["old"] # Target)
                                           /\ plan.lock["old"] \in {None, r.env.cur}] :
                            r \in RestorePrevious(e)}
        unfollowed == IF Target = None THEN {} ELSE {e} \cup {r.env : r \in followed}
    IN  IF d.prev = None THEN {Out(d, e, "refused")}
        ELSE {Out(d, e, "failed"), Out(Aside(d), e, "cut"), Out(swapped, e, "cut")}
             \cup {Out(swapped, x, "failed") : x \in unfollowed}
             \cup UNION {IF r.ok
                         THEN {Out(swapped, r.env, "cut"),
                               Out([swapped EXCEPT !.failed = None], r.env, "ok")}
                         ELSE {Out(swapped, r.env, "cut"), Out(Aside(d), r.env, "cut"),
                               Out(d, r.env, "refused")} : r \in followed}

-----------------------------------------------------------------------------
(* Failing and dying. *)

Fails == ~faulty /\ faulty' = TRUE

(* The daemon dies: with the device (no process is left) or alone (the     *)
(* application runs on).                                                   *)
Dies ==
    /\ cuts < MaxCuts /\ cuts' = cuts + 1
    /\ pc' = "down" /\ proc' \in {proc, None}

(* One operation on files, then on to `next`, or to `bad` when it raises. *)
Perform(outcomes, next, bad) ==
    \E o \in outcomes :
        /\ disk' = o.disk /\ env' = o.env
        /\ \/ o.how = "ok" /\ pc' = next /\ UNCHANGED <<proc, faulty, cuts>>
           \/ o.how = "refused" /\ pc' = bad /\ UNCHANGED <<proc, faulty, cuts>>
           \/ o.how = "failed" /\ Fails /\ pc' = bad /\ UNCHANGED <<proc, cuts>>
           \/ o.how = "cut" /\ Dies /\ UNCHANGED faulty
        /\ UNCHANGED <<plan, config, journal, fence, restart>>

Die ==
    /\ pc # "down" /\ Dies
    /\ UNCHANGED <<plan, disk, env, config, journal, fence, restart, faulty>>

Step(next) == pc' = next /\ UNCHANGED <<plan, cuts>>

(* The call of this step raises and has had no effect. *)
Raises(bad) ==
    /\ Fails /\ Step(bad)
    /\ UNCHANGED <<disk, env, config, journal, proc, fence, restart>>

-----------------------------------------------------------------------------
(* do_install, under the busy gate of the daemon. *)

\* Mutant: the snapshot keeps the process where a flag is expected.
BeginWithPid ==
    /\ pc = "before" /\ journal = None /\ ~fence
    /\ journal' = "open" /\ restart' = proc
    /\ disk' = [disk EXCEPT !.stage = "new"]
    /\ Step("stop") /\ UNCHANGED <<env, config, proc, fence, faulty>>

Begin ==
    /\ pc = "before" /\ journal = None /\ ~fence
    /\ journal' = "open" /\ restart' = (proc # None)
    /\ disk' = [disk EXCEPT !.stage = "new"]
    /\ Step("stop") /\ UNCHANGED <<env, config, proc, fence, faulty>>

(* The old process is stopped; one that cannot be is fenced off, and the   *)
(* transaction is given up before it has touched a file.                   *)
StopOld ==
    /\ pc = "stop"
    /\ \/ Step("mark") /\ proc' = None /\ UNCHANGED <<disk, journal, fence, faulty>>
       \/ /\ proc # None /\ Fails /\ Step("idle")
          /\ fence' = TRUE /\ journal' = None /\ disk' = [disk EXCEPT !.stage = None]
          /\ UNCHANGED proc
    /\ UNCHANGED <<env, config, restart>>

(* mark("stopped") stands outside every try: when it raises, the journal   *)
(* stays and nothing is rolled back before the next boot.                  *)
MarkStopped ==
    /\ pc = "mark"
    /\ \/ Step("moveOld") /\ UNCHANGED <<disk, faulty>>
       \/ Fails /\ Step("idle") /\ disk' = [disk EXCEPT !.stage = None]
    /\ UNCHANGED <<env, config, journal, proc, fence, restart>>

MoveOld ==
    /\ pc = "moveOld"
    /\ LET bare == [disk EXCEPT !.prev = None]
       IN  Perform(IF disk.live = None THEN {Out(disk, env, "ok"), Out(disk, env, "failed")}
                   ELSE {Out([disk EXCEPT !.prev = disk.live, !.live = None], env, "ok"),
                         Out(disk, env, "failed"), Out(bare, env, "failed"), Out(bare, env, "cut")},
                   "moveNew", "recover")

MoveNew ==
    /\ pc = "moveNew"
    /\ Perform({Out([disk EXCEPT !.live = "new", !.stage = None], env, "ok"),
                Out([disk EXCEPT !.live = IF plan.installed THEN "old" ELSE None,
                                 !.prev = IF plan.installed THEN None ELSE disk.prev], env, "failed")},
               "activate", "recover")

(* Bound: without EarlyFailures, activating the release that is active     *)
(* already fails after the switch only.                                    *)
MayFailEarly == Target = None \/ Target # env.cur \/ EarlyFailures

(* The rollback record is on disk before the pointer is switched.  A mark  *)
(* that raises outside of the inner try is undone by the outer one only.   *)
Activate ==
    /\ pc = "activate"
    /\ \/ MayFailEarly /\ Raises("undoAgain")
       \/ MayFailEarly /\ Target # None /\ Raises("undo")
       \/ Target = None /\ Step("configure")
          /\ UNCHANGED <<disk, env, config, journal, proc, fence, restart, faulty>>
       \/ /\ Target # None /\ env' = [env EXCEPT !.rec = <<Target, env.cur>>]
          /\ Step("switch") /\ UNCHANGED <<disk, config, journal, proc, fence, restart, faulty>>

(* The switch fails and puts the older record back, or the mark after it   *)
(* raises.                                                                 *)
SwitchCurrent ==
    /\ pc = "switch"
    /\ LET switched == [env EXCEPT !.cur = Target]
           unswitched == [env EXCEPT !.rec = plan.rec]
       IN  \/ Perform({Out(disk, switched, "ok"), Out(disk, switched, "failed")}, "configure", "undo")
           \/ MayFailEarly /\ Perform({Out(disk, unswitched, "failed")}, "configure", "undo")

(* commit_prepared undoes its own publication, a second time in its outer  *)
(* handler when the first attempt raised.                                  *)
UndoPublish ==
    \/ pc = "undo" /\ Perform(Undo(disk, env), "recover", "undoAgain")
    \/ pc = "undoAgain" /\ Perform(Undo(disk, env), "recover", "recover")

(* do_install trusts no undo: the files are reconciled with the journal. *)
Recover == pc = "recover" /\ Perform(RollbackFiles(disk, env), "restoreState", "giveUp")

Configure ==
    /\ pc = "configure"
    /\ config' = "new"
    /\ \/ Step(IF restart THEN "start" ELSE "commit") /\ UNCHANGED faulty
       \/ Fails /\ Step("revert")
    /\ UNCHANGED <<disk, env, journal, proc, fence, restart>>

(* The new release starts, or does not become READY; its process may then  *)
(* be left for the rollback to stop.                                       *)
StartNew ==
    /\ pc = "start"
    /\ \/ proc' = disk.live /\ Step("ready")
       \/ proc' \in {disk.live, None} /\ Step("revert")
    /\ UNCHANGED <<disk, env, config, journal, fence, restart, faulty>>

MarkReady ==
    /\ pc = "ready"
    /\ \/ journal' = "ready" /\ Step("commit")
          /\ UNCHANGED <<disk, env, config, proc, fence, restart, faulty>>
       \/ Raises("revert")

(* Bound: mark("committed") of a journal that is "ready" does not raise. *)
MarkCommitted ==
    /\ pc = "commit"
    /\ \/ journal' = "committed" /\ Step("clear")
          /\ UNCHANGED <<disk, env, config, proc, fence, restart, faulty>>
       \/ journal # "ready" /\ Raises("revert")

ClearJournal ==
    /\ pc = "clear"
    /\ journal' = None /\ disk' = [disk EXCEPT !.stage = None] /\ Step("idle")
    /\ UNCHANGED <<env, config, proc, fence, restart, faulty>>

\* Mutant: the rollback believes the stop and does not look for the process.
RevertUnproved ==
    /\ pc = "revert" /\ Step("restorePrev") /\ proc' \in {proc, None}
    /\ UNCHANGED <<disk, env, config, journal, fence, restart, faulty>>

(* The rollback of a release that was published but did not come up: its   *)
(* process is proved gone before a file is touched.                        *)
Revert ==
    /\ pc = "revert"
    /\ \/ proc' = None /\ Step("restorePrev")
          /\ UNCHANGED <<disk, env, config, journal, fence, restart, faulty>>
       \/ proc # None /\ Raises("giveUp")

RevertFiles ==
    /\ pc = "restorePrev"
    /\ Perform(IF plan.installed THEN RestorePrev(disk, env) ELSE RollbackFiles(disk, env),
               "restoreState", "giveUp")

RestoreState ==
    /\ pc = "restoreState"
    /\ \/ /\ config' = "old" /\ fence' = FALSE /\ Step(IF restart THEN "startOld" ELSE "clear")
          /\ UNCHANGED <<disk, env, journal, proc, restart, faulty>>
       \/ Raises("giveUp")

StartOld ==
    /\ pc = "startOld"
    /\ \/ proc' = disk.live /\ Step("clear")
       \/ proc' = None /\ Step("giveUp")
    /\ UNCHANGED <<disk, env, config, journal, fence, restart, faulty>>

(* The rollback is incomplete: the application is fenced off and the       *)
(* journal kept for the next boot.                                         *)
GiveUp ==
    /\ pc = "giveUp"
    /\ fence' = TRUE /\ disk' = [disk EXCEPT !.stage = None] /\ Step("idle")
    /\ UNCHANGED <<env, config, journal, proc, restart, faulty>>

-----------------------------------------------------------------------------
(* Boot: _reconcile_install_transaction, then reconcile_interrupted_installs.*)
(* A recovery that raises ends the daemon, and its service starts it again.*)

BootLoad ==
    /\ pc = "down"
    /\ \/ journal = None /\ Step("sweep") /\ UNCHANGED journal
       \/ journal = "open" /\ Step("bootStop") /\ UNCHANGED journal
       \/ /\ journal \in {"ready", "committed"}
          /\ disk.live = "new" /\ Target \in {None, env.cur}
          /\ journal' = None /\ Step("sweep")
    /\ UNCHANGED <<disk, env, config, proc, fence, restart, faulty>>

BootStop ==
    /\ pc = "bootStop"
    /\ \/ /\ proc' = None /\ fence' = FALSE /\ Step("bootFiles")
          /\ UNCHANGED <<disk, env, config, journal, restart, faulty>>
       \/ proc # None /\ Raises("down")

BootFiles == pc = "bootFiles" /\ Perform(RollbackFiles(disk, env), "bootState", "down")

BootState ==
    /\ pc = "bootState"
    /\ \/ /\ config' = "old" /\ fence' = FALSE /\ Step("bootClear")
          /\ UNCHANGED <<disk, env, journal, proc, restart, faulty>>
       \/ Raises("down")

BootClear ==
    /\ pc = "bootClear"
    /\ journal' = None /\ Step("sweep")
    /\ UNCHANGED <<disk, env, config, proc, fence, restart, faulty>>

(* Staging and failed copies go; a retained release with no live one       *)
(* returns.                                                                *)
BootSweep ==
    /\ pc = "sweep"
    /\ disk' = LET clean == [disk EXCEPT !.stage = None, !.failed = None]
               IN  IF clean.live # None \/ clean.prev = None THEN clean
                   ELSE [clean EXCEPT !.live = clean.prev, !.prev = None]
    /\ Step("idle")
    /\ UNCHANGED <<env, config, journal, proc, fence, restart, faulty>>

-----------------------------------------------------------------------------
(* The coordinator between two operations: the application is launched,    *)
(* ends, and a teardown that stayed incomplete is retried.                 *)

Launch ==
    /\ pc \in AtRest /\ ~fence /\ proc = None /\ disk.live # None
    /\ proc' = disk.live
    /\ UNCHANGED <<plan, disk, env, config, journal, fence, restart, pc, faulty, cuts>>

Ends ==
    /\ pc \in AtRest /\ proc # None /\ proc' = None
    /\ UNCHANGED <<plan, disk, env, config, journal, fence, restart, pc, faulty, cuts>>

RetryTeardown ==
    /\ pc \in AtRest /\ fence /\ fence' = FALSE /\ proc' = None
    /\ UNCHANGED <<plan, disk, env, config, journal, restart, pc, faulty, cuts>>

-----------------------------------------------------------------------------
Install ==
    \/ Begin \/ StopOld \/ MarkStopped \/ MoveOld \/ MoveNew \/ Activate \/ SwitchCurrent
    \/ UndoPublish \/ Recover \/ Configure \/ StartNew \/ MarkReady \/ MarkCommitted
    \/ ClearJournal \/ Revert \/ RevertFiles \/ RestoreState \/ StartOld \/ GiveUp

Boot == BootLoad \/ BootStop \/ BootFiles \/ BootState \/ BootClear \/ BootSweep

Next == Install \/ Boot \/ Die \/ Launch \/ Ends \/ RetryTeardown

Spec == Init /\ [][Next]_vars

(* The service manager starts the daemon again, and a boot runs on. *)
FairSpec == Spec /\ WF_vars(Boot)

-----------------------------------------------------------------------------
(* Properties. *)

(* The one torn pair that is ever left standing: the old code is back, the *)
(* environment did not follow, and the copy that was moved out is there.   *)
HalfRestored ==
    /\ journal = "open" /\ faulty
    /\ disk.live = "old" /\ disk.failed = "new" /\ env.cur = Target

(* Every process runs the directory that is live and the environment its   *)
(* release lock names: no rename, no environment switch and no recovery    *)
(* takes place under a process, and the new release never runs without its *)
(* own environment.  The old one may run in the new environment, after a   *)
(* restore whose environment half raised (installer.py:1011-1033) and only *)
(* until the next boot (server.py:1769-1805, 1598-1614, 4840-4856).        *)
RunsItsPair ==
    proc # None =>
        /\ disk.live = proc
        /\ LockOf(proc) \in {None, env.cur} \/ HalfRestored

(* The release in force.  While the journal is open it is the old one: it  *)
(* is what the recovery is bound to return to.                             *)
Whole(gen) ==
    /\ disk.live = IF gen = "old" /\ ~plan.installed THEN None ELSE gen
    /\ env.cur = IF gen = "old" \/ Target = None THEN Expected ELSE Target
    /\ config = gen

Release ==
    IF journal = "open" THEN "old"
    ELSE IF Whole("old") THEN "old"
    ELSE IF Whole("new") THEN "new"
    ELSE "torn"

Abstract == INSTANCE ReleaseSwitch WITH release <- Release

(* An installation is atomic: code, environment and configuration become   *)
(* the new release together or stay the old one, through every failure,    *)
(* rollback and restart (installer.py:1060-1194, server.py:1656-1965).     *)
ImplementsSwitch == Abstract!Spec

(* A daemon that has died comes back to work with no transaction left      *)
(* open: no mixture of directories and records makes the recovery refuse   *)
(* for ever (server.py:4823-4871, 5410-5436).                              *)
RecoveryEnds == pc = "down" ~> pc = "idle" /\ journal = None

(* A failed activation never takes the environment to a generation that is *)
(* neither the installed nor the new one: "consuming it while current      *)
(* still equals the installed release would incorrectly jump back another  *)
(* generation" (installer.py:1143-1147).                                   *)
NoJumpBack == env.cur \in {Expected, Target}
=============================================================================
