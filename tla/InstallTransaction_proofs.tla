---------------------- MODULE InstallTransaction_proofs ----------------------
(***************************************************************************)
(* InstallTransaction for any number of deaths of the daemon, over every   *)
(* history: an installation is atomic and no process runs a torn pair.     *)
(* The inductive invariant says for each place of do_install and of the    *)
(* boot which halves of the release may be the new ones there; the         *)
(* recovery may start from every disk and environment any place leaves.    *)
(***************************************************************************)
EXTENDS InstallTransaction, TLAPS

-----------------------------------------------------------------------------
(* What the daemon has found and what a transaction may make of it. *)

Mine == Target # None /\ Target # Expected

(* The environment of a release is that of its lock; a candidate that is   *)
(* active already is the installed one and cannot fail before the switch.  *)
PlanInv ==
    /\ plan \in [installed : BOOLEAN, lock : [old : Generations, new : Generations],
                 env : {None, "old", "older"}, rec : Generations \X Generations]
    /\ plan.lock["old"] \in {None, plan.env}
    /\ plan.lock["new"] \in {None, "new"} \cup ({plan.env} \cap {"old"})
    /\ plan.lock["new"] = "old" => plan.lock["old"] = "old" /\ ~EarlyFailures
    /\ ~plan.installed => plan.env = None /\ plan.lock["old"] = None

Installed == IF plan.installed THEN "old" ELSE None

(* Every disk that a rename, a rollback or a death can leave behind. *)
DiskInv(d) ==
    /\ d \in [live : {None, "old", "new"}, prev : {None, "older", "old"},
              failed : {None, "new"}, stage : {None, "new"}]
    /\ plan.installed => \/ d.live = "old" /\ d.prev # "old"
                         \/ d.live \in {None, "new"} /\ d.prev = "old"
    /\ ~plan.installed => d.live # "old" /\ d.prev = None

(* Either environment; the new one can be taken back. *)
EnvInv(e) ==
    /\ e \in [cur : Generations, rec : Generations \X Generations]
    /\ \/ e.cur = Expected
       \/ Target # None /\ e = [cur |-> Target, rec |-> <<Target, Expected>>]

OldPair(d, e) == d.live = Installed /\ e.cur = Expected

NewPair(d, e) ==
    /\ d.live = "new"
    /\ IF Target = None THEN e.cur = Expected
       ELSE e = [cur |-> Target, rec |-> <<Target, Expected>>]

(* The old code is back, but not its environment: restore_prev has raised  *)
(* between the two.                                                        *)
TornPair(d, e) ==
    /\ plan.installed /\ Mine
    /\ d.live = "old" /\ d.failed = "new" /\ e.cur = Target

-----------------------------------------------------------------------------
(* Where do_install and the boot may stand with what. *)

OldState == OldPair(disk, env) /\ config = "old"
NewState == NewPair(disk, env) /\ config = "new"

(* A candidate that was active already may have lost its record, but has   *)
(* none that leads anywhere else.                                          *)
Undoable(e) ==
    Target = Expected /\ Target # None => e.rec \in {<<Target, Expected>>, NoRecord}

(* What may be launched when a rollback has been given up. *)
AnyPair ==
    \/ OldPair(disk, env)
    \/ NewPair(disk, env)
    \/ journal = "open" /\ faulty /\ TornPair(disk, env)

Place ==
    \/ pc = "before" /\ journal = None /\ OldState
    \/ pc = "stop" /\ journal = "open" /\ OldState
    \/ pc \in {"mark", "moveOld"} /\ journal = "open" /\ proc = None /\ OldState
    \/ /\ pc = "moveNew" /\ journal = "open" /\ proc = None
       /\ disk.live = None /\ env.cur = Expected /\ config = "old"
    \/ /\ pc = "activate" /\ journal = "open" /\ proc = None
       /\ disk.live = "new" /\ env.cur = Expected /\ config = "old"
    \/ /\ pc = "switch" /\ journal = "open" /\ proc = None /\ Target # None
       /\ disk.live = "new" /\ env = [cur |-> Expected, rec |-> <<Target, Expected>>]
       /\ config = "old"
    \/ /\ pc \in {"undo", "undoAgain"} /\ journal = "open" /\ proc = None /\ faulty
       /\ disk.live = "new" /\ Undoable(env) /\ config = "old"
    \/ pc = "recover" /\ journal = "open" /\ proc = None /\ faulty /\ config = "old"
    \/ /\ pc = "configure" /\ journal = "open" /\ proc = None
       /\ NewPair(disk, env) /\ config = "old"
    \/ pc = "start" /\ journal = "open" /\ proc = None /\ restart /\ NewState
    \/ pc = "ready" /\ journal = "open" /\ restart /\ NewState
    \/ pc = "commit" /\ journal \in {"open", "ready"} /\ NewState
    \/ pc = "clear" /\ journal = "committed" /\ NewState
    \/ pc = "clear" /\ journal = "open" /\ OldState
    \/ pc = "revert" /\ journal = "open" /\ NewState /\ (restart \/ faulty)
    \/ /\ pc = "restorePrev" /\ journal = "open" /\ proc = None /\ NewState
       /\ restart \/ faulty
    \/ pc = "restoreState" /\ journal = "open" /\ proc = None /\ OldPair(disk, env)
    \/ pc = "startOld" /\ journal = "open" /\ proc = None /\ OldState
    \/ pc \in {"giveUp", "idle"} /\ journal = "open" /\ AnyPair
    \/ pc \in {"idle", "sweep"} /\ journal = None /\ (OldState \/ NewState)
    \/ pc = "down" /\ journal = "open"
    \/ pc = "down" /\ journal = None /\ (OldState \/ NewState)
    \/ pc = "down" /\ journal \in {"ready", "committed"} /\ NewState
    \/ pc = "bootStop" /\ journal = "open"
    \/ pc = "bootFiles" /\ journal = "open" /\ proc = None
    \/ pc = "bootState" /\ journal = "open" /\ proc = None /\ OldPair(disk, env)
    \/ pc = "bootClear" /\ journal = "open" /\ proc = None /\ OldState

(* A process is of the live directory, and stands on a whole pair, or on   *)
(* the torn one while the journal is open.                                 *)
Running ==
    /\ proc # None => proc = disk.live /\ AnyPair
    /\ restart => plan.installed

IInv == TypeOK /\ PlanInv /\ DiskInv(disk) /\ EnvInv(env) /\ Place /\ Running

-----------------------------------------------------------------------------
(* The outcomes of the operations on files. *)

\* What the plans of all histories have in common: the names of the three
\* releases differ, and a candidate with an environment of its own is new.
LEMMA PlanFacts ==
    ASSUME PlanInv
    PROVE  /\ Target \in {None, "new", "old"} /\ Expected \in {None, "old", "older"}
           /\ None \notin {"older", "old", "new"}
           /\ Mine <=> Target = "new"
           /\ Target # None /\ ~Mine => Target = "old" /\ Expected = "old"
           /\ Target = "old" => plan.lock["old"] = "old" /\ Expected = "old" /\ ~EarlyFailures
           /\ plan.lock["old"] \in {None, Expected} /\ plan.installed \in BOOLEAN
           /\ ~plan.installed => Expected = None /\ plan.lock["old"] = None
BY InstallAssumption DEF PlanInv, Target, Expected, Mine, Generations

\* The record of this transaction's switch leads back to where it came from.
LEMMA RestoresMine ==
    ASSUME PlanInv, Mine, NEW r \in RestorePrevious([cur |-> Target, rec |-> <<Target, Expected>>])
    PROVE  /\ r.ok /\ r.env.cur = Expected /\ EnvInv(r.env)
           /\ r.env.rec \in {<<Target, Expected>>, NoRecord}
<1> DEFINE e == [cur |-> Target, rec |-> <<Target, Expected>>]
           back == [cur |-> Expected, rec |-> <<Target, Expected>>]
<1>1. Target # None /\ Target # Expected
  BY DEF Mine
<1>2. e.rec # NoRecord /\ e.cur # e.rec[2] /\ e.cur = e.rec[1]
  BY <1>1 DEF NoRecord
<1>3. [e EXCEPT !.cur = e.rec[2]] = back
  OBVIOUS
<1>4. r \in {[env |-> x, ok |-> TRUE] : x \in {back, [back EXCEPT !.rec = NoRecord]}}
  BY <1>2, <1>3 DEF RestorePrevious
<1>5. \/ r = [env |-> back, ok |-> TRUE]
      \/ r = [env |-> [cur |-> Expected, rec |-> NoRecord], ok |-> TRUE]
  BY <1>4
<1>6. Expected \in Generations /\ Target \in Generations /\ None \in Generations
  BY PlanFacts DEF Generations
<1>7. QED
  BY <1>5, <1>6 DEF EnvInv, NoRecord

\* The record of a candidate that was active already leads to itself.
LEMMA RestoresSame ==
    ASSUME PlanInv, Target # None, Target = Expected, NEW e, EnvInv(e), Undoable(e),
           NEW r \in RestorePrevious(e)
    PROVE  r.ok /\ r.env.cur = Expected /\ EnvInv(r.env) /\ Undoable(r.env)
<1>1. e \in [cur : Generations, rec : Generations \X Generations] /\ e.cur = Expected
  BY DEF EnvInv
<1>2. e.rec = NoRecord \/ e.rec = <<Target, Expected>>
  BY DEF Undoable
<1>3. r = [env |-> e, ok |-> TRUE] \/ r = [env |-> [e EXCEPT !.rec = NoRecord], ok |-> TRUE]
  BY <1>1, <1>2 DEF RestorePrevious
<1>4. NoRecord \in Generations \X Generations
  BY DEF NoRecord, Generations
<1>5. QED
  BY <1>1, <1>3, <1>4 DEF EnvInv, Undoable

\* Reconciling always returns to the environment before the transaction.
LEMMA Reconciles ==
    ASSUME PlanInv, NEW e, EnvInv(e), NEW r \in ReconcileEnvironment(e)
    PROVE  r.ok /\ r.env.cur = Expected /\ EnvInv(r.env)
<1>1. CASE Mine /\ e.cur = Target
  <2>1. e = [cur |-> Target, rec |-> <<Target, Expected>>]
    BY <1>1 DEF Mine, EnvInv
  <2>2. PICK q \in RestorePrevious(e) : r = [q EXCEPT !.ok = q.ok /\ q.env.cur = Expected]
    BY <1>1 DEF ReconcileEnvironment, Mine
  <2>3. q.ok /\ q.env.cur = Expected /\ EnvInv(q.env)
    BY <1>1, <2>1, <2>2, RestoresMine
  <2>4. \E x : q = [env |-> x, ok |-> TRUE] \/ q = [env |-> x, ok |-> FALSE]
    BY <2>2 DEF RestorePrevious
  <2>5. QED
    BY <2>2, <2>3, <2>4
<1>2. CASE ~(Mine /\ e.cur = Target)
  <2>1. e.cur = Expected
    BY <1>2 DEF Mine, EnvInv
  <2>2. r = [[env |-> e, ok |-> TRUE] EXCEPT !.ok = TRUE /\ e.cur = Expected]
    BY <1>2 DEF ReconcileEnvironment, Mine
  <2>3. QED
    BY <2>1, <2>2
<1>3. QED
  BY <1>1, <1>2

\* What an operation may leave behind, however it ends.
Outcome(o) ==
    /\ DiskInv(o.disk) /\ EnvInv(o.env)
    /\ o.how \in {"ok", "refused", "failed", "cut"}

\* The recovery accepts every disk and environment a transaction leaves, at
\* each of its renames, and ends with the old release or leaves work that
\* the next recovery accepts.
LEMMA FilesRollBack ==
    ASSUME PlanInv, NEW d, DiskInv(d), NEW e, EnvInv(e), NEW o \in RollbackFiles(d, e)
    PROVE  /\ Outcome(o) /\ o.how # "refused"
           /\ o.how = "ok" => OldPair(o.disk, o.env)
<1> DEFINE Goal == /\ Outcome(o) /\ o.how # "refused"
                   /\ o.how = "ok" => OldPair(o.disk, o.env)
<1>1. /\ None \notin {"older", "old", "new"} /\ plan.installed \in BOOLEAN
      /\ d \in [live : {None, "old", "new"}, prev : {None, "older", "old"},
                failed : {None, "new"}, stage : {None, "new"}]
  BY PlanFacts DEF DiskInv
<1>2. ASSUME ~plan.installed
      PROVE  Goal
  <2>1. PICK r \in ReconcileEnvironment(e) :
            o \in {Out(d, e, "failed"), Out(d, r.env, "failed"), Out(d, r.env, "cut"),
                   IF r.ok THEN Out([d EXCEPT !.live = None], r.env, "ok")
                           ELSE Out(d, r.env, "refused")}
    BY <1>2 DEF RollbackFiles, RollbackFresh
  <2>2. r.ok /\ r.env.cur = Expected /\ EnvInv(r.env)
    BY Reconciles
  <2>3. o \in {Out(d, e, "failed"), Out(d, r.env, "failed"), Out(d, r.env, "cut"),
               Out([d EXCEPT !.live = None], r.env, "ok")}
    BY <2>1, <2>2
  <2>4. DiskInv([d EXCEPT !.live = None])
    BY <1>1, <1>2 DEF DiskInv
  <2>5. QED
    BY <1>1, <1>2, <2>2, <2>3, <2>4 DEF Out, Outcome, OldPair, Installed
<1>3. ASSUME plan.installed, d.live = "old"
      PROVE  Goal
  <2>1. PICK r \in ReconcileEnvironment(e) :
            o \in {Out(d, e, "failed"), Out(d, r.env, "failed"), Out(d, r.env, "cut"),
                   IF r.ok THEN Out([d EXCEPT !.failed = None], r.env, "ok")
                           ELSE Out(d, r.env, "refused")}
    <3>1. RollbackFiles(d, e) = RollbackUntouched(d, e)
      BY <1>1, <1>3 DEF RollbackFiles
    <3>2. QED
      BY <3>1 DEF RollbackUntouched
  <2>2. r.ok /\ r.env.cur = Expected /\ EnvInv(r.env)
    BY Reconciles
  <2>3. o \in {Out(d, e, "failed"), Out(d, r.env, "failed"), Out(d, r.env, "cut"),
               Out([d EXCEPT !.failed = None], r.env, "ok")}
    BY <2>1, <2>2
  <2>4. DiskInv([d EXCEPT !.failed = None])
    BY <1>1, <1>3 DEF DiskInv
  <2>5. QED
    BY <1>1, <1>3, <2>2, <2>3, <2>4 DEF Out, Outcome, OldPair, Installed
<1>4. ASSUME plan.installed, d.live = None
      PROVE  Goal
  <2> DEFINE back == [d EXCEPT !.live = "old", !.prev = None]
  <2>1. d.prev = "old"
    BY <1>1, <1>4 DEF DiskInv
  <2>2. PICK r \in ReconcileEnvironment(e) :
            o \in {Out(d, e, "failed"), Out(d, r.env, "failed"), Out(d, r.env, "cut")}
                  \cup IF r.ok
                       THEN {Out(back, r.env, "failed"), Out(back, r.env, "cut"),
                             Out([back EXCEPT !.failed = None], r.env, "ok")}
                       ELSE {Out(d, r.env, "refused")}
    BY <1>1, <1>4, <2>1 DEF RollbackFiles, RollbackMovedAway
  <2>3. r.ok /\ r.env.cur = Expected /\ EnvInv(r.env)
    BY Reconciles
  <2>4. o \in {Out(d, e, "failed"), Out(d, r.env, "failed"), Out(d, r.env, "cut"),
               Out(back, r.env, "failed"), Out(back, r.env, "cut"), Out([back EXCEPT !.failed = None], r.env, "ok")}
    BY <2>2, <2>3
  <2>5. DiskInv(back) /\ DiskInv([back EXCEPT !.failed = None])
    BY <1>1, <1>4 DEF DiskInv
  <2>6. [back EXCEPT !.failed = None].live = Installed
    BY <1>1, <1>4 DEF Installed
  <2> HIDE DEF back
  <2>7. /\ o.env \in {e, r.env} /\ o.disk \in {d, back, [back EXCEPT !.failed = None]}
        /\ o.how \in {"failed", "cut", "ok"}
        /\ o.how = "ok" => o.disk = [back EXCEPT !.failed = None] /\ o.env = r.env
    BY <2>4 DEF Out
  <2>8. QED
    BY <2>3, <2>5, <2>6, <2>7 DEF Outcome, OldPair
<1>5. ASSUME plan.installed, d.live = "new"
      PROVE  Goal
  <2> DEFINE swapped == [d EXCEPT !.live = "old", !.prev = None, !.failed = d.live]
             tried == Mine /\ e.cur = Target
             restored == IF tried THEN RestorePrevious(e) ELSE {[env |-> e, ok |-> TRUE]}
             started == {Out(d, e, "failed"), Out(Aside(d), e, "cut"), Out(swapped, e, "cut")}
             ended(r) == IF ~r.ok THEN {Out(d, e, "refused")}
                         ELSE {Out(swapped, r.env, "cut"),
                               Out(swapped, r.env, IF tried THEN "failed" ELSE "cut"),
                               IF tried /\ r.env.cur # Expected
                               THEN Out(swapped, r.env, "refused")
                               ELSE Out([swapped EXCEPT !.failed = None], r.env, "ok")}
  <2>1. d.prev = "old" /\ ~(Mine /\ e.cur \notin {Target, Expected})
    BY <1>1, <1>5 DEF DiskInv, EnvInv
  <2>2. o \in started \/ \E r \in restored : o \in ended(r)
    BY <1>1, <1>5, <2>1 DEF RollbackFiles, RollbackPublished, Mine
  <2>3. \A r \in restored : r.ok /\ r.env.cur = Expected /\ EnvInv(r.env)
    <3>1. CASE tried
      <4>1. e = [cur |-> Target, rec |-> <<Target, Expected>>]
        BY <3>1 DEF Mine, EnvInv
      <4>2. QED
        BY <3>1, <4>1, RestoresMine
    <3>2. CASE ~tried
      BY <3>2 DEF EnvInv, Mine
    <3>3. QED
      BY <3>1, <3>2
  <2>4. \/ o \in started
        \/ \E r \in restored :
              /\ EnvInv(r.env) /\ r.env.cur = Expected
              /\ o \in {Out(swapped, r.env, "cut"), Out(swapped, r.env, "failed"),
                        Out([swapped EXCEPT !.failed = None], r.env, "ok")}
    BY <2>2, <2>3
  <2>5. DiskInv(swapped) /\ DiskInv([swapped EXCEPT !.failed = None]) /\ DiskInv(Aside(d))
    BY <1>1, <1>5, <2>1 DEF DiskInv, Aside
  <2>6. [swapped EXCEPT !.failed = None].live = Installed
    BY <1>1, <1>5 DEF Installed
  <2> HIDE DEF swapped, restored
  <2>7. /\ EnvInv(o.env) /\ o.how \in {"failed", "cut", "ok"}
        /\ o.disk \in {d, Aside(d), swapped, [swapped EXCEPT !.failed = None]}
        /\ o.how = "ok" => o.disk = [swapped EXCEPT !.failed = None] /\ o.env.cur = Expected
    BY <2>4 DEF Out
  <2>8. QED
    BY <2>5, <2>6, <2>7 DEF Outcome, OldPair
<1>6. QED
  BY <1>1, <1>2, <1>3, <1>4, <1>5

\* Swapping back a release that was published with its environment.
LEMMA PrevRestored ==
    ASSUME PlanInv, plan.installed, NEW d, DiskInv(d), NEW e, EnvInv(e), NewPair(d, e),
           NEW o \in RestorePrev(d, e)
    PROVE  /\ Outcome(o) /\ o.how # "refused"
           /\ o.how = "ok" => OldPair(o.disk, o.env)
           /\ o.how = "failed" => \/ OldPair(o.disk, o.env) \/ NewPair(o.disk, o.env)
                                 \/ TornPair(o.disk, o.env)
<1> DEFINE swapped == [d EXCEPT !.live = d.prev, !.prev = None, !.failed = d.live]
           followed == IF Target = None THEN {[env |-> e, ok |-> TRUE]}
                       ELSE {[r EXCEPT !.ok = /\ r.ok
                                              /\ ~(r.env.cur = Target /\ plan.lock["old"] # Target)
                                              /\ plan.lock["old"] \in {None, r.env.cur}] :
                               r \in RestorePrevious(e)}
           unfollowed == IF Target = None THEN {} ELSE {e} \cup {r.env : r \in followed}
           started == {Out(d, e, "failed"), Out(Aside(d), e, "cut"), Out(swapped, e, "cut")}
           ended(r) == IF r.ok
                       THEN {Out(swapped, r.env, "cut"),
                             Out([swapped EXCEPT !.failed = None], r.env, "ok")}
                       ELSE {Out(swapped, r.env, "cut"), Out(Aside(d), r.env, "cut"),
                             Out(d, r.env, "refused")}
<1>1. /\ None \notin {"older", "old", "new"} /\ d.live = "new" /\ d.prev = "old"
      /\ d \in [live : {None, "old", "new"}, prev : {None, "older", "old"},
                failed : {None, "new"}, stage : {None, "new"}]
  BY PlanFacts DEF DiskInv, NewPair
<1>2. \/ o \in started
      \/ \E x \in unfollowed : o = Out(swapped, x, "failed")
      \/ \E r \in followed : o \in ended(r)
  BY <1>1 DEF RestorePrev
<1>3. ASSUME NEW r \in followed
      PROVE  r.ok /\ r.env.cur = Expected /\ EnvInv(r.env)
  <2>1. CASE Target = None
    BY <2>1 DEF NewPair
  <2>2. CASE Target # None
    <3>1. e = [cur |-> Target, rec |-> <<Target, Expected>>]
      BY <2>2 DEF NewPair
    <3>2. PICK q \in RestorePrevious(e) :
              r = [q EXCEPT !.ok = /\ q.ok
                                   /\ ~(q.env.cur = Target /\ plan.lock["old"] # Target)
                                   /\ plan.lock["old"] \in {None, q.env.cur}]
      BY <2>2
    <3>3. q.ok /\ q.env.cur = Expected /\ EnvInv(q.env)
      <4>1. CASE Mine
        BY <3>1, <3>2, <4>1, RestoresMine
      <4>2. CASE ~Mine
        <5>1. Target = Expected /\ Undoable(e)
          BY <2>2, <3>1, <4>2 DEF Mine, Undoable
        <5>2. QED
          BY <2>2, <3>2, <5>1, RestoresSame
      <4>3. QED
        BY <4>1, <4>2
    <3>4. plan.lock["old"] \in {None, Expected} /\ ~(Expected = Target /\ plan.lock["old"] # Target)
      BY <2>2, PlanFacts DEF Mine
    <3>5. \E x : q = [env |-> x, ok |-> TRUE] \/ q = [env |-> x, ok |-> FALSE]
      BY <3>2 DEF RestorePrevious
    <3>6. QED
      BY <3>2, <3>3, <3>4, <3>5
  <2>3. QED
    BY <2>1, <2>2
<1>4. \/ o \in started
      \/ \E x \in unfollowed : o = Out(swapped, x, "failed")
      \/ \E r \in followed :
            /\ r.env.cur = Expected /\ EnvInv(r.env)
            /\ o \in {Out(swapped, r.env, "cut"),
                      Out([swapped EXCEPT !.failed = None], r.env, "ok")}
  BY <1>2, <1>3
<1>5. \A x \in unfollowed : EnvInv(x) /\ (x.cur = Expected \/ (Mine /\ x.cur = Target))
  BY <1>3 DEF NewPair, Mine, EnvInv
<1>6. DiskInv(swapped) /\ DiskInv([swapped EXCEPT !.failed = None]) /\ DiskInv(Aside(d))
  BY <1>1 DEF DiskInv, Aside
<1>7. /\ [swapped EXCEPT !.failed = None].live = Installed
      /\ swapped.live = "old" /\ swapped.live = Installed /\ swapped.failed = "new"
  BY <1>1 DEF Installed
<1> HIDE DEF swapped, followed, unfollowed
<1>8. CASE o \in started
  BY <1>6, <1>8 DEF Out, Outcome
<1>9. CASE \E x \in unfollowed : o = Out(swapped, x, "failed")
  BY <1>5, <1>6, <1>7, <1>9 DEF Out, Outcome, OldPair, TornPair
<1>10. CASE \E r \in followed :
            /\ r.env.cur = Expected /\ EnvInv(r.env)
            /\ o \in {Out(swapped, r.env, "cut"),
                      Out([swapped EXCEPT !.failed = None], r.env, "ok")}
  <2>1. PICK r \in followed :
            /\ r.env.cur = Expected /\ EnvInv(r.env)
            /\ o \in {Out(swapped, r.env, "cut"),
                      Out([swapped EXCEPT !.failed = None], r.env, "ok")}
    BY <1>10
  <2>2. /\ o.env = r.env /\ o.how \in {"cut", "ok"}
        /\ o.disk \in {swapped, [swapped EXCEPT !.failed = None]}
        /\ o.how = "ok" => o.disk = [swapped EXCEPT !.failed = None]
    BY <2>1 DEF Out
  <2>3. QED
    BY <1>6, <1>7, <2>1, <2>2 DEF Outcome, OldPair
<1>11. QED
  BY <1>4, <1>8, <1>9, <1>10

\* commit_prepared's own undo: it takes the publication back, or leaves it
\* where it is.
LEMMA Undone ==
    ASSUME PlanInv, NEW d, DiskInv(d), d.live = "new", NEW e, EnvInv(e), Undoable(e),
           NEW o \in Undo(d, e)
    PROVE  /\ Outcome(o)
           /\ o.how \in {"refused", "failed"} => o.disk = d /\ Undoable(o.env)
<1>1. /\ None \notin {"older", "old", "new"} /\ plan.installed \in BOOLEAN
      /\ d \in [live : {None, "old", "new"}, prev : {None, "older", "old"},
                failed : {None, "new"}, stage : {None, "new"}]
  BY PlanFacts DEF DiskInv
<1>2. PICK r \in RollbackCandidate(e) :
          o \in IF r.ok
                THEN {Out(CodeRestored(d), r.env, "ok"), Out(d, r.env, "failed"),
                      Out(d, r.env, "cut"), Out(Aside(d), r.env, "cut")}
                ELSE {Out(d, r.env, "refused")}
  BY DEF Undo
<1>3. EnvInv(r.env) /\ Undoable(r.env)
  <2>1. CASE Target = None \/ e.cur # Target
    BY <1>2, <2>1 DEF RollbackCandidate
  <2>2. CASE Target # None /\ e.cur = Target
    <3>1. PICK q \in RestorePrevious(e) : r = [q EXCEPT !.ok = q.ok /\ q.env.cur # Target]
      BY <1>2, <2>2 DEF RollbackCandidate
    <3>2. \E x : q = [env |-> x, ok |-> TRUE] \/ q = [env |-> x, ok |-> FALSE]
      BY <3>1 DEF RestorePrevious
    <3>3. r.env = q.env
      BY <3>1, <3>2
    <3>4. CASE Mine
      <4>1. e = [cur |-> Target, rec |-> <<Target, Expected>>]
        BY <2>2, <3>4 DEF EnvInv, Mine
      <4>2. EnvInv(q.env)
        BY <3>1, <3>4, <4>1, RestoresMine
      <4>3. QED
        BY <3>3, <3>4, <4>2 DEF Mine, Undoable
    <3>5. CASE ~Mine
      <4>1. Target = Expected
        BY <2>2, <3>5 DEF Mine
      <4>2. QED
        BY <2>2, <3>1, <3>3, <4>1, RestoresSame
    <3>6. QED
      BY <3>4, <3>5
  <2>3. QED
    BY <2>1, <2>2
<1>4. DiskInv(CodeRestored(d)) /\ DiskInv(Aside(d))
  BY <1>1 DEF DiskInv, CodeRestored, Aside
<1>5. QED
  BY <1>2, <1>3, <1>4 DEF Out, Outcome

-----------------------------------------------------------------------------
(* What many steps share. *)

(* The parts of the invariant that speak of no place. *)
Frame ==
    /\ PlanInv /\ DiskInv(disk) /\ EnvInv(env)
    /\ config \in {"old", "new"} /\ fence \in BOOLEAN /\ restart \in BOOLEAN
    /\ faulty \in BOOLEAN /\ cuts \in 0 .. MaxCuts

\* The invariant is what stands everywhere and what stands at this place.
LEMMA Parts == IInv <=> /\ Frame /\ Place /\ Running
                        /\ journal \in {None, "open", "ready", "committed"}
                        /\ proc \in {"old", "new", None}
                        /\ pc \in AtRest \cup Working \cup Booting
<1>1. DiskInv(disk) =>
         disk \in [live : Generations, prev : Generations, failed : Generations, stage : {"new", None}]
  BY DEF DiskInv, Generations
<1>2. EnvInv(env) => env.cur \in Generations /\ env.rec \in Generations \X Generations
  BY DEF EnvInv
<1>3. QED
  BY <1>1, <1>2 DEF IInv, TypeOK, Frame

\* The plan stays, and with it what the names of the environments mean.
LEMMA SamePlan ==
    ASSUME plan' = plan
    PROVE  /\ PlanInv' <=> PlanInv
           /\ Target' = Target /\ Expected' = Expected /\ Installed' = Installed
           /\ DiskInv(disk)' <=> DiskInv(disk')
           /\ EnvInv(env)' <=> EnvInv(env')
           /\ OldPair(disk, env)' <=> OldPair(disk', env')
           /\ NewPair(disk, env)' <=> NewPair(disk', env')
           /\ TornPair(disk, env)' <=> TornPair(disk', env')
           /\ Undoable(env)' <=> Undoable(env')
BY DEF PlanInv, Target, Expected, Installed, DiskInv, EnvInv, OldPair, NewPair, TornPair, Mine,
       Undoable

\* A step that performs an operation on files without a process running:
\* it goes on, goes the bad way, or the daemon dies in the middle.
LEMMA Performed ==
    ASSUME IInv, journal = "open", proc = None,
           NEW outcomes, NEW next, NEW bad, Perform(outcomes, next, bad),
           \A o \in outcomes : Outcome(o)
    PROVE  /\ Frame' /\ Running' /\ journal' = "open" /\ proc' = None
           /\ plan' = plan /\ config' = config /\ restart' = restart
           /\ \E o \in outcomes :
                 /\ disk' = o.disk /\ env' = o.env
                 /\ \/ o.how = "ok" /\ pc' = next /\ faulty' = faulty
                    \/ o.how = "refused" /\ pc' = bad /\ faulty' = faulty
                    \/ o.how = "failed" /\ pc' = bad /\ ~faulty /\ faulty'
                    \/ o.how = "cut" /\ pc' = "down" /\ faulty' = faulty
<1>1. PICK o \in outcomes :
         /\ disk' = o.disk /\ env' = o.env
         /\ \/ o.how = "ok" /\ pc' = next /\ UNCHANGED <<proc, faulty, cuts>>
            \/ o.how = "refused" /\ pc' = bad /\ UNCHANGED <<proc, faulty, cuts>>
            \/ o.how = "failed" /\ Fails /\ pc' = bad /\ UNCHANGED <<proc, cuts>>
            \/ o.how = "cut" /\ Dies /\ UNCHANGED faulty
         /\ UNCHANGED <<plan, config, journal, fence, restart>>
  BY DEF Perform
<1>2. /\ proc' = None /\ journal' = "open"
      /\ \/ o.how = "ok" /\ pc' = next /\ faulty' = faulty
         \/ o.how = "refused" /\ pc' = bad /\ faulty' = faulty
         \/ o.how = "failed" /\ pc' = bad /\ ~faulty /\ faulty'
         \/ o.how = "cut" /\ pc' = "down" /\ faulty' = faulty
  BY <1>1 DEF Fails, Dies
<1>3. cuts' \in 0 .. MaxCuts /\ faulty' \in BOOLEAN
  <2>1. cuts \in 0 .. MaxCuts /\ MaxCuts \in Nat
    BY InstallAssumption DEF IInv, TypeOK
  <2>2. cuts' = cuts \/ (cuts < MaxCuts /\ cuts' = cuts + 1)
    BY <1>1 DEF Dies
  <2>3. cuts' \in 0 .. MaxCuts
    BY <2>1, <2>2
  <2>4. faulty \in BOOLEAN
    BY DEF IInv, TypeOK
  <2>5. faulty' = faulty \/ faulty' = TRUE
    BY <1>1 DEF Fails
  <2>6. QED
    BY <2>3, <2>4, <2>5
<1>4. DiskInv(disk') /\ EnvInv(env')
  BY <1>1 DEF Outcome
<1>5. Frame'
  BY <1>1, <1>3, <1>4, SamePlan, Parts DEF Frame
<1>6. Running'
  BY <1>1, <1>2 DEF IInv, Running, AnyPair
<1>7. QED
  BY <1>1, <1>2, <1>5, <1>6

\* The invariant of the next state from what is shown of it there.
LEMMA PartsNext ==
    ASSUME Frame', Running', Place'
    PROVE  IInv'
<1>1. journal' \in {None, "open", "ready", "committed"} /\ pc' \in AtRest \cup Working \cup Booting
  BY DEF Place, AtRest, Working, Booting
<1>2. proc' \in {"old", "new", None}
  BY DEF Frame, Running, AnyPair, DiskInv
<1>3. DiskInv(disk)' =>
         disk' \in [live : Generations, prev : Generations, failed : Generations, stage : {"new", None}]
  BY DEF DiskInv, Generations
<1>4. EnvInv(env)' => env'.cur \in Generations /\ env'.rec \in Generations \X Generations
  BY DEF EnvInv
<1>5. QED
  BY <1>1, <1>2, <1>3, <1>4 DEF IInv, TypeOK, Frame

\* A step of no operation on files: staging and failed copies may come and go.
LEMMA Stepped ==
    ASSUME IInv, plan' = plan, cuts' = cuts, fence' \in BOOLEAN, faulty' \in BOOLEAN,
           disk' \in {disk, [disk EXCEPT !.stage = "new"], [disk EXCEPT !.stage = None],
                      [disk EXCEPT !.stage = None, !.failed = None]},
           env' = env, config' \in {"old", "new"}, restart' \in BOOLEAN
    PROVE  /\ Frame' /\ disk'.live = disk.live
           /\ OldPair(disk, env)' <=> OldPair(disk, env)
           /\ NewPair(disk, env)' <=> NewPair(disk, env)
           /\ plan'.installed = plan.installed
           /\ disk'.failed = disk.failed => (TornPair(disk, env)' <=> TornPair(disk, env))
<1>1. DiskInv(disk) /\ EnvInv(env) /\ PlanInv /\ cuts \in 0 .. MaxCuts
  BY DEF IInv, TypeOK
<1>2. disk'.live = disk.live /\ DiskInv(disk')
  <2>1. disk \in [live : {None, "old", "new"}, prev : {None, "older", "old"},
                  failed : {None, "new"}, stage : {None, "new"}]
    BY <1>1 DEF DiskInv
  <2>2. /\ disk'.live = disk.live /\ disk'.prev = disk.prev
        /\ disk' \in [live : {None, "old", "new"}, prev : {None, "older", "old"},
                      failed : {None, "new"}, stage : {None, "new"}]
    BY <2>1
  <2>3. QED
    BY <1>1, <2>2 DEF DiskInv
<1>3. Frame'
  BY <1>1, <1>2, SamePlan DEF Frame
<1>4. QED
  BY <1>2, <1>3, SamePlan DEF OldPair, NewPair, TornPair

-----------------------------------------------------------------------------
(* The steps that rename and switch. *)

\* The old release moves away; a daemon that dies has the backup or the
\* live directory still.
LEMMA MoveOldKeeps == IInv /\ MoveOld => IInv'
<1> SUFFICES ASSUME IInv, MoveOld
             PROVE  IInv'
  OBVIOUS
<1> DEFINE bare == [disk EXCEPT !.prev = None]
           moved == [disk EXCEPT !.prev = disk.live, !.live = None]
           outcomes == IF disk.live = None THEN {Out(disk, env, "ok"), Out(disk, env, "failed")}
                       ELSE {Out(moved, env, "ok"), Out(disk, env, "failed"),
                             Out(bare, env, "failed"), Out(bare, env, "cut")}
<1>1. /\ journal = "open" /\ proc = None /\ disk.live = Installed /\ env.cur = Expected
      /\ config = "old"
  BY DEF MoveOld, IInv, Place, OldState, OldPair
<1>2. Perform(outcomes, "moveNew", "recover")
  BY DEF MoveOld
<1>3. DiskInv(disk) /\ EnvInv(env) /\ PlanInv
  BY DEF IInv
<1>4. disk.live # None => DiskInv(bare) /\ DiskInv(moved)
  <2>1. disk \in [live : {None, "old", "new"}, prev : {None, "older", "old"},
                  failed : {None, "new"}, stage : {None, "new"}]
    BY <1>3 DEF DiskInv
  <2>2. disk.live # None => plan.installed /\ disk.live = "old"
    BY <1>1 DEF Installed
  <2>3. QED
    BY <1>3, <2>1, <2>2, PlanFacts DEF DiskInv
<1>5. moved.live = None
  BY <1>3 DEF DiskInv
<1> HIDE DEF bare, moved
<1>6. \A o \in outcomes : /\ Outcome(o) /\ o.env = env /\ o.how \in {"ok", "failed", "cut"}
                          /\ o.how = "ok" => o.disk.live = None
  BY <1>3, <1>4, <1>5 DEF Out, Outcome
<1> HIDE DEF outcomes
<1>7. /\ Frame' /\ Running' /\ journal' = "open" /\ proc' = None /\ config' = "old"
      /\ plan' = plan
      /\ \/ pc' = "moveNew" /\ disk'.live = None /\ env' = env
         \/ pc' = "recover" /\ faulty'
         \/ pc' = "down"
  BY <1>1, <1>2, <1>6, Performed
<1>8. Place'
  BY <1>1, <1>7, SamePlan DEF Place
<1>9. QED
  BY <1>7, <1>8, PartsNext

\* The new release moves in, or the rename fails and the old one returns.
LEMMA MoveNewKeeps == IInv /\ MoveNew => IInv'
<1> SUFFICES ASSUME IInv, MoveNew
             PROVE  IInv'
  OBVIOUS
<1> DEFINE in == [disk EXCEPT !.live = "new", !.stage = None]
           out == [disk EXCEPT !.live = IF plan.installed THEN "old" ELSE None,
                               !.prev = IF plan.installed THEN None ELSE disk.prev]
           outcomes == {Out(in, env, "ok"), Out(out, env, "failed")}
<1>1. /\ journal = "open" /\ proc = None /\ disk.live = None /\ env.cur = Expected
      /\ config = "old"
  BY DEF MoveNew, IInv, Place
<1>2. Perform(outcomes, "activate", "recover")
  BY DEF MoveNew
<1>3. DiskInv(disk) /\ EnvInv(env) /\ PlanInv
  BY DEF IInv
<1>4. DiskInv(in) /\ DiskInv(out) /\ in.live = "new"
  BY <1>1, <1>3, PlanFacts DEF DiskInv
<1> HIDE DEF in, out
<1>5. \A o \in outcomes : /\ Outcome(o) /\ o.env = env /\ o.how \in {"ok", "failed"}
                          /\ o.how = "ok" => o.disk.live = "new"
  BY <1>3, <1>4 DEF Out, Outcome
<1> HIDE DEF outcomes
<1>6. /\ Frame' /\ Running' /\ journal' = "open" /\ proc' = None /\ config' = "old"
      /\ plan' = plan
      /\ \/ pc' = "activate" /\ disk'.live = "new" /\ env' = env
         \/ pc' = "recover" /\ faulty'
  BY <1>1, <1>2, <1>5, Performed
<1>7. Place'
  BY <1>1, <1>6, SamePlan DEF Place
<1>8. QED
  BY <1>6, <1>7, PartsNext

\* The pointer is switched after the record; a switch that fails early puts
\* the older record back, and never that of a candidate that was active.
LEMMA SwitchCurrentKeeps == IInv /\ SwitchCurrent => IInv'
<1> SUFFICES ASSUME IInv, SwitchCurrent
             PROVE  IInv'
  OBVIOUS
<1> DEFINE switched == [env EXCEPT !.cur = Target]
           unswitched == [env EXCEPT !.rec = plan.rec]
<1>1. /\ journal = "open" /\ proc = None /\ Target # None /\ disk.live = "new"
      /\ env = [cur |-> Expected, rec |-> <<Target, Expected>>] /\ config = "old"
  BY DEF SwitchCurrent, IInv, Place
<1>2. DiskInv(disk) /\ PlanInv
  BY DEF IInv
<1>3. Target \in Generations /\ Expected \in Generations /\ plan.rec \in Generations \X Generations
  BY <1>2, PlanFacts DEF PlanInv, Generations
<1>4. /\ switched = [cur |-> Target, rec |-> <<Target, Expected>>]
      /\ unswitched = [cur |-> Expected, rec |-> plan.rec]
  BY <1>1
<1>5. EnvInv(switched) /\ NewPair(disk, switched) /\ Undoable(switched)
  BY <1>1, <1>3, <1>4 DEF EnvInv, NewPair, Undoable
<1>6. EnvInv(unswitched)
  BY <1>3, <1>4 DEF EnvInv
<1>7. MayFailEarly => Undoable(unswitched)
  BY <1>1, <1>2, PlanFacts DEF MayFailEarly, Undoable, Mine
<1> HIDE DEF switched, unswitched
<1>8. CASE Perform({Out(disk, switched, "ok"), Out(disk, switched, "failed")}, "configure", "undo")
  <2> DEFINE outcomes == {Out(disk, switched, "ok"), Out(disk, switched, "failed")}
  <2>1. \A o \in outcomes : Outcome(o) /\ o.disk = disk /\ o.env = switched
                            /\ o.how \in {"ok", "failed"}
    BY <1>2, <1>5 DEF Out, Outcome
  <2>2. Perform(outcomes, "configure", "undo")
    BY <1>8
  <2> HIDE DEF outcomes
  <2>3. /\ Frame' /\ Running' /\ journal' = "open" /\ proc' = None /\ config' = "old"
        /\ plan' = plan /\ disk' = disk /\ env' = switched
        /\ pc' = "configure" \/ (pc' = "undo" /\ faulty')
    BY <1>1, <2>1, <2>2, Performed
  <2>4. Place'
    BY <1>1, <1>5, <2>3, SamePlan DEF Place
  <2>5. QED
    BY <2>3, <2>4, PartsNext
<1>9. CASE MayFailEarly /\ Perform({Out(disk, unswitched, "failed")}, "configure", "undo")
  <2> DEFINE outcomes == {Out(disk, unswitched, "failed")}
  <2>1. \A o \in outcomes : Outcome(o) /\ o.disk = disk /\ o.env = unswitched /\ o.how = "failed"
    BY <1>2, <1>6 DEF Out, Outcome
  <2>2. Perform(outcomes, "configure", "undo")
    BY <1>9
  <2> HIDE DEF outcomes
  <2>3. /\ Frame' /\ Running' /\ journal' = "open" /\ proc' = None /\ config' = "old"
        /\ plan' = plan /\ disk' = disk /\ env' = unswitched /\ pc' = "undo" /\ faulty'
    BY <1>1, <2>1, <2>2, Performed
  <2>4. Place'
    BY <1>1, <1>7, <1>9, <2>3, SamePlan DEF Place
  <2>5. QED
    BY <2>3, <2>4, PartsNext
<1>10. QED
  BY <1>8, <1>9 DEF SwitchCurrent, switched, unswitched

\* An undo that fails or refuses leaves the publication to the next one.
LEMMA UndoPublishKeeps == IInv /\ UndoPublish => IInv'
<1> SUFFICES ASSUME IInv, UndoPublish
             PROVE  IInv'
  OBVIOUS
<1>1. /\ journal = "open" /\ proc = None /\ faulty /\ disk.live = "new" /\ Undoable(env)
      /\ config = "old"
  BY DEF UndoPublish, IInv, Place
<1>2. PICK bad \in {"undoAgain", "recover"} : Perform(Undo(disk, env), "recover", bad)
  BY DEF UndoPublish
<1>3. \A o \in Undo(disk, env) :
         Outcome(o) /\ (o.how \in {"refused", "failed"} => o.disk = disk /\ Undoable(o.env))
  BY <1>1, Undone DEF IInv
<1>4. /\ Frame' /\ Running' /\ journal' = "open" /\ proc' = None /\ config' = "old"
      /\ plan' = plan
      /\ \E o \in Undo(disk, env) :
            /\ disk' = o.disk /\ env' = o.env
            /\ \/ o.how = "ok" /\ pc' = "recover" /\ faulty' = faulty
               \/ o.how = "refused" /\ pc' = bad /\ faulty' = faulty
               \/ o.how = "failed" /\ pc' = bad /\ ~faulty /\ faulty'
               \/ o.how = "cut" /\ pc' = "down" /\ faulty' = faulty
  BY <1>1, <1>2, <1>3, Performed
<1>5. /\ pc' = "down" \/ (pc' = "recover" /\ faulty')
         \/ (pc' = "undoAgain" /\ faulty' /\ disk' = disk /\ Undoable(env'))
  BY <1>1, <1>2, <1>3, <1>4
<1>6. Place'
  BY <1>1, <1>4, <1>5, SamePlan DEF Place
<1>7. QED
  BY <1>4, <1>6, PartsNext

\* The reconciliation of do_install and that of the boot.
LEMMA RecoverKeeps == IInv /\ (Recover \/ BootFiles) => IInv'
<1> SUFFICES ASSUME IInv, Recover \/ BootFiles
             PROVE  IInv'
  OBVIOUS
<1>1. journal = "open" /\ proc = None /\ config \in {"old", "new"} /\ (pc = "recover" => faulty)
  BY DEF Recover, BootFiles, IInv, Place, TypeOK
<1>2. \A o \in RollbackFiles(disk, env) :
         Outcome(o) /\ o.how # "refused" /\ (o.how = "ok" => OldPair(o.disk, o.env))
  BY FilesRollBack DEF IInv
<1>3. CASE Recover
  <2>1. /\ Frame' /\ Running' /\ journal' = "open" /\ proc' = None /\ plan' = plan
        /\ \/ pc' = "restoreState" /\ OldPair(disk', env')
           \/ pc' = "down"
    BY <1>1, <1>2, <1>3, Performed DEF Recover
  <2>2. Place'
    BY <2>1, SamePlan DEF Place
  <2>3. QED
    BY <2>1, <2>2, PartsNext
<1>4. CASE BootFiles
  <2>1. /\ Frame' /\ Running' /\ journal' = "open" /\ proc' = None /\ plan' = plan
        /\ \/ pc' = "bootState" /\ OldPair(disk', env')
           \/ pc' = "down"
    BY <1>1, <1>2, <1>4, Performed DEF BootFiles
  <2>2. Place'
    BY <2>1, SamePlan DEF Place
  <2>3. QED
    BY <2>1, <2>2, PartsNext
<1>5. QED
  BY <1>3, <1>4

\* The rollback of a release that did not come up: an operation that fails
\* has left a whole pair or the torn one, and nothing fails twice.
LEMMA RevertFilesKeeps == IInv /\ RevertFiles => IInv'
<1> SUFFICES ASSUME IInv, RevertFiles
             PROVE  IInv'
  OBVIOUS
<1>1. /\ journal = "open" /\ proc = None /\ NewPair(disk, env) /\ (restart \/ faulty)
  BY DEF RevertFiles, IInv, Place, NewState
<1>2. plan.installed \in BOOLEAN /\ (restart => plan.installed)
  BY PlanFacts DEF IInv, Running, AnyPair
<1>3. ASSUME plan.installed
      PROVE  /\ Frame' /\ Running' /\ journal' = "open" /\ proc' = None /\ plan' = plan
             /\ \/ pc' = "restoreState" /\ OldPair(disk', env')
                \/ pc' = "giveUp" /\ \/ OldPair(disk', env') \/ NewPair(disk', env')
                                     \/ TornPair(disk', env') /\ faulty'
                \/ pc' = "down"
  <2>1. \A o \in RestorePrev(disk, env) :
           /\ Outcome(o) /\ o.how # "refused"
           /\ o.how = "ok" => OldPair(o.disk, o.env)
           /\ o.how = "failed" => \/ OldPair(o.disk, o.env) \/ NewPair(o.disk, o.env)
                                 \/ TornPair(o.disk, o.env)
    BY <1>1, <1>3, PrevRestored DEF IInv
  <2>2. Perform(RestorePrev(disk, env), "restoreState", "giveUp")
    BY <1>3 DEF RevertFiles
  <2>3. QED
    BY <1>1, <2>1, <2>2, Performed
<1>4. ASSUME ~plan.installed
      PROVE  /\ Frame' /\ Running' /\ journal' = "open" /\ proc' = None /\ plan' = plan
             /\ \/ pc' = "restoreState" /\ OldPair(disk', env')
                \/ pc' = "giveUp" /\ \/ OldPair(disk', env') \/ NewPair(disk', env')
                                     \/ TornPair(disk', env') /\ faulty'
                \/ pc' = "down"
  <2>1. \A o \in RollbackFiles(disk, env) :
           Outcome(o) /\ o.how # "refused" /\ (o.how = "ok" => OldPair(o.disk, o.env))
    BY FilesRollBack DEF IInv
  <2>2. Perform(RollbackFiles(disk, env), "restoreState", "giveUp")
    BY <1>4 DEF RevertFiles
  <2>3. faulty
    BY <1>1, <1>2, <1>4
  <2>4. QED
    BY <1>1, <2>1, <2>2, <2>3, Performed
<1>5. Place'
  BY <1>2, <1>3, <1>4, SamePlan DEF Place, AnyPair
<1>6. QED
  BY <1>2, <1>3, <1>4, <1>5, PartsNext

-----------------------------------------------------------------------------
(* The other steps of do_install, of the boot and of the coordinator. *)

\* The record of the switch is written over a pointer that is still the old
\* one; an activation that fails early is not one of the active candidate.
LEMMA ActivateKeeps == IInv /\ Activate => IInv'
<1> SUFFICES ASSUME IInv, Activate
             PROVE  IInv'
  OBVIOUS
<1> DEFINE recorded == [env EXCEPT !.rec = <<Target, env.cur>>]
<1>1. /\ journal = "open" /\ proc = None /\ disk.live = "new" /\ env.cur = Expected
      /\ config = "old"
  BY DEF Activate, IInv, Place
<1>2. /\ PlanInv /\ EnvInv(env) /\ fence \in BOOLEAN /\ restart \in BOOLEAN /\ faulty \in BOOLEAN
      /\ restart => plan.installed
  BY DEF IInv, TypeOK, Running, AnyPair
<1>3. CASE MayFailEarly /\ (Raises("undoAgain") \/ Raises("undo"))
  <2>1. Undoable(env)
    BY <1>1, <1>2, <1>3, PlanFacts DEF MayFailEarly, Undoable, Mine
  <2>2. /\ plan' = plan /\ cuts' = cuts /\ faulty' = TRUE /\ pc' \in {"undo", "undoAgain"}
        /\ UNCHANGED <<disk, env, config, journal, proc, fence, restart>>
    BY <1>3 DEF Raises, Fails, Step
  <2>3. Frame'
    BY <1>1, <1>2, <2>2, Stepped
  <2>4. Running'
    BY <1>1, <1>2, <2>2 DEF Running, AnyPair
  <2>5. Place'
    BY <1>1, <2>1, <2>2, SamePlan DEF Place
  <2>6. QED
    BY <2>3, <2>4, <2>5, PartsNext
<1>4. CASE /\ Target = None /\ Step("configure")
           /\ UNCHANGED <<disk, env, config, journal, proc, fence, restart, faulty>>
  <2>1. plan' = plan /\ cuts' = cuts /\ pc' = "configure"
    BY <1>4 DEF Step
  <2>2. Frame'
    BY <1>1, <1>2, <1>4, <2>1, Stepped
  <2>3. Running'
    BY <1>1, <1>2, <1>4, <2>1 DEF Running, AnyPair
  <2>4. NewPair(disk, env)
    BY <1>1, <1>4 DEF NewPair
  <2>5. Place'
    BY <1>1, <1>4, <2>1, <2>4, SamePlan DEF Place
  <2>6. QED
    BY <2>2, <2>3, <2>5, PartsNext
<1>5. CASE /\ Target # None /\ env' = recorded
           /\ Step("switch") /\ UNCHANGED <<disk, config, journal, proc, fence, restart, faulty>>
  <2>1. plan' = plan /\ cuts' = cuts /\ pc' = "switch"
    BY <1>5 DEF Step
  <2>2. env' = [cur |-> Expected, rec |-> <<Target, Expected>>]
    BY <1>1, <1>2, <1>5 DEF EnvInv
  <2>3. Target \in Generations /\ Expected \in Generations
    BY <1>2, PlanFacts DEF Generations
  <2>4. EnvInv(env')
    BY <2>2, <2>3 DEF EnvInv
  <2>5. Frame'
    BY <1>1, <1>2, <1>5, <2>1, <2>4, SamePlan, Parts DEF Frame
  <2>6. Running'
    BY <1>1, <1>2, <1>5, <2>1 DEF Running, AnyPair
  <2>7. Place'
    BY <1>1, <1>5, <2>1, <2>2, SamePlan DEF Place
  <2>8. QED
    BY <2>5, <2>6, <2>7, PartsNext
<1>6. QED
  BY <1>3, <1>4, <1>5 DEF Activate

\* do_install up to the publication.
LEMMA BeginningKeeps == IInv /\ (Begin \/ StopOld \/ MarkStopped) => IInv'
<1> SUFFICES ASSUME IInv, Begin \/ StopOld \/ MarkStopped
             PROVE  IInv'
  OBVIOUS
<1>1. /\ config = "old" /\ OldPair(disk, env) /\ (pc = "before" => journal = None)
      /\ pc = "stop" => journal = "open"
      /\ pc = "mark" => journal = "open" /\ proc = None
  BY DEF Begin, StopOld, MarkStopped, IInv, Place, OldState
<1>2. /\ fence \in BOOLEAN /\ restart \in BOOLEAN /\ faulty \in BOOLEAN
      /\ plan.installed \in BOOLEAN
  BY PlanFacts DEF IInv, TypeOK
<1>3. /\ proc # None => proc = disk.live /\ plan.installed
      /\ restart => plan.installed
  BY <1>1, <1>2 DEF IInv, Running, AnyPair, OldPair, Installed
<1>4. CASE Begin
  <2>1. /\ plan' = plan /\ cuts' = cuts /\ pc' = "stop" /\ journal' = "open"
        /\ restart' = (proc # None) /\ disk' = [disk EXCEPT !.stage = "new"]
        /\ UNCHANGED <<env, config, proc, fence, faulty>>
    BY <1>4 DEF Begin, Step
  <2>2. /\ Frame' /\ disk'.live = disk.live /\ OldPair(disk, env)' /\ plan'.installed = plan.installed
    BY <1>1, <1>2, <2>1, Stepped
  <2>3. Running'
    BY <1>3, <2>1, <2>2 DEF Running, AnyPair
  <2>4. Place'
    BY <1>1, <2>1, <2>2 DEF Place, OldState
  <2>5. QED
    BY <2>2, <2>3, <2>4, PartsNext
<1>5. CASE StopOld
  <2>1. /\ plan' = plan /\ cuts' = cuts /\ UNCHANGED <<env, config, restart>>
        /\ disk' \in {disk, [disk EXCEPT !.stage = None]}
        /\ \/ /\ pc' = "mark" /\ proc' = None /\ journal' = "open"
              /\ fence' = fence /\ faulty' = faulty
           \/ /\ pc' = "idle" /\ journal' = None /\ proc' = proc
              /\ fence' = TRUE /\ faulty' = TRUE
    BY <1>1, <1>5 DEF StopOld, Step, Fails
  <2>2. /\ Frame' /\ disk'.live = disk.live /\ OldPair(disk, env)' /\ plan'.installed = plan.installed
    BY <1>1, <1>2, <2>1, Stepped
  <2>3. Running'
    BY <1>3, <2>1, <2>2 DEF Running, AnyPair
  <2>4. Place'
    BY <1>1, <2>1, <2>2 DEF Place, OldState
  <2>5. QED
    BY <2>2, <2>3, <2>4, PartsNext
<1>6. CASE MarkStopped
  <2>1. /\ plan' = plan /\ cuts' = cuts /\ UNCHANGED <<env, config, journal, proc, fence, restart>>
        /\ disk' \in {disk, [disk EXCEPT !.stage = None]}
        /\ \/ pc' = "moveOld" /\ faulty' = faulty
           \/ pc' = "idle" /\ faulty' = TRUE
    BY <1>6 DEF MarkStopped, Step, Fails
  <2>2. /\ Frame' /\ disk'.live = disk.live /\ OldPair(disk, env)' /\ plan'.installed = plan.installed
    BY <1>1, <1>2, <2>1, Stepped
  <2>3. proc = None /\ journal = "open"
    BY <1>1, <1>6 DEF MarkStopped
  <2>4. Running'
    BY <1>3, <2>1, <2>2, <2>3 DEF Running, AnyPair
  <2>5. Place'
    BY <1>1, <2>1, <2>2, <2>3 DEF Place, AnyPair, OldState
  <2>6. QED
    BY <2>2, <2>4, <2>5, PartsNext
<1>7. QED
  BY <1>4, <1>5, <1>6

\* do_install once the release is published.
LEMMA PublishedKeeps ==
    IInv /\ (Configure \/ StartNew \/ MarkReady \/ MarkCommitted \/ Revert) => IInv'
<1> SUFFICES ASSUME IInv, Configure \/ StartNew \/ MarkReady \/ MarkCommitted \/ Revert
             PROVE  IInv'
  OBVIOUS
<1>1. /\ NewPair(disk, env) /\ (journal = "open" \/ (pc = "commit" /\ journal = "ready"))
      /\ config = (IF pc = "configure" THEN "old" ELSE "new")
      /\ pc = "configure" => proc = None
      /\ pc \in {"start", "ready"} => restart
      /\ pc = "revert" => restart \/ faulty
  BY DEF Configure, StartNew, MarkReady, MarkCommitted, Revert, IInv, Place, NewState
<1>2. fence \in BOOLEAN /\ restart \in BOOLEAN /\ faulty \in BOOLEAN /\ config \in {"old", "new"}
  BY DEF IInv, TypeOK
<1>3. (proc # None => proc = disk.live) /\ (restart => plan.installed)
  BY DEF IInv, Running, AnyPair
<1>4. CASE Configure
  <2>1. /\ plan' = plan /\ cuts' = cuts /\ UNCHANGED <<disk, env, journal, proc, fence, restart>>
        /\ config' = "new"
        /\ \/ pc' = "start" /\ restart /\ faulty' = faulty
           \/ pc' = "commit" /\ faulty' = faulty
           \/ pc' = "revert" /\ faulty' = TRUE
    BY <1>4 DEF Configure, Step, Fails
  <2>2. /\ Frame' /\ disk'.live = disk.live /\ NewPair(disk, env)' /\ plan'.installed = plan.installed
    BY <1>1, <1>2, <2>1, Stepped
  <2>3. journal = "open" /\ proc = None
    BY <1>1, <1>4 DEF Configure
  <2>4. Running'
    BY <1>3, <2>1, <2>2, <2>3 DEF Running, AnyPair
  <2>5. Place'
    BY <2>1, <2>2, <2>3 DEF Place, NewState
  <2>6. QED
    BY <2>2, <2>4, <2>5, PartsNext
<1>5. CASE StartNew
  <2>1. /\ plan' = plan /\ cuts' = cuts
        /\ UNCHANGED <<disk, env, config, journal, fence, restart, faulty>>
        /\ pc' \in {"ready", "revert"} /\ proc' \in {disk.live, None}
    BY <1>5 DEF StartNew, Step
  <2>2. /\ Frame' /\ disk'.live = disk.live /\ NewPair(disk, env)' /\ plan'.installed = plan.installed
    BY <1>1, <1>2, <2>1, Stepped
  <2>3. journal = "open" /\ restart /\ config = "new"
    BY <1>1, <1>5 DEF StartNew
  <2>4. Running'
    BY <1>3, <2>1, <2>2, <2>3 DEF Running, AnyPair
  <2>5. Place'
    BY <2>1, <2>2, <2>3 DEF Place, NewState
  <2>6. QED
    BY <2>2, <2>4, <2>5, PartsNext
<1>6. CASE MarkReady
  <2>1. /\ plan' = plan /\ cuts' = cuts /\ UNCHANGED <<disk, env, config, proc, fence, restart>>
        /\ \/ pc' = "commit" /\ journal' = "ready" /\ faulty' = faulty
           \/ pc' = "revert" /\ journal' = journal /\ faulty' = TRUE
    BY <1>6 DEF MarkReady, Raises, Step, Fails
  <2>2. /\ Frame' /\ disk'.live = disk.live /\ NewPair(disk, env)' /\ plan'.installed = plan.installed
    BY <1>1, <1>2, <2>1, Stepped
  <2>3. journal = "open" /\ restart /\ config = "new"
    BY <1>1, <1>6 DEF MarkReady
  <2>4. Running'
    BY <1>3, <2>1, <2>2, <2>3 DEF Running, AnyPair
  <2>5. Place'
    BY <2>1, <2>2, <2>3 DEF Place, NewState
  <2>6. QED
    BY <2>2, <2>4, <2>5, PartsNext
<1>7. CASE MarkCommitted
  <2>1. /\ plan' = plan /\ cuts' = cuts /\ UNCHANGED <<disk, env, config, proc, fence, restart>>
        /\ \/ pc' = "clear" /\ journal' = "committed" /\ faulty' = faulty
           \/ pc' = "revert" /\ journal' = journal /\ journal # "ready" /\ faulty' = TRUE
    BY <1>7 DEF MarkCommitted, Raises, Step, Fails
  <2>2. /\ Frame' /\ disk'.live = disk.live /\ NewPair(disk, env)' /\ plan'.installed = plan.installed
    BY <1>1, <1>2, <2>1, Stepped
  <2>3. config = "new"
    BY <1>1, <1>7 DEF MarkCommitted
  <2>4. Running'
    BY <1>3, <2>1, <2>2 DEF Running, AnyPair
  <2>5. Place'
    BY <1>1, <2>1, <2>2, <2>3 DEF Place, NewState
  <2>6. QED
    BY <2>2, <2>4, <2>5, PartsNext
<1>8. CASE Revert
  <2>1. /\ plan' = plan /\ cuts' = cuts /\ UNCHANGED <<disk, env, config, journal, fence, restart>>
        /\ \/ pc' = "restorePrev" /\ proc' = None /\ faulty' = faulty
           \/ pc' = "giveUp" /\ proc' = proc /\ faulty' = TRUE
    BY <1>8 DEF Revert, Raises, Step, Fails
  <2>2. /\ Frame' /\ disk'.live = disk.live /\ NewPair(disk, env)' /\ plan'.installed = plan.installed
    BY <1>1, <1>2, <2>1, Stepped
  <2>3. journal = "open" /\ (restart \/ faulty) /\ config = "new"
    BY <1>1, <1>8 DEF Revert
  <2>4. Running'
    BY <1>3, <2>1, <2>2, <2>3 DEF Running, AnyPair
  <2>5. Place'
    BY <2>1, <2>2, <2>3 DEF Place, AnyPair, NewState
  <2>6. QED
    BY <2>2, <2>4, <2>5, PartsNext
<1>9. QED
  BY <1>4, <1>5, <1>6, <1>7, <1>8

\* do_install when it is done, or has been rolled back.
LEMMA EndingKeeps ==
    IInv /\ (ClearJournal \/ RestoreState \/ StartOld \/ GiveUp) => IInv'
<1> SUFFICES ASSUME IInv, ClearJournal \/ RestoreState \/ StartOld \/ GiveUp
             PROVE  IInv'
  OBVIOUS
<1>1. /\ pc = "clear" => NewState \/ OldState
      /\ pc \in {"restoreState", "startOld"} => OldPair(disk, env) /\ proc = None
      /\ pc \in {"startOld", "giveUp", "restoreState"} => journal = "open"
      /\ pc = "startOld" => config = "old"
      /\ pc = "giveUp" => AnyPair
  BY DEF ClearJournal, RestoreState, StartOld, GiveUp, IInv, Place, OldState, AnyPair
<1>2. fence \in BOOLEAN /\ restart \in BOOLEAN /\ faulty \in BOOLEAN /\ config \in {"old", "new"}
  BY DEF IInv, TypeOK
<1>3. /\ proc # None => proc = disk.live
      /\ restart => plan.installed
  BY DEF IInv, Running, AnyPair
<1>4. CASE ClearJournal
  <2>1. /\ plan' = plan /\ cuts' = cuts /\ UNCHANGED <<env, config, proc, fence, restart, faulty>>
        /\ journal' = None /\ pc' = "idle" /\ disk' = [disk EXCEPT !.stage = None]
    BY <1>4 DEF ClearJournal, Step
  <2>2. /\ Frame' /\ disk'.live = disk.live /\ plan'.installed = plan.installed
        /\ OldPair(disk, env)' <=> OldPair(disk, env)
        /\ NewPair(disk, env)' <=> NewPair(disk, env)
    BY <1>2, <2>1, Stepped
  <2>3. OldState' \/ NewState'
    BY <1>1, <1>4, <2>1, <2>2 DEF ClearJournal, OldState, NewState
  <2>4. Running'
    BY <1>3, <2>1, <2>2, <2>3 DEF Running, AnyPair, OldState, NewState
  <2>5. Place'
    BY <2>1, <2>3 DEF Place
  <2>6. QED
    BY <2>2, <2>4, <2>5, PartsNext
<1>5. CASE RestoreState
  <2>1. /\ plan' = plan /\ cuts' = cuts /\ UNCHANGED <<disk, env, journal, proc, restart>>
        /\ fence' \in BOOLEAN
        /\ \/ pc' \in {"startOld", "clear"} /\ config' = "old" /\ faulty' = faulty
           \/ pc' = "giveUp" /\ config' = config /\ faulty' = TRUE
    BY <1>2, <1>5 DEF RestoreState, Raises, Step, Fails
  <2>2. /\ Frame' /\ disk'.live = disk.live /\ plan'.installed = plan.installed
        /\ OldPair(disk, env)' <=> OldPair(disk, env)
    BY <1>2, <2>1, Stepped
  <2>3. OldPair(disk, env) /\ proc = None /\ journal = "open"
    BY <1>1, <1>5 DEF RestoreState
  <2>4. Running'
    BY <1>3, <2>1, <2>2, <2>3 DEF Running, AnyPair
  <2>5. Place'
    BY <2>1, <2>2, <2>3 DEF Place, AnyPair, OldState
  <2>6. QED
    BY <2>2, <2>4, <2>5, PartsNext
<1>6. CASE StartOld
  <2>1. /\ plan' = plan /\ cuts' = cuts
        /\ UNCHANGED <<disk, env, config, journal, fence, restart, faulty>>
        /\ pc' \in {"clear", "giveUp"} /\ proc' \in {disk.live, None}
    BY <1>6 DEF StartOld, Step
  <2>2. /\ Frame' /\ disk'.live = disk.live /\ plan'.installed = plan.installed
        /\ OldPair(disk, env)' <=> OldPair(disk, env)
    BY <1>2, <2>1, Stepped
  <2>3. OldPair(disk, env) /\ journal = "open" /\ config = "old"
    BY <1>1, <1>6 DEF StartOld
  <2>4. Running'
    BY <1>3, <2>1, <2>2, <2>3 DEF Running, AnyPair
  <2>5. Place'
    BY <2>1, <2>2, <2>3 DEF Place, AnyPair, OldState
  <2>6. QED
    BY <2>2, <2>4, <2>5, PartsNext
<1>7. CASE GiveUp
  <2>1. /\ plan' = plan /\ cuts' = cuts /\ UNCHANGED <<env, config, journal, proc, restart, faulty>>
        /\ fence' = TRUE /\ pc' = "idle" /\ disk' = [disk EXCEPT !.stage = None]
    BY <1>7 DEF GiveUp, Step
  <2>2. /\ Frame' /\ disk'.live = disk.live /\ plan'.installed = plan.installed
        /\ OldPair(disk, env)' <=> OldPair(disk, env)
        /\ NewPair(disk, env)' <=> NewPair(disk, env)
    BY <1>2, <2>1, Stepped
  <2>3. AnyPair' /\ journal = "open"
    <3>1. disk'.failed = disk.failed /\ disk' \in {[disk EXCEPT !.stage = None]}
      BY <2>1 DEF IInv, DiskInv
    <3>2. TornPair(disk, env)' <=> TornPair(disk, env)
      BY <1>2, <2>1, <3>1, Stepped
    <3>3. QED
      BY <1>1, <1>7, <2>1, <2>2, <3>2 DEF GiveUp, AnyPair
  <2>4. Running'
    BY <1>3, <2>1, <2>2, <2>3 DEF Running, AnyPair
  <2>5. Place'
    BY <2>1, <2>2, <2>3 DEF Place
  <2>6. QED
    BY <2>2, <2>4, <2>5, PartsNext
<1>8. QED
  BY <1>4, <1>5, <1>6, <1>7

\* What stands wherever the daemon dies: a journal that is not open belongs
\* to one of the two releases as a whole.
LEMMA ByJournal ==
    IInv => \/ journal = "open"
            \/ journal = None /\ (OldState \/ NewState)
            \/ journal \in {"ready", "committed"} /\ NewState
BY DEF IInv, Place

\* The steps of the boot but the reconciliation of the files.
LEMMA BootKeeps == IInv /\ (BootLoad \/ BootStop \/ BootState \/ BootClear \/ BootSweep) => IInv'
<1> SUFFICES ASSUME IInv, BootLoad \/ BootStop \/ BootState \/ BootClear \/ BootSweep
             PROVE  IInv'
  OBVIOUS
<1>1. /\ pc \in {"bootStop", "bootState", "bootClear"} => journal = "open"
      /\ pc \in {"bootState", "bootClear"} => proc = None /\ OldPair(disk, env)
      /\ pc = "bootClear" => config = "old"
      /\ pc = "sweep" => journal = None /\ (OldState \/ NewState)
  BY DEF BootLoad, BootStop, BootState, BootClear, BootSweep, IInv, Place, OldState
<1>2. fence \in BOOLEAN /\ restart \in BOOLEAN /\ faulty \in BOOLEAN /\ config \in {"old", "new"}
  BY DEF IInv, TypeOK
<1>3. /\ proc # None => proc = disk.live /\ AnyPair
      /\ restart => plan.installed
  BY DEF IInv, Running
<1>4. CASE BootLoad
  <2>1. /\ plan' = plan /\ cuts' = cuts
        /\ UNCHANGED <<disk, env, config, proc, fence, restart, faulty>>
        /\ \/ journal = "open" /\ journal' = "open" /\ pc' = "bootStop"
           \/ journal # "open" /\ journal' = None /\ pc' = "sweep"
    BY <1>4, InstallAssumption DEF BootLoad, Step
  <2>2. /\ Frame' /\ disk'.live = disk.live /\ plan'.installed = plan.installed
        /\ OldPair(disk, env)' <=> OldPair(disk, env)
        /\ NewPair(disk, env)' <=> NewPair(disk, env)
        /\ TornPair(disk, env)' <=> TornPair(disk, env)
    BY <1>2, <2>1, Stepped
  <2>3. journal = "open" \/ OldState' \/ NewState'
    BY <2>1, <2>2, ByJournal DEF OldState, NewState
  <2>4. Running'
    BY <1>3, <2>1, <2>2, <2>3 DEF Running, AnyPair
  <2>5. Place'
    BY <2>1, <2>3 DEF Place
  <2>6. QED
    BY <2>2, <2>4, <2>5, PartsNext
<1>5. CASE BootStop
  <2>1. /\ plan' = plan /\ cuts' = cuts /\ UNCHANGED <<disk, env, config, journal, restart>>
        /\ fence' \in BOOLEAN
        /\ \/ pc' = "bootFiles" /\ proc' = None /\ faulty' = faulty
           \/ pc' = "down" /\ proc' = proc /\ faulty' = TRUE
    BY <1>2, <1>5 DEF BootStop, Raises, Step, Fails
  <2>2. /\ Frame' /\ disk'.live = disk.live /\ plan'.installed = plan.installed
        /\ OldPair(disk, env)' <=> OldPair(disk, env)
        /\ NewPair(disk, env)' <=> NewPair(disk, env)
        /\ TornPair(disk, env)' <=> TornPair(disk, env)
    BY <1>2, <2>1, Stepped
  <2>3. journal = "open"
    BY <1>1, <1>5 DEF BootStop
  <2>4. Running'
    BY <1>3, <2>1, <2>2 DEF Running, AnyPair
  <2>5. Place'
    BY <2>1, <2>3 DEF Place
  <2>6. QED
    BY <2>2, <2>4, <2>5, PartsNext
<1>6. CASE BootState
  <2>1. /\ plan' = plan /\ cuts' = cuts /\ UNCHANGED <<disk, env, journal, proc, restart>>
        /\ fence' \in BOOLEAN
        /\ \/ pc' = "bootClear" /\ config' = "old" /\ faulty' = faulty
           \/ pc' = "down" /\ config' = config /\ faulty' = TRUE
    BY <1>2, <1>6 DEF BootState, Raises, Step, Fails
  <2>2. /\ Frame' /\ disk'.live = disk.live /\ plan'.installed = plan.installed
        /\ OldPair(disk, env)' <=> OldPair(disk, env)
    BY <1>2, <2>1, Stepped
  <2>3. journal = "open" /\ proc = None /\ OldPair(disk, env)
    BY <1>1, <1>6 DEF BootState
  <2>4. Running'
    BY <1>3, <2>1, <2>2, <2>3 DEF Running, AnyPair
  <2>5. Place'
    BY <2>1, <2>2, <2>3 DEF Place, OldState
  <2>6. QED
    BY <2>2, <2>4, <2>5, PartsNext
<1>7. CASE BootClear
  <2>1. /\ plan' = plan /\ cuts' = cuts
        /\ UNCHANGED <<disk, env, config, proc, fence, restart, faulty>>
        /\ journal' = None /\ pc' = "sweep"
    BY <1>7 DEF BootClear, Step
  <2>2. /\ Frame' /\ disk'.live = disk.live /\ plan'.installed = plan.installed
        /\ OldPair(disk, env)' <=> OldPair(disk, env)
    BY <1>2, <2>1, Stepped
  <2>3. proc = None /\ OldPair(disk, env) /\ config = "old"
    BY <1>1, <1>7 DEF BootClear
  <2>4. Running'
    BY <1>3, <2>1, <2>2, <2>3 DEF Running, AnyPair
  <2>5. Place'
    BY <2>1, <2>2, <2>3 DEF Place, OldState
  <2>6. QED
    BY <2>2, <2>4, <2>5, PartsNext
<1>8. CASE BootSweep
  <2> DEFINE clean == [disk EXCEPT !.stage = None, !.failed = None]
  <2>1. journal = None /\ (OldState \/ NewState)
    BY <1>1, <1>8 DEF BootSweep
  <2>2. disk.live # None \/ disk.prev = None
    <3>1. plan.installed \in BOOLEAN /\ None \notin {"old", "new"} /\ DiskInv(disk)
      BY PlanFacts DEF IInv
    <3>2. QED
      BY <2>1, <3>1 DEF DiskInv, OldState, NewState, OldPair, NewPair, Installed
  <2>3. clean.live = disk.live /\ clean.prev = disk.prev
    BY DEF IInv, DiskInv
  <2>4. /\ plan' = plan /\ cuts' = cuts /\ disk' = clean /\ pc' = "idle"
        /\ UNCHANGED <<env, config, journal, proc, fence, restart, faulty>>
    BY <1>8, <2>2, <2>3 DEF BootSweep, Step
  <2>5. /\ Frame' /\ disk'.live = disk.live /\ plan'.installed = plan.installed
        /\ OldPair(disk, env)' <=> OldPair(disk, env)
        /\ NewPair(disk, env)' <=> NewPair(disk, env)
    BY <1>2, <2>4, Stepped
  <2>6. Running'
    BY <1>3, <2>1, <2>4, <2>5 DEF Running, AnyPair, OldState, NewState
  <2>7. Place'
    BY <2>1, <2>4, <2>5 DEF Place, OldState, NewState
  <2>8. QED
    BY <2>5, <2>6, <2>7, PartsNext
<1>9. QED
  BY <1>4, <1>5, <1>6, <1>7, <1>8

\* The coordinator launches on a whole pair only, and the daemon may die
\* anywhere.
LEMMA OthersKeep == IInv /\ (Launch \/ Ends \/ RetryTeardown \/ Die) => IInv'
<1> SUFFICES ASSUME IInv, Launch \/ Ends \/ RetryTeardown \/ Die
             PROVE  IInv'
  OBVIOUS
<1>1. fence \in BOOLEAN /\ restart \in BOOLEAN /\ faulty \in BOOLEAN /\ config \in {"old", "new"}
  BY DEF IInv, TypeOK
<1>2. /\ proc # None => proc = disk.live /\ AnyPair
      /\ restart => plan.installed
  BY DEF IInv, Running
<1>3. CASE Launch \/ Ends \/ RetryTeardown
  <2>1. /\ UNCHANGED <<plan, disk, env, config, journal, restart, pc, faulty, cuts>>
        /\ fence' \in BOOLEAN /\ pc \in {"before", "idle"} /\ proc' \in {disk.live, None}
    BY <1>1, <1>3 DEF Launch, Ends, RetryTeardown, AtRest
  <2>2. /\ Frame' /\ disk'.live = disk.live /\ plan'.installed = plan.installed
        /\ OldPair(disk, env)' <=> OldPair(disk, env)
        /\ NewPair(disk, env)' <=> NewPair(disk, env)
        /\ AnyPair' <=> AnyPair
    BY <1>1, <2>1, Stepped DEF AnyPair
  <2>3. /\ \/ pc = "before" /\ journal = None /\ OldState
           \/ pc = "idle" /\ journal = "open"
           \/ pc = "idle" /\ journal = None /\ (OldState \/ NewState)
        /\ AnyPair
    BY <2>1 DEF IInv, Place, OldState, NewState, AnyPair
  <2>4. Running'
    BY <1>2, <2>1, <2>2, <2>3 DEF Running, AnyPair
  <2>5. Place'
    BY <2>1, <2>2, <2>3 DEF Place, OldState, NewState
  <2>6. QED
    BY <2>2, <2>4, <2>5, PartsNext
<1>4. CASE Die
  <2>1. /\ UNCHANGED <<plan, disk, env, config, journal, fence, restart, faulty>>
        /\ pc' = "down" /\ proc' \in {proc, None} /\ cuts < MaxCuts /\ cuts' = cuts + 1
    BY <1>4 DEF Die, Dies
  <2>2. PlanInv /\ DiskInv(disk) /\ EnvInv(env)
    BY DEF IInv
  <2>3. cuts' \in 0 .. MaxCuts
    <3>1. cuts \in 0 .. MaxCuts /\ MaxCuts \in Nat
      BY InstallAssumption DEF IInv, TypeOK
    <3>2. QED
      BY <2>1, <3>1
  <2>4. Frame'
    BY <1>1, <2>1, <2>2, <2>3, SamePlan DEF Frame
  <2>5. Running'
    BY <1>2, <2>1, SamePlan DEF Running, AnyPair
  <2>6. Place'
    BY <2>1, ByJournal, SamePlan DEF Place, OldState, NewState
  <2>7. QED
    BY <2>4, <2>5, <2>6, PartsNext
<1>5. QED
  BY <1>3, <1>4

-----------------------------------------------------------------------------
(* The invariant, and what it says. *)

(* What the theorems assume of the constants: where a candidate that is    *)
(* active already may be installed again, its activation does not fail     *)
(* before the switch.  NoJumpBack is violated without it.                  *)
NoEarlyReinstall == EarlyFailures => "reinstall" \notin Kinds

\* A plan whose locks name the environments of its own releases.
LEMMA ProperPlan ==
    ASSUME NEW installed \in BOOLEAN, NEW old \in {None, "old"}, NEW t \in {None, "new", "old"},
           NEW cur \in {None, "old", "older"}, NEW rec \in Generations \X Generations,
           plan = Plan(installed, old, t, cur, rec), old \in {None, cur},
           t = "old" => old = "old" /\ cur = "old" /\ ~EarlyFailures,
           ~installed => cur = None /\ old = None
    PROVE  PlanInv
<1>1. /\ plan.installed = installed /\ plan.lock = [old |-> old, new |-> t]
      /\ plan.env = cur /\ plan.rec = rec
  BY DEF Plan
<1>2. plan.lock["old"] = old /\ plan.lock["new"] = t
  BY <1>1
<1>3. [old |-> old, new |-> t] \in [old : Generations, new : Generations]
  BY DEF Generations
<1>4. plan \in [installed : BOOLEAN, lock : [old : Generations, new : Generations],
                env : {None, "old", "older"}, rec : Generations \X Generations]
  BY <1>3 DEF Plan
<1>5. t \in {None, "new"} \cup ({cur} \cap {"old"})
  OBVIOUS
<1>6. QED
  BY <1>1, <1>2, <1>4, <1>5, Zenon DEF PlanInv

\* Every history an installation may begin with is a plan of the invariant.
LEMMA BeginsArePlans ==
    ASSUME NoEarlyReinstall, NEW b \in Begins, plan = b.plan
    PROVE  PlanInv /\ b.prev \in {None, "older"} /\ (~plan.installed => b.prev = None)
<1>1. ASSUME NEW h \in Histories
      PROVE  h.prev \in {None, "older"} /\ h.rec \in Generations \X Generations
  BY <1>1 DEF Histories, Generations, NoRecord
<1>2. NoRecord \in Generations \X Generations /\ <<"older", None>> \in Generations \X Generations
  BY DEF NoRecord, Generations
<1>3. PICK t \in {None, "new", "old"} :
         \/ t # "old" /\ (b \in Fresh(t) \/ b \in UpgradesOfV1(t) \/ b \in UpgradesOfV2(t))
         \/ t = "old" /\ "reinstall" \in Kinds /\ b \in UpgradesOfV2(t)
  <2>1. "old" \notin {None, "new"}
    BY InstallAssumption
  <2>2. QED
    BY <2>1 DEF Begins
<1>4. t = "old" => ~EarlyFailures
  BY <1>3 DEF NoEarlyReinstall
<1>5. CASE b \in Fresh(t) /\ t # "old"
  <2>1. b = [plan |-> Plan(FALSE, None, t, None, NoRecord), prev |-> None]
    BY <1>5 DEF Fresh
  <2>2. plan = Plan(FALSE, None, t, None, NoRecord) /\ b.prev = None
    BY <2>1
  <2>3. PlanInv
    BY <1>2, <1>5, <2>2, ProperPlan
  <2>4. QED
    BY <2>2, <2>3
<1>6. CASE b \in UpgradesOfV1(t) /\ t # "old"
  <2>1. \/ \E p \in {None, "older"} : b = [plan |-> Plan(TRUE, None, t, None, NoRecord), prev |-> p]
        \/ b = [plan |-> Plan(TRUE, None, t, "older", <<"older", None>>), prev |-> "older"]
    BY <1>6 DEF UpgradesOfV1
  <2>2. /\ \/ plan = Plan(TRUE, None, t, None, NoRecord)
           \/ plan = Plan(TRUE, None, t, "older", <<"older", None>>)
        /\ b.prev \in {None, "older"}
    <3>1. CASE \E p \in {None, "older"} :
                  b = [plan |-> Plan(TRUE, None, t, None, NoRecord), prev |-> p]
      BY <3>1
    <3>2. CASE b = [plan |-> Plan(TRUE, None, t, "older", <<"older", None>>), prev |-> "older"]
      BY <3>2
    <3>3. QED
      BY <2>1, <3>1, <3>2
  <2>3. PlanInv
    BY <1>2, <1>6, <2>2, ProperPlan
  <2>4. plan.installed
    BY <2>2 DEF Plan
  <2>5. QED
    BY <2>2, <2>3, <2>4
<1>7. CASE b \in UpgradesOfV2(t)
  <2>1. PICK h \in Histories :
            b = [plan |-> Plan(TRUE, "old", t, "old", h.rec), prev |-> h.prev]
    BY <1>7 DEF UpgradesOfV2
  <2>2. plan = Plan(TRUE, "old", t, "old", h.rec) /\ b.prev = h.prev
    BY <2>1
  <2>3. PlanInv
    BY <1>1, <1>4, <2>2, ProperPlan
  <2>4. plan.installed
    BY <2>2 DEF Plan
  <2>5. QED
    BY <1>1, <2>2, <2>3, <2>4
<1>8. QED
  BY <1>3, <1>4, <1>5, <1>6, <1>7

\* The state an installation begins in.
LEMMA InitIInv == NoEarlyReinstall /\ Init => IInv
<1> SUFFICES ASSUME NoEarlyReinstall, Init
             PROVE  IInv
  OBVIOUS
<1>1. PICK b \in Begins :
         /\ plan = b.plan
         /\ disk = [live |-> IF b.plan.installed THEN "old" ELSE None,
                    prev |-> b.prev, failed |-> None, stage |-> None]
         /\ env = [cur |-> b.plan.env, rec |-> b.plan.rec]
  BY DEF Init
<1>2. PlanInv /\ b.prev \in {None, "older"} /\ (~plan.installed => b.prev = None)
  BY <1>1, BeginsArePlans
<1>3. /\ plan.installed \in BOOLEAN /\ plan.env \in {None, "old", "older"}
      /\ plan.rec \in Generations \X Generations
  BY <1>2 DEF PlanInv
<1>4. DiskInv(disk) /\ disk.live = Installed
  BY <1>1, <1>2, <1>3, PlanFacts DEF DiskInv, Installed
<1>5. EnvInv(env) /\ env.cur = Expected
  BY <1>1, <1>3 DEF EnvInv, Expected, Generations
<1>6. /\ config = "old" /\ journal = None /\ proc = None /\ pc = "before"
      /\ fence = FALSE /\ restart = FALSE /\ faulty = FALSE /\ cuts \in 0 .. MaxCuts
  BY InstallAssumption DEF Init
<1>7. Place /\ Running
  BY <1>4, <1>5, <1>6 DEF Place, Running, AnyPair, OldState, OldPair
<1>8. Frame
  BY <1>2, <1>4, <1>5, <1>6 DEF Frame
<1>9. QED
  BY <1>6, <1>7, <1>8, Parts DEF AtRest

\* Every step, of the installer, the boot, the coordinator or a death.
LEMMA StepIInv == IInv /\ [Next]_vars => IInv'
<1>1. IInv /\ Next => IInv'
  BY BeginningKeeps, MoveOldKeeps, MoveNewKeeps, ActivateKeeps, SwitchCurrentKeeps,
     UndoPublishKeeps, RecoverKeeps, PublishedKeeps, RevertFilesKeeps, EndingKeeps,
     BootKeeps, OthersKeep
  DEF Next, Install, Boot
<1>2. IInv /\ UNCHANGED vars => IInv'
  <2> SUFFICES ASSUME IInv, UNCHANGED vars
               PROVE  IInv'
    OBVIOUS
  <2>1. /\ fence \in BOOLEAN /\ restart \in BOOLEAN /\ faulty \in BOOLEAN
        /\ config \in {"old", "new"}
    BY DEF IInv, TypeOK
  <2>2. UNCHANGED <<plan, disk, env, config, journal, proc, fence, restart, pc, faulty, cuts>>
    BY DEF vars
  <2>3. Frame'
    BY <2>1, <2>2, Stepped
  <2>4. Running' /\ Place'
    BY <2>2, SamePlan DEF IInv, Running, AnyPair, Place, OldState, NewState
  <2>5. QED
    BY <2>3, <2>4, PartsNext
<1>3. QED
  BY <1>1, <1>2

\* The invariant holds of every behaviour.
LEMMA Invariant == NoEarlyReinstall /\ Spec => []IInv
BY InitIInv, StepIInv, PTL DEF Spec

(* The directories, the pointer, the records and the process stay what     *)
(* they are declared to be, however often the daemon dies.                 *)
THEOREM Typed == NoEarlyReinstall /\ Spec => []TypeOK
<1>1. IInv => TypeOK
  BY DEF IInv
<1>2. QED
  BY <1>1, Invariant, PTL

(* Every rename, every switch and every recovery happens when no process   *)
(* runs, and no process is launched on a torn pair but the one that        *)
(* restore_prev leaves when its environment half raises: the old code, and *)
(* only while the journal that the next boot repairs it from is open.      *)
THEOREM RunsAlways == NoEarlyReinstall /\ Spec => []RunsItsPair
<1>1. IInv => RunsItsPair
  <2> SUFFICES ASSUME IInv, proc # None
               PROVE  /\ disk.live = proc
                      /\ LockOf(proc) \in {None, env.cur} \/ HalfRestored
    BY DEF RunsItsPair
  <2>1. proc = disk.live /\ AnyPair /\ PlanInv
    BY DEF IInv, Running
  <2>2. DOMAIN plan.lock = {"old", "new"}
    BY <2>1 DEF PlanInv
  <2>3. CASE OldPair(disk, env)
    <3>1. proc = "old" /\ env.cur = Expected
      BY <2>1, <2>3 DEF OldPair, Installed
    <3>2. QED
      BY <2>1, <2>2, <3>1, PlanFacts DEF LockOf
  <2>4. CASE NewPair(disk, env)
    <3>1. proc = "new" /\ Target \in {None, env.cur}
      BY <2>1, <2>4 DEF NewPair
    <3>2. QED
      BY <2>1, <2>2, <3>1 DEF LockOf, Target
  <2>5. CASE journal = "open" /\ faulty /\ TornPair(disk, env)
    BY <2>1, <2>5 DEF TornPair, HalfRestored
  <2>6. QED
    BY <2>1, <2>3, <2>4, <2>5 DEF AnyPair
<1>2. QED
  BY <1>1, Invariant, PTL

\* The release in force is always a whole one, and which one is read off the
\* journal and the configuration.
LEMMA WholeRelease ==
    IInv => Release = IF journal = "open" \/ config = "old" THEN "old" ELSE "new"
<1> SUFFICES ASSUME IInv, journal # "open"
             PROVE  Release = IF config = "old" THEN "old" ELSE "new"
  BY DEF Release
<1>1. OldState \/ NewState
  BY ByJournal
<1>2. CASE OldState
  BY <1>2 DEF OldState, OldPair, Installed, Release, Whole
<1>3. CASE NewState
  BY <1>3 DEF NewState, NewPair, Release, Whole
<1>4. QED
  BY <1>1, <1>2, <1>3

(* An installation is atomic: to whoever looks at the application from     *)
(* outside it is one switch from the old release to the new one, in the    *)
(* step that marks the journal ready or committed, whatever fails and      *)
(* however often the daemon dies.                                          *)
THEOREM Implements == NoEarlyReinstall /\ Spec => ImplementsSwitch
<1>1. NoEarlyReinstall /\ Init => Abstract!Init
  <2> SUFFICES ASSUME NoEarlyReinstall, Init
               PROVE  Abstract!Init
    OBVIOUS
  <2>1. IInv /\ config = "old"
    BY InitIInv DEF Init
  <2>2. Release = "old"
    BY <2>1, WholeRelease
  <2>3. QED
    BY <2>2 DEF Abstract!Init, Abstract!Old
<1>2. IInv /\ IInv' /\ [Next]_vars => [Abstract!Next]_Release
  <2> SUFFICES ASSUME IInv, IInv', [Next]_vars, Release' # Release
               PROVE  Release = "old" /\ Release' = "new"
    BY DEF Abstract!Next, Abstract!Switch, Abstract!Old, Abstract!New
  <2>1. Release = IF journal = "open" \/ config = "old" THEN "old" ELSE "new"
    BY WholeRelease
  <2>2. Release' = IF journal' = "open" \/ config' = "old" THEN "old" ELSE "new"
    <3>1. (IInv => Release = IF journal = "open" \/ config = "old" THEN "old" ELSE "new")'
      BY WholeRelease, PTL
    <3>2. QED
      BY <3>1
  <2>3. ASSUME journal # "open", config # "old"
        PROVE  journal' # "open" /\ config' # "old"
    <3>1. pc # "before" /\ pc \notin {"restoreState", "bootState"}
      BY <2>3 DEF IInv, Place, OldState
    <3>2. config' # "old"
      BY <2>3, <3>1
      DEF Next, Install, Boot, vars, Perform, Raises, Begin, StopOld, MarkStopped, MoveOld,
          MoveNew, Activate, SwitchCurrent, UndoPublish, Recover, Configure, StartNew,
          MarkReady, MarkCommitted, ClearJournal, Revert, RevertFiles, RestoreState,
          StartOld, GiveUp, BootLoad, BootStop, BootFiles, BootState, BootClear,
          BootSweep, Die, Launch, Ends, RetryTeardown
    <3>3. journal' # "open"
      BY <2>3, <3>1, InstallAssumption
      DEF Next, Install, Boot, vars, Perform, Raises, Begin, StopOld, MarkStopped, MoveOld,
          MoveNew, Activate, SwitchCurrent, UndoPublish, Recover, Configure, StartNew,
          MarkReady, MarkCommitted, ClearJournal, Revert, RevertFiles, RestoreState,
          StartOld, GiveUp, BootLoad, BootStop, BootFiles, BootState, BootClear,
          BootSweep, Die, Launch, Ends, RetryTeardown
    <3>4. QED
      BY <3>2, <3>3
  <2>4. QED
    BY <2>1, <2>2, <2>3
<1>3. QED
  BY <1>1, <1>2, Invariant, PTL DEF Spec, Abstract!Spec, ImplementsSwitch
=============================================================================
