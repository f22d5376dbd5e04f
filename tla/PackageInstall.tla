--------------------------- MODULE PackageInstall ---------------------------
(***************************************************************************)
(* How a package gets from the store to an installed application:          *)
(* store_tasks.py (one download worker and a journal of tasks), uploads.py *)
(* (staged packages on disk), do_v1_install and its neighbours in          *)
(* server.py (finalize and cancel) and the Operations queue.  Three things *)
(* survive a crash - the task journal, the staging area, the operation     *)
(* journal - and no write covers two of them.                              *)
(*                                                                         *)
(* Each store task stages at most one upload, which carries the task's     *)
(* name here.  A method that runs under the store's lock is one action;    *)
(* one that also inspects or discards an upload takes the finalize lock.   *)
(* do_v1_install holds that lock across its steps: flight is its place.    *)
(***************************************************************************)
EXTENDS Operations

CONSTANTS
    Tasks,       \* = Uploads
    AppOf,       \* the application a task wants
    MaxActive,   \* the store's max_active
    MaxOthers    \* bound: remembered operations that install no package

ASSUME TaskNames ==
    /\ Tasks = Uploads /\ IsFiniteSet(Tasks)
    /\ AppOf \in [Tasks -> Apps]
    /\ MaxActive \in Nat \ {0}
    /\ MaxOthers \in Nat

VARIABLES
    tasks,       \* the store's _records: status, and whether upload_id is set
    taskFile,    \* store-tasks.json
    downloads,   \* the store's _queue
    loader,      \* the download worker: its task and place
    signalled,   \* tasks whose cancel event is set
    closed,      \* the store manager's _closed
    upload,      \* status in the metadata of a staged package
    orphans,     \* _ORPHANED_ACTIVE
    flight       \* the do_v1_install call that holds the finalize lock

vars == <<opVars, tasks, taskFile, downloads, loader, signalled, closed,
          upload, orphans, flight>>
taskVars == <<tasks, taskFile>>
loaderVars == <<downloads, loader, signalled>>
staging == <<upload, orphans>>

Downloading == {"queued", "downloading", "preflighting"}
TaskEnded == {"succeeded", "failed", "cancelled"}
NoTask == [st |-> "free", up |-> FALSE]
NoLoad == [task |-> None, at |-> "idle"]
NoFlight == [up |-> None, store |-> FALSE, at |-> "idle"]

\* "unreported" is install_queued whose update() raised after it had replaced
\* the file: the code sees install_queued, the caller a failed request.
ActiveUpload == {"receiving", "install_queued", "installing", "unreported"}
Staged == {"uploaded", "preflighted", "rejected", "installed", "failed", "interrupted"}
\* Statuses whose metadata still hold a preflight that do_v1_install accepts.
Installable == {"preflighted", "failed", "interrupted"}

FinalizeFree == flight = NoFlight
\* install() of the store keeps its lock while it finalizes.
StoreFree == ~flight.store
\* A method that looks at the uploads of the tasks S needs both locks.
MayInspect(S) == StoreFree /\ ((\E t \in S : tasks[t].up) => FinalizeFree)

\* _save of the store: on success both copies agree.
Write(s) ==
    /\ tasks' = s
    /\ taskFile' = s \/ ("save" \in Failures /\ taskFile' = taskFile)

\* Directory removal; it may fail and leave everything where it was.
Removed(u) == upload' = [upload EXCEPT ![u] = "gone"]
Remains(u) == "remove" \in Failures /\ upload[u] # "gone" /\ UNCHANGED upload
\* remove(), then mark_orphaned() if that failed.
RemoveOrMark(u) ==
    \/ Removed(u) /\ orphans' = orphans \ {u}
    \/ Remains(u) /\ orphans' = orphans \cup {u}

Present(u) == upload[u] \notin {"none", "gone"}
\* update(): the status is saved; or the call raises, before it has replaced
\* the file or after that (uploads.py:486-487, and the load at 819).
UploadSet(u, s) == Present(u) /\ upload' = [upload EXCEPT ![u] = s]
UploadKept(u) == (~Present(u) \/ "save" \in Failures) /\ UNCHANGED upload
UploadRaises(u, s) == UploadKept(u) \/ ("save" \in Failures /\ UploadSet(u, s))

\* The loader, or the queue, still owes an answer: the key is in _cancel.
Claimed(t) == t \in ToSet(downloads) \/ t = loader.task

\* Mutant: the status of the operation is copied as it is.
SyncedVerbatim(r, o, s) ==
    IF r.st = "free" \/ ~r.up \/ o = "none" THEN r ELSE [r EXCEPT !.st = o]

\* _sync: what a record becomes when its operation has status o ("none" if
\* there is none) and its upload has status s.
SyncedWith(r, o, s) ==
    IF r.st = "free" \/ ~r.up THEN r
    ELSE IF o # "none" THEN [r EXCEPT !.st = IF o \in Ended THEN o ELSE "installing"]
    ELSE IF r.st = "installing" \/ (r.st = "awaiting" /\ s # "preflighted")
         THEN [r EXCEPT !.st = "failed"]
    ELSE r
Synced(t) == SyncedWith(tasks[t], Status(t), upload[t])
AllSynced == [t \in Tasks |-> Synced(t)]

\* _discard of the uploads in S: an accepted installation keeps its bytes,
\* and so does one in an active state.
Discardable(u) == ~Bound(u) /\ upload[u] \in Staged
Discard(S) ==
    LET D == {u \in S : Discardable(u)} IN
    \/ /\ upload' = [u \in Uploads |-> IF u \in D THEN "gone" ELSE upload[u]]
       /\ orphans' = orphans \ D
    \/ /\ "remove" \in Failures /\ D # {}
       /\ UNCHANGED upload
       /\ orphans' = orphans \cup D
\* The uploads that _sync discards on its way.
Unrecovered == {t \in Tasks : tasks[t].st = "installing" /\ ~Bound(t)}

----------------------------------------------------------------------------
Init ==
    /\ InitOperations
    /\ tasks = [t \in Tasks |-> NoTask] /\ taskFile = tasks
    /\ downloads = << >> /\ loader = NoLoad /\ signalled = {}
    /\ closed = FALSE
    /\ upload = [u \in Uploads |-> "none"] /\ orphans = {}
    /\ flight = NoFlight

----------------------------------------------------------------------------
(* Requests to the store.                                                  *)

\* get and list: records follow the operations they are bound to.
Look ==
    /\ MayInspect(Tasks)
    /\ AllSynced # tasks
    /\ Write(AllSynced)
    /\ Discard(Unrecovered)
    /\ UNCHANGED <<opVars, loaderVars, closed, flight>>

\* create: one task per application, and at most MaxActive that are neither
\* over nor let go by the loader.  A journal that cannot be written takes
\* the record back.
Create(t) ==
    LET s == AllSynced
        open == {i \in Tasks : s[i].st \notin TaskEnded \cup {"free"}} IN
    /\ MayInspect(Tasks) /\ ~closed
    /\ tasks[t].st = "free"
    /\ \A i \in Tasks : AppOf[i] = AppOf[t] => i \notin open /\ ~Claimed(i)
    /\ Cardinality(open \cup {i \in Tasks : Claimed(i)}) < MaxActive
    /\ LET new == [s EXCEPT ![t].st = "queued"] IN
       \/ /\ tasks' = new /\ taskFile' = new
          /\ downloads' = Append(downloads, t)
       \/ /\ "save" \in Failures
          /\ tasks' = s /\ taskFile' \in {taskFile, new}
          /\ UNCHANGED downloads
    /\ Discard(Unrecovered)
    /\ UNCHANGED <<opVars, loader, signalled, closed, flight>>

\* cancel: refused once an operation is bound; a download is signalled; a
\* package that waits for confirmation is discarded first.
Cancel(t) ==
    LET r == Synced(t)
        done == [tasks EXCEPT ![t] = [r EXCEPT !.st = "cancelled"]] IN
    /\ MayInspect({t})
    /\ r.st \in Downloading \cup {"awaiting"}
    /\ signalled' = IF Claimed(t) THEN signalled \cup {t} ELSE signalled
    /\ IF r.st = "awaiting"
       THEN \/ Removed(t) /\ orphans' = orphans \ {t} /\ Write(done)
            \/ Remains(t) /\ UNCHANGED <<orphans, taskVars>>
       ELSE UNCHANGED staging /\ Write(done)
    /\ UNCHANGED <<opVars, downloads, loader, closed, flight>>

\* cancel or install of a task that is past it: what _sync found stays in
\* memory, and is not saved.
TooLate(t) ==
    /\ MayInspect({t})
    /\ Synced(t) # tasks[t]
    /\ Synced(t).st \in TaskEnded \cup {"installing"}
    /\ tasks' = [tasks EXCEPT ![t] = Synced(t)]
    /\ Discard(Unrecovered \cap {t})
    /\ UNCHANGED <<opVars, taskFile, loaderVars, closed, flight>>

----------------------------------------------------------------------------
(* do_v1_install: from the store (install) or as a request of its own.     *)

\* An upload that already has its operation gets that operation again.
Replay(t) ==
    /\ FinalizeFree /\ ~closed
    /\ Bound(t)
    /\ tasks[t].up /\ Synced(t).st \in {"installing", "succeeded"}
    /\ Write([tasks EXCEPT ![t] = Synced(t)])
    /\ UNCHANGED <<opVars, loaderVars, closed, staging, flight>>

\* Mutant: the operation an upload already has is not looked up.
FinalizeAgain(u, store) ==
    /\ FinalizeFree
    /\ store => ~closed /\ Synced(u).st = "awaiting"
    /\ upload[u] \in Installable
    /\ flight' = [up |-> u, store |-> store, at |-> "verified"]
    /\ UNCHANGED <<opVars, taskVars, loaderVars, closed, staging>>

Finalize(u, store) ==
    /\ FinalizeFree
    /\ store => ~closed /\ Synced(u).st = "awaiting"
    /\ ~Bound(u)
    /\ upload[u] \in Installable
    /\ flight' = [up |-> u, store |-> store, at |-> "verified"]
    /\ UNCHANGED <<opVars, taskVars, loaderVars, closed, staging>>

\* The update is outside any try: when it raises nobody takes the status back.
QueueUpload ==
    LET u == flight.up IN
    /\ flight.at = "verified"
    /\ \/ UploadSet(u, "install_queued") /\ flight' = [flight EXCEPT !.at = "submit"]
       \/ UploadRaises(u, "unreported") /\ flight' = NoFlight
    /\ UNCHANGED <<opVars, taskVars, loaderVars, closed, orphans>>

Submit ==
    LET u == flight.up
        a == AppOf[u] IN
    /\ flight.at = "submit"
    /\ \/ Accept(a, u) /\ flight' = [flight EXCEPT !.at = "accepted"]
       \/ Uncertain(a, u) /\ flight' = [flight EXCEPT !.at = "drop"]
       \/ Refused(a) /\ flight' = [flight EXCEPT !.at = "rollback"] /\ UNCHANGED opVars
    /\ UNCHANGED <<taskVars, loaderVars, closed, staging>>

\* Mutant: a refused submission leaves the upload in install_queued.
RollbackForgets ==
    /\ flight.at = "rollback"
    /\ flight' = NoFlight
    /\ UNCHANGED <<opVars, taskVars, loaderVars, closed, staging>>

\* A refused submission can be tried again with the same upload.
Rollback ==
    LET u == flight.up IN
    /\ flight.at = "rollback"
    /\ \/ UploadSet(u, "preflighted") /\ UNCHANGED orphans
       \/ (~Present(u) \/ "save" \in Failures) /\ RemoveOrMark(u)
       \/ /\ {"save", "remove"} \subseteq Failures
          /\ UploadSet(u, "preflighted") /\ orphans' = orphans \cup {u}
    /\ flight' = NoFlight
    /\ UNCHANGED <<opVars, taskVars, loaderVars, closed>>

DropUpload ==
    /\ flight.at = "drop"
    /\ RemoveOrMark(flight.up)
    /\ flight' = NoFlight
    /\ UNCHANGED <<opVars, taskVars, loaderVars, closed>>

\* The answer; the operation may be over by now.
Answer ==
    /\ flight.at = "accepted"
    /\ IF flight.store
       THEN Write([tasks EXCEPT ![flight.up] =
                SyncedWith([@ EXCEPT !.st = "installing"], Status(flight.up), upload[flight.up])])
       ELSE UNCHANGED taskVars
    /\ flight' = NoFlight
    /\ UNCHANGED <<opVars, loaderVars, closed, staging>>

\* DELETE of an upload, and the collection of expired staging: neither takes
\* an upload in an active state, but collection takes what is marked.
DeleteUpload(u) ==
    /\ FinalizeFree
    /\ upload[u] \in Staged
    /\ Removed(u)
    /\ orphans' = orphans \ {u}
    /\ UNCHANGED <<opVars, taskVars, loaderVars, closed, flight>>
\* Mutant: collection looks at the age only.
CollectAnyStatus(u) ==
    /\ Present(u)
    /\ Removed(u)
    /\ orphans' = orphans \ {u}
    /\ UNCHANGED <<opVars, taskVars, loaderVars, closed, flight>>

Collect(u) ==
    /\ upload[u] \in Staged \/ (u \in orphans /\ Present(u))
    /\ Removed(u)
    /\ orphans' = orphans \ {u}
    /\ UNCHANGED <<opVars, taskVars, loaderVars, closed, flight>>

\* Any other queued mutation of an application.
Mutate(a) ==
    /\ Cardinality(Bindings(records, None)) < MaxOthers
    /\ Accept(a, None) \/ Uncertain(a, None)
    /\ UNCHANGED <<taskVars, loaderVars, closed, staging, flight>>

----------------------------------------------------------------------------
(* install_job, in the operation worker.                                   *)

BeginInstall ==
    LET u == worker.job.up IN
    /\ u # None
    /\ \/ /\ CallGoes("call", "install")
          /\ UploadSet(u, "installing")
       \/ /\ CallEnds("call", "mark", FALSE)
          /\ UploadRaises(u, "installing")
    /\ UNCHANGED <<taskVars, loaderVars, closed, orphans, flight>>

\* do_install returned or raised; without the package it can only raise.
EndInstall ==
    /\ \E ok \in BOOLEAN :
          /\ CallEnds("install", "mark", ok)
          /\ ok => Present(worker.job.up)
    /\ UNCHANGED <<taskVars, loaderVars, closed, staging, flight>>

MarkUpload ==
    LET u == worker.job.up IN
    /\ CallGoes("mark", "clean")
    /\ UploadSet(u, IF worker.ok THEN "installed" ELSE "failed") \/ UploadKept(u)
    /\ UNCHANGED <<taskVars, loaderVars, closed, orphans, flight>>

CleanUpload ==
    /\ CallGoes("clean", "finish")
    /\ RemoveOrMark(worker.job.up)
    /\ UNCHANGED <<taskVars, loaderVars, closed, flight>>

\* The callback of any other mutation.
OtherCall ==
    /\ worker.job.up = None
    /\ \E ok \in BOOLEAN : CallEnds("call", "finish", ok)
    /\ UNCHANGED <<taskVars, loaderVars, closed, staging, flight>>

WorkerStep ==
    \/ /\ Take \/ StartOperation \/ FinishOperation
       /\ UNCHANGED <<taskVars, loaderVars, closed, staging, flight>>
    \/ BeginInstall \/ EndInstall \/ MarkUpload \/ CleanUpload \/ OtherCall

----------------------------------------------------------------------------
(* The download worker.                                                    *)

Load(from, to) == loader.at = from /\ loader' = [loader EXCEPT !.at = to]
Errs(from) == Load(from, "error") /\ UNCHANGED taskVars

\* _update: refuses a cancelled task; a save that raises ends the download.
Report(from, to, r) ==
    LET t == loader.task
        new == [tasks EXCEPT ![t] = r] IN
    /\ loader.at = from
    /\ StoreFree
    /\ tasks[t].st # "cancelled"
    /\ \/ Load(from, to) /\ tasks' = new /\ taskFile' = new
       \/ /\ "save" \in Failures
          /\ Load(from, "error") /\ tasks' = new /\ taskFile' \in {taskFile, new}
Stops(from) == Errs(from) /\ StoreFree /\ tasks[loader.task].st = "cancelled"

TakeTask ==
    /\ loader.at = "idle" /\ downloads # << >>
    /\ loader' = [task |-> Head(downloads), at |-> "begin"]
    /\ downloads' = Tail(downloads)
    /\ UNCHANGED <<opVars, taskVars, signalled, closed, staging, flight>>

BeginLoad ==
    /\ \/ Report("begin", "resolve", [tasks[loader.task] EXCEPT !.st = "downloading"])
       \/ Stops("begin")
    /\ UNCHANGED <<opVars, downloads, signalled, closed, staging, flight>>

\* The catalog, the quota, and on_reserved; a failure removes the directory.
Reserve ==
    LET t == loader.task IN
    /\ \/ /\ Report("resolve", "transfer", [tasks[t] EXCEPT !.up = TRUE])
          /\ upload' = [upload EXCEPT ![t] = IF loader'.at = "transfer" THEN "receiving" ELSE "gone"]
       \/ Errs("resolve") /\ UNCHANGED upload
    /\ UNCHANGED <<opVars, downloads, signalled, closed, orphans, flight>>

\* receive_download; it may still raise when the package has its own name.
Transfer ==
    LET t == loader.task
        published == upload' = [upload EXCEPT ![t] = "uploaded"] IN
    /\ \/ Load("transfer", "check") /\ published
       \/ Load("transfer", "error") /\ (Removed(t) \/ ("save" \in Failures /\ published))
    /\ UNCHANGED <<opVars, taskVars, downloads, signalled, closed, orphans, flight>>

BeginPreflight ==
    /\ \/ Report("check", "preflight", [tasks[loader.task] EXCEPT !.st = "preflighting"])
       \/ Stops("check")
       \/ Errs("check") /\ loader.task \in signalled
    /\ UNCHANGED <<opVars, downloads, signalled, closed, staging, flight>>

\* A package that fails its preflight is marked and removed, each if possible.
RejectedRemains(t) ==
    /\ "remove" \in Failures
    /\ \E s \in {"rejected"} \cup (IF "save" \in Failures THEN {upload[t], "preflighted"} ELSE {}) :
          UploadSet(t, s)

Preflight ==
    LET t == loader.task IN
    /\ \/ Load("preflight", "validate") /\ UploadSet(t, "preflighted")
       \/ Load("preflight", "error") /\ (Removed(t) \/ RejectedRemains(t))
    /\ UNCHANGED <<opVars, taskVars, downloads, signalled, closed, orphans, flight>>

Validate ==
    /\ \/ Report("validate", "done", [tasks[loader.task] EXCEPT !.st = "awaiting"])
       \/ StoreFree /\ Errs("validate")
    /\ UNCHANGED <<opVars, downloads, signalled, closed, staging, flight>>

\* Mutant: a failure that cannot be saved is not recorded at all.
LoadFailsUnsaved ==
    LET t == loader.task
        new == [tasks EXCEPT ![t].st =
                    IF t \in signalled /\ ~closed THEN "cancelled" ELSE "failed"] IN
    /\ Load("error", "done")
    /\ MayInspect({t})
    /\ Discard({u \in {t} : tasks[u].up})
    /\ \/ tasks' = new /\ taskFile' = new
       \/ "save" \in Failures /\ UNCHANGED taskVars
    /\ UNCHANGED <<opVars, downloads, signalled, closed, flight>>

LoadFails ==
    LET t == loader.task IN
    /\ Load("error", "done")
    /\ MayInspect({t})
    /\ Discard({u \in {t} : tasks[u].up})
    /\ Write([tasks EXCEPT ![t].st =
                 IF t \in signalled /\ ~closed THEN "cancelled" ELSE "failed"])
    /\ UNCHANGED <<opVars, downloads, signalled, closed, flight>>

LoadDone ==
    /\ StoreFree
    /\ loader.at = "done"
    /\ loader' = NoLoad
    /\ signalled' = signalled \ {loader.task}
    /\ UNCHANGED <<opVars, taskVars, downloads, closed, staging, flight>>

LoaderStep ==
    \/ TakeTask \/ BeginLoad \/ Reserve \/ Transfer \/ BeginPreflight
    \/ Preflight \/ Validate \/ LoadFails \/ LoadDone

----------------------------------------------------------------------------
(* Shutdown, crash, restart.                                               *)

CloseStore ==
    /\ StoreFree /\ ~closed
    /\ closed' = TRUE
    /\ signalled' = signalled \cup {t \in Tasks : Claimed(t)}
    /\ UNCHANGED <<opVars, taskVars, downloads, loader, staging, flight>>
CloseOperations ==
    /\ closed /\ RefuseNew
    /\ UNCHANGED <<taskVars, loaderVars, closed, staging, flight>>

\* The process ends, at any point, and a new one starts: recover_startup on
\* the staging area, then the two managers on their journals.  stuck and
\* kept are the directories that could not be removed.
Restart ==
    LET lost == {u \in Uploads : upload[u] \in ActiveUpload \ {"receiving"}}
        broken(t) == taskFile[t].st \in Downloading
        status(t) == StatusIn(Recovered, t) IN
    \E stuck \in SUBSET lost :
        LET left == [u \in Uploads |->
                        IF upload[u] = "receiving" \/ u \in lost \ stuck THEN "gone"
                        ELSE IF u \in stuck THEN "interrupted" ELSE upload[u]]
            loaded(t) == IF broken(t) THEN [taskFile[t] EXCEPT !.st = "failed"] ELSE taskFile[t]
            after == [t \in Tasks |-> SyncedWith(loaded(t), status(t), left[t])]
            dropped == {t \in Tasks : /\ taskFile[t].up /\ status(t) = "none"
                                      /\ broken(t) \/ taskFile[t].st = "installing"
                                      /\ left[t] \in Staged}
        IN  \E kept \in SUBSET dropped :
                /\ stuck \cup kept # {} => "remove" \in Failures
                /\ upload' = [u \in Uploads |-> IF u \in dropped \ kept THEN "gone" ELSE left[u]]
                /\ orphans' = stuck \cup kept
                /\ tasks' = after /\ taskFile' = after
                /\ RestartOperations
                /\ downloads' = << >> /\ loader' = NoLoad /\ signalled' = {}
                /\ closed' = FALSE /\ flight' = NoFlight

----------------------------------------------------------------------------
FlightStep == QueueUpload \/ Submit \/ Rollback \/ DropUpload \/ Answer

Request ==
    \/ Look \/ CloseStore \/ CloseOperations
    \/ \E t \in Tasks : Create(t) \/ Cancel(t) \/ TooLate(t) \/ Replay(t)
    \/ \E u \in Uploads : \E store \in BOOLEAN : Finalize(u, store)
    \/ \E u \in Uploads : DeleteUpload(u) \/ Collect(u)
    \/ \E a \in Apps : Mutate(a)

Next == Request \/ FlightStep \/ WorkerStep \/ LoaderStep \/ Restart

Spec == Init /\ [][Next]_vars

\* The two workers and a request under way go on; clients, collection and
\* the end of the process are free.  The loader waits for two locks that
\* every request lets go of again: it gets them some time.
FairSpec ==
    Spec /\ WF_vars(FlightStep) /\ WF_vars(WorkerStep) /\ SF_vars(LoaderStep)
----------------------------------------------------------------------------
TypeOK ==
    /\ records \in Seq(OperationRecord) /\ journal \in Seq(OperationRecord)
    /\ Len(records) <= MaxHistory /\ Len(journal) <= MaxHistory
    /\ pending \in Seq([id : Ids, app : Apps, up : Uploads \cup {None}])
    /\ worker.at \in {"idle", "taken", "call", "install", "mark", "clean", "finish"}
    /\ \A f \in {tasks, taskFile} : f \in [Tasks -> [st : Downloading \cup TaskEnded \cup
                        {"free", "awaiting", "installing"}, up : BOOLEAN]]
    /\ downloads \in Seq(Tasks) /\ signalled \subseteq Tasks
    /\ upload \in [Uploads -> Staged \cup ActiveUpload \cup {"none", "gone"}]
    /\ orphans \subseteq Uploads
    /\ flight.at \in {"idle", "verified", "submit", "accepted", "rollback", "drop"}

\* A staged package has one operation among those remembered, and one among
\* those still to run.
OneOperationPerPackage ==
    \A u \in Uploads :
        /\ Cardinality(Bindings(records, u)) <= 1
        /\ Cardinality({i \in DOMAIN pending : pending[i].up = u})
               + (IF worker.job.up = u THEN 1 ELSE 0) <= 1

\* One mutation per application: two accepted callbacks that have not ended
\* never belong to one application.
OneOperationPerApp ==
    /\ \A i, j \in DOMAIN pending : i # j => pending[i].app # pending[j].app
    /\ \A i \in DOMAIN pending : pending[i].app # worker.job.app

\* "appmgr does not re-run an installation by itself": whatever is retried,
\* lost with a crash or left behind by a failed removal, and through whatever
\* route it comes, an installation is accepted once.
InstallOnce == OneOperationPerPackage /\ OneOperationPerApp

\* Nobody deletes the bytes that do_install is reading.
PackageHeld == worker.at = "install" => upload[worker.job.up] = "installing"

\* No package stays in a state that DELETE refuses and collection skips with
\* nobody left to move it on.  There is one exception in the code: where the
\* update at server.py:3663 raises after the status is on disk, the package is
\* nobody's until the next start.  It has no operation and cannot get one
\* before that: no installation of it is accepted, run or answered for.
ActiveUploadOwned ==
    \A u \in Uploads :
        /\ upload[u] \in {"install_queued", "installing"} =>
              \/ flight.up = u \/ worker.job.up = u \/ u \in orphans
              \/ \E i \in DOMAIN pending : pending[i].up = u
        /\ upload[u] = "unreported" => ~Bound(u) /\ flight.up # u

\* A task that says it downloads is in the queue or in the loader's hands,
\* so it cannot hold one of the MaxActive places for ever; and the queue,
\* which has no more room than that, never overflows.
DownloadOwned ==
    /\ \A t \in Tasks : tasks[t].st \in Downloading => Claimed(t)
    /\ Len(downloads) <= MaxActive

\* Through refusals, failed saves and crashes nothing is left in a state that
\* only somebody who is gone could end, but for a package whose request failed
\* while its status was being saved.
NothingStranded == ActiveUploadOwned /\ DownloadOwned

\* Every accepted operation ends, though saves fail and the process dies.
OperationsEnd ==
    \A u \in Uploads : (Status(u) \in Active) ~> (Status(u) \notin Active)
\* Every download ends: ready for confirmation, failed or cancelled.
DownloadsEnd ==
    \A t \in Tasks : (tasks[t].st \in Downloading) ~> (tasks[t].st \notin Downloading)

\* Nothing that was accepted stays under way for ever (operations.py:304-339,
\* store_tasks.py:324-359).
WorkEnds == OperationsEnd /\ DownloadsEnd
=============================================================================
