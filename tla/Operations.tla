----------------------------- MODULE Operations -----------------------------
(***************************************************************************)
(* The durable operation registry of the App Center control plane,         *)
(* market/appmgr/operations.py: an in-memory list of records, its journal  *)
(* on disk, a bounded queue, and one worker thread that runs the accepted  *)
(* callbacks in order.  What a callback does belongs to the module that    *)
(* extends this one (PackageInstall); here it is the step from "call" to   *)
(* "finish".  Event fan-out is left out: it never decides an operation.    *)
(***************************************************************************)
EXTENDS Integers, FiniteSets, SequencesExt

CONSTANTS
    Apps,
    Uploads,      \* staged packages: the idempotency key of an installation
    None,
    MaxPending,   \* MAX_PENDING_OPERATIONS
    MaxHistory,   \* MAX_HISTORY
    Failures      \* "save": a journal write may raise; "remove": rmtree may

ASSUME HistoryHoldsQueue ==
    /\ MaxPending \in Nat \ {0}
    /\ MaxHistory \in Nat /\ MaxPending + 2 <= MaxHistory
    /\ Failures \subseteq {"save", "remove"}
    /\ None \notin Apps \cup Uploads

VARIABLES
    records,   \* _records: what this process answers
    journal,   \* the file a restart reads
    pending,   \* _queue
    worker,    \* the worker thread: operation, place in _run, outcome
    refusing   \* _closed

opVars == <<records, journal, pending, worker, refusing>>

Active == {"queued", "running"}
Ended == {"succeeded", "failed"}
\* What a queued callback closes over, and the worker that runs it.
Job(r) == [id |-> r.id, app |-> r.app, up |-> r.up]
NoJob == [id |-> 0, app |-> None, up |-> None]
Idle == [job |-> NoJob, at |-> "idle", ok |-> FALSE]

\* A record can be in two files, in the queue and in the worker's hands.
Ids == 1..(2 * MaxHistory + MaxPending + 2)
IdsOf(s) == {s[i].id : i \in DOMAIN s}
\* uuid4: an identity nothing else has.
FreshId ==
    LET used == IdsOf(records) \cup IdsOf(journal) \cup IdsOf(pending) \cup {worker.job.id}
    IN  CHOOSE n \in Ids \ used : \A m \in Ids \ used : n <= m

\* for_upload: the status of the newest record with this upload.
Bindings(s, u) == {i \in DOMAIN s : s[i].up = u}
StatusIn(s, u) ==
    IF Bindings(s, u) = {} THEN "none"
    ELSE s[CHOOSE i \in Bindings(s, u) : \A j \in Bindings(s, u) : j <= i].st
Status(u) == StatusIn(records, u)
Bound(u) == Status(u) # "none"
AppActive(a) == \E i \in DOMAIN records : records[i].app = a /\ records[i].st \in Active
Latest(s) == IF Len(s) > MaxHistory THEN SubSeq(s, Len(s) - MaxHistory + 1, Len(s)) ELSE s

\* _save: it writes the whole file, or raises before or after replacing it.
Saved(s) == journal' = s
Raised(S) == "save" \in Failures /\ journal' \in {journal} \cup S

\* What a daemon that starts on the journal makes of a record.
Interrupt(r) == IF r.st \in Active THEN [r EXCEPT !.st = "failed"] ELSE r
Recovered == [i \in DOMAIN journal |-> Interrupt(journal[i])]

----------------------------------------------------------------------------
(* submit().                                                               *)

Refused(a) == refusing \/ AppActive(a) \/ Len(pending) >= MaxPending

Accept(a, u) ==
    LET r == [id |-> FreshId, app |-> a, up |-> u, st |-> "queued"]
        s == Latest(Append(records, r))
    IN  /\ ~Refused(a)
        /\ records' = s
        /\ Saved(s)
        /\ pending' = Append(pending, Job(r))
        /\ UNCHANGED <<worker, refusing>>

\* The journal write raised: nothing is queued, but the record stays as a
\* terminal binding of its upload, and is saved again as far as possible.
Uncertain(a, u) ==
    LET r == [id |-> FreshId, app |-> a, up |-> u, st |-> "queued"]
        s == Latest(Append(records, r))
        f == Latest(Append(records, [r EXCEPT !.st = "failed"]))
    IN  /\ ~Refused(a)
        /\ records' = f
        /\ Raised({s, f})
        /\ UNCHANGED <<pending, worker, refusing>>

----------------------------------------------------------------------------
(* The worker.                                                             *)

\* _update changes the record in memory first; the worker ignores a save
\* that raises.
Update(o, st) ==
    LET s == [i \in DOMAIN records |->
                 IF records[i].id = o THEN [records[i] EXCEPT !.st = st] ELSE records[i]]
    IN  /\ records' = s
        /\ IF o \in IdsOf(records) THEN Saved(s) \/ Raised({s}) ELSE UNCHANGED journal

Take ==
    /\ worker.at = "idle"
    /\ pending # << >>
    /\ worker' = [job |-> Head(pending), at |-> "taken", ok |-> FALSE]
    /\ pending' = Tail(pending)
    /\ UNCHANGED <<records, journal, refusing>>

\* Mutant: a save that raises ends the worker thread.
StartOrDie ==
    /\ worker.at = "taken"
    /\ Update(worker.job.id, "running")
    /\ worker' = [worker EXCEPT !.at = IF journal' = records' THEN "call" ELSE "dead"]
    /\ UNCHANGED <<pending, refusing>>

StartOperation ==
    /\ worker.at = "taken"
    /\ Update(worker.job.id, "running")
    /\ worker' = [worker EXCEPT !.at = "call"]
    /\ UNCHANGED <<pending, refusing>>

\* The callback goes on to its next step, or returns with an outcome.
CallGoes(from, to) ==
    /\ worker.at = from
    /\ worker' = [worker EXCEPT !.at = to]
    /\ UNCHANGED <<records, journal, pending, refusing>>
CallEnds(from, to, ok) ==
    /\ worker.at = from
    /\ worker' = [worker EXCEPT !.at = to, !.ok = ok]
    /\ UNCHANGED <<records, journal, pending, refusing>>

FinishOperation ==
    /\ worker.at = "finish"
    /\ Update(worker.job.id, IF worker.ok THEN "succeeded" ELSE "failed")
    /\ worker' = Idle
    /\ UNCHANGED <<pending, refusing>>

\* close: later submissions are refused; what is queued is still run.
RefuseNew ==
    /\ ~refusing
    /\ refusing' = TRUE
    /\ UNCHANGED <<records, journal, pending, worker>>

----------------------------------------------------------------------------
InitOperations ==
    /\ records = << >> /\ journal = << >> /\ pending = << >>
    /\ worker = Idle /\ refusing = FALSE

\* A new process on the same journal.
RestartOperations ==
    /\ records' = Recovered
    /\ journal' = Recovered
    /\ pending' = << >> /\ worker' = Idle /\ refusing' = FALSE

OperationRecord ==
    [id : Ids, app : Apps, up : Uploads \cup {None}, st : Active \cup Ended]
=============================================================================
