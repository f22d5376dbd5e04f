-------------------------- MODULE RecordingBridge --------------------------
(***************************************************************************)
(* The way of one application's results to the recorder: the queue of the  *)
(* Result Hub observer (result_hub.py, _ObserverWorker), the bridge that   *)
(* checks and queues them (recording.py, RecordingTriggerBridge) and its   *)
(* worker, which alone owns the connection to the recorder.                *)
(*                                                                         *)
(* Result Hub revokes a generation under its publish fence: what is queued *)
(* is dropped, the epoch advances and a reset is put first in the queue.   *)
(*                                                                         *)
(* A result is told apart by its generation alone.  Which of two results a *)
(* full queue keeps depends in the code on their kinds (a frame gives way  *)
(* to a newer frame or to an event); here either may be lost.              *)
(***************************************************************************)
EXTENDS Naturals, Sequences, SequencesExt

CONSTANTS
    Generations,   \* generations of the application: numbers from 1
    Recording,     \* those whose manifest declares a recording trigger
    None,          \* no generation, no capability, no action
    OfferMax,      \* bound of the observer's queue
    QueueMax       \* bound of the bridge's queue

Actions == [gen : Generations \cup {None}, epoch : Nat \ {0}]

ASSUME BridgeAssumption ==
    /\ Generations \subseteq Nat \ {0} /\ Recording \subseteq Generations
    /\ None \notin Generations /\ None \notin Actions
    /\ {OfferMax, QueueMax} \subseteq Nat \ {0}

VARIABLES
    offers,      \* the observer's queue: the generations of its envelopes
    observing,   \* what observe() works on: [gen, epoch], with the epoch it has read
    capability,  \* None, or [gen, epoch]: the generation authorized to trigger recordings
    epoch,       \* the epoch of the source, 0 when the bridge has forgotten it
    queue,       \* the bridge's actions: [gen, epoch], gen None for a reset
    hand,        \* the action the worker has taken, and whether it has been checked
    sink,        \* the connection to the recorder: "closed" or "open"
    known,       \* whether a reset has opened this source on the connection
    held         \* the generation whose data the recorder holds since the last reset

bridgeVars == <<offers, observing, capability, epoch, queue, hand, sink, known, held>>

Reset(e) == [gen |-> None, epoch |-> e]
Idle == [action |-> None, checked |-> FALSE]

BridgeTypeOK ==
    /\ offers \in Seq(Generations) /\ Len(offers) <= OfferMax
    /\ observing = None \/ observing \in [gen : Generations, epoch : Nat \ {0}]
    /\ capability = None \/ capability \in [gen : Recording, epoch : Nat \ {0}]
    /\ epoch \in Nat
    /\ queue \in Seq(Actions) /\ Len(queue) <= QueueMax
    /\ hand = Idle \/ hand \in [action : Actions, checked : BOOLEAN]
    /\ sink \in {"closed", "open"} /\ known \in BOOLEAN
    /\ held \in Generations \cup {None}

BridgeInit ==
    /\ offers = <<>> /\ observing = None /\ capability = None /\ epoch = 0
    /\ queue = <<>> /\ hand = Idle /\ sink = "closed" /\ known = FALSE /\ held = None

-----------------------------------------------------------------------------
(* The two queues. *)

Accepts(gen) == capability # None /\ capability.gen = gen

\* Mutant: a full queue takes one more.
ArrivalUnbounded(q, x, max, lossy) == {Append(q, x)}

(* What a queue may become when x arrives: at its bound it loses x or, for *)
(* x, one of the entries that are `lossy`.                                 *)
Arrival(q, x, max, lossy) ==
    IF Len(q) < max THEN {Append(q, x)}
    ELSE {q} \cup {Append(RemoveAt(q, i), x) : i \in lossy}

Offered(q, gen) ==
    IF Accepts(gen) THEN Arrival(q, gen, OfferMax, DOMAIN q) ELSE {q}

(* A reset is first in the queue and never lost. *)
Queued(q, action) ==
    Arrival(q, action, QueueMax, {i \in DOMAIN q : q[i].gen # None})

-----------------------------------------------------------------------------
Declares(gen) == gen \in Recording

(* invalidate_source, of the observer's queue and of the bridge, for the   *)
(* generation that follows (None: no generation).  Everything queued is    *)
(* of this source, so that the reset is all that stays.                    *)
Revoke(gen) ==
    /\ offers' = <<>>
    /\ epoch' = epoch + 1
    /\ capability' = IF Declares(gen) THEN [gen |-> gen, epoch |-> epoch + 1] ELSE None
    /\ queue' = <<Reset(epoch + 1)>>
    /\ UNCHANGED <<observing, hand, sink, known, held>>

(* observe() reads the capability, builds its payload without the lock, and*)
(* reads the capability again before it queues the action.                 *)
ObserveRead ==
    /\ observing = None /\ offers # <<>>
    /\ offers' = Tail(offers)
    /\ observing' = IF Accepts(Head(offers))
                    THEN [gen |-> Head(offers), epoch |-> capability.epoch] ELSE None
    /\ UNCHANGED <<capability, epoch, queue, hand, sink, known, held>>

ObserveQueue ==
    /\ observing # None /\ observing' = None
    /\ queue' \in IF Accepts(observing.gen) /\ capability.epoch = observing.epoch
                  THEN Queued(queue, observing) ELSE {queue}
    /\ UNCHANGED <<offers, capability, epoch, hand, sink, known, held>>

Take ==
    /\ hand = Idle /\ queue # <<>>
    /\ hand' = [action |-> Head(queue), checked |-> FALSE] /\ queue' = Tail(queue)
    /\ UNCHANGED <<offers, observing, capability, epoch, sink, known, held>>

IsCurrent(a) ==
    /\ a.epoch = epoch
    /\ a.gen = None \/ (capability # None /\ capability.epoch = a.epoch)

(* The connection is opened without the lock, and the epoch checked after; *)
(* an action that finds no connection, or is not current, is dropped.      *)
Dispatch ==
    /\ hand # Idle /\ ~hand.checked
    /\ \/ sink' = "open" /\ hand' = IF IsCurrent(hand.action) THEN [hand EXCEPT !.checked = TRUE] ELSE Idle
       \/ sink = "closed" /\ hand' = Idle /\ UNCHANGED sink
    /\ UNCHANGED <<offers, observing, capability, epoch, queue, known, held>>

(* After its reset, a source that may not record is forgotten. *)
SendReset ==
    /\ hand.checked /\ hand.action.gen = None
    /\ held' = None /\ hand' = Idle
    /\ IF epoch = hand.action.epoch /\ capability = None
       THEN epoch' = 0 /\ known' = FALSE
       ELSE known' = TRUE /\ UNCHANGED epoch
    /\ UNCHANGED <<offers, observing, capability, queue, sink>>

SendData ==
    /\ hand.checked /\ hand.action.gen # None
    /\ held' = hand.action.gen /\ known' = TRUE /\ hand' = Idle
    /\ UNCHANGED <<offers, observing, capability, epoch, queue, sink>>

\* Mutant: a failed send keeps the connection, and with it what the recorder holds.
SendFailsOpen ==
    /\ hand.checked /\ hand' = Idle
    /\ UNCHANGED <<offers, observing, capability, epoch, queue, sink, known, held>>

(* A send that fails closes the connection; the recorder then resets every *)
(* source it has seen on it.                                               *)
SendFails ==
    /\ hand.checked /\ hand' = Idle
    /\ sink' = "closed" /\ known' = FALSE /\ held' = None
    /\ UNCHANGED <<offers, observing, capability, epoch, queue>>

Worker == Take \/ Dispatch \/ SendReset \/ SendData \/ SendFails

BridgeNext == ObserveRead \/ ObserveQueue \/ Worker

-----------------------------------------------------------------------------
(* Properties. *)

(* What the recorder holds comes from the generation that is authorized    *)
(* now, or the reset that clears it is on its way and goes first: nothing  *)
(* of a revoked generation reaches the recorder behind its reset           *)
(* (recording.py:392-436, 578-586, 643-660).                               *)
RecordingFenced ==
    held # None /\ ~(capability # None /\ capability.gen = held)
        => \/ queue # <<>> /\ Head(queue).gen = None
           \/ hand.action # None /\ hand.action.gen = None
=============================================================================
