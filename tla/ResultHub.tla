------------------------------ MODULE ResultHub ----------------------------
(***************************************************************************)
(* The results of one application, from the connection of its publisher to *)
(* the viewers and the recorder (appmgr/result_hub.py, with its callers in *)
(* server.py and the connections of gateway.py).                           *)
(*                                                                         *)
(* Three parties act at once: the control plane, which starts and stops    *)
(* generations under the busy gate and tells the hub of some of that; the  *)
(* hello of every connecting publisher, which tells it without the gate;   *)
(* and the results on their way through the ingress queue.                 *)
(* FailedReconcile adds the handler of a reconcile pass that raised.       *)
(*                                                                         *)
(* A generation that has left the live phases does not return to them.     *)
(* (In the code one can, for as long as its stop fails and is retried.)    *)
(***************************************************************************)
EXTENDS RecordingBridge, Filtering

CONSTANTS
    IngressMax,     \* bound of the ingress queue
    Hellos,         \* connections whose hello may be under way at once
    MaxGeneration,  \* bound: generations that are started
    MaxHellos       \* bound: hellos and reconfigurations that are begun

ASSUME HubAssumption ==
    /\ MaxGeneration \in Nat \ {0} /\ 1 .. MaxGeneration \subseteq Generations
    /\ MaxHellos \in Nat /\ IngressMax \in Nat \ {0}

VARIABLES
    live,       \* the live generation of state.json, or None
    told,       \* history: whether the hub has been told of `live` as it is
    started,    \* how many generations have been started
    control,    \* where the control plane stands, under the busy gate: [at, gen]
    hello,      \* the same for every hello under way
    helloed,    \* how many hellos and reconfigurations have begun
    current,    \* _app_generations: the generation the hub accepts, or None
    retired,    \* _retired_app_generations
    ingress,    \* the ingress queue: the generations of its results
    normal,     \* the result the ingress worker has normalised, or None
    replay,     \* _latest_frames: the generation of the frame, or None
    client      \* the frame queued for a viewer: its generation, or None

hubVars == <<live, told, started, control, hello, helloed, current, retired,
             ingress, normal, replay, client>>
vars == <<hubVars, bridgeVars>>

Rest == [at |-> "idle", gen |-> None]
Stages == {"idle", "start", "read", "refresh", "recheck", "revoke"}
Tasks == [at : Stages, gen : Generations \cup {None}]

TypeOK ==
    /\ BridgeTypeOK
    /\ live \in Generations \cup {None} /\ told \in BOOLEAN
    /\ current \in Generations \cup {None}
    /\ started \in 0 .. MaxGeneration /\ helloed \in 0 .. MaxHellos
    /\ control \in Tasks /\ hello \in [Hellos -> Tasks]
    /\ retired \subseteq Generations
    /\ ingress \in Seq(Generations) /\ Len(ingress) <= IngressMax
    /\ normal \in Generations \cup {None}
    /\ replay \in Generations \cup {None} /\ client \in Generations \cup {None}

Init ==
    /\ BridgeInit
    /\ live = None /\ told = TRUE /\ started = 0 /\ control = Rest
    /\ hello = [h \in Hellos |-> Rest] /\ helloed = 0
    /\ current = None /\ retired = {}
    /\ ingress = <<>> /\ normal = None /\ replay = None /\ client = None

-----------------------------------------------------------------------------
(* The two operations of the hub, each one step under the publish fence.   *)

PurgeTo(gen) ==
    /\ replay' = IF replay = gen THEN replay ELSE None
    /\ ingress' = Keep(ingress, {gen})

(* refresh_app_manifest: a retired or an older generation changes nothing, *)
(* and its caller is told that all is well.                                *)
Refresh(gen) ==
    IF gen \in retired \/ (current # None /\ gen < current)
    THEN UNCHANGED <<current, retired, replay, ingress, client, bridgeVars>>
    ELSE /\ current' = gen
         /\ retired' = retired \cup ({current} \ {None, gen})
         /\ PurgeTo(gen)
         /\ client' = IF current # gen THEN None ELSE client
         /\ Revoke(gen)

(* invalidate_app_manifest without an identity: whatever is current. *)
Invalidate ==
    /\ current' = None /\ retired' = retired \cup ({current} \ {None})
    /\ client' = None /\ PurgeTo(None) /\ Revoke(None)

\* Mutant: a caller that lost the race revokes whatever is current.
InvalidateAny(gen) == Invalidate

(* With an identity: a compare-and-swap, nothing when another has won. *)
InvalidateExactly(gen) ==
    IF current = gen THEN Invalidate
    ELSE UNCHANGED <<current, retired, replay, ingress, client, bridgeVars>>

-----------------------------------------------------------------------------
(* The control plane.  One operation at a time holds the busy gate. *)

Gated == control.at = "idle"

(* A process is minted.  The requests that start, restart, configure or    *)
(* install an application then refresh the hub; the reconciler, boot,      *)
(* switch, activate and the way back from these do not, and the hub learns *)
(* of the generation from its publisher's hello.                           *)
Start ==
    /\ Gated \/ control.at = "start"
    /\ live = None /\ started < MaxGeneration
    /\ started' = started + 1 /\ live' = started + 1 /\ told' = FALSE
    /\ \E at \in {"read", "idle"} : control' = [Rest EXCEPT !.at = at]
    /\ UNCHANGED <<hello, helloed, current, retired, ingress, normal,
                   replay, client, bridgeVars>>

(* The application stops, fails or crashes; state.json says so first.  The *)
(* hub is told next ("revoke"), or the same operation starts it again      *)
(* ("start": a restart, or the reconciler that has observed a crash), or   *)
(* nobody tells the hub ("idle": the retry of an incomplete teardown).     *)
Stop ==
    /\ Gated /\ {live, current} # {None}
    /\ live' = None /\ told' = (told /\ live = None)
    /\ \E at \in {"revoke", "start", "idle"} : control' = [Rest EXCEPT !.at = at]
    /\ UNCHANGED <<started, hello, helloed, current, retired, ingress,
                   normal, replay, client, bridgeVars>>

(* _invalidate_result_if_inactive, also of a start that did not succeed. *)
ControlRevoke ==
    /\ control.at \in {"revoke", "start"} /\ control' = Rest
    /\ Invalidate /\ told' = TRUE
    /\ UNCHANGED <<live, started, hello, helloed, normal>>

(* A running application is configured; its generation is refreshed. *)
Reconfigure ==
    /\ Gated /\ live # None /\ helloed < MaxHellos
    /\ helloed' = helloed + 1 /\ control' = [Rest EXCEPT !.at = "read"]
    /\ UNCHANGED <<live, told, started, hello, current, retired, ingress, normal,
                   replay, client, bridgeVars>>

(* _refresh_result_manifest and _resolve_result_identity are the same four *)
(* steps: read the live identity, refresh the hub, read the identity again,*)
(* and revoke exactly it when it is no longer live.                        *)
Read ==
    IF live = None THEN Rest ELSE [at |-> "refresh", gen |-> live]

Refreshing(task) == task.at = "refresh" /\ Refresh(task.gen) /\ UNCHANGED told

Rechecked(task) ==
    /\ task.at = "recheck"
    /\ \/ /\ live = task.gen /\ told' = TRUE
          /\ UNCHANGED <<current, retired, replay, ingress, client, bridgeVars>>
       \/ live # task.gen /\ InvalidateExactly(task.gen) /\ UNCHANGED told

ControlRefresh ==
    /\ \/ /\ control.at = "read" /\ control' = Read
          /\ UNCHANGED <<told, current, retired, replay, ingress, client, bridgeVars>>
       \/ Refreshing(control) /\ control' = [control EXCEPT !.at = "recheck"]
       \/ Rechecked(control) /\ control' = Rest
    /\ UNCHANGED <<live, started, hello, helloed, normal>>

Hello(h) ==
    /\ \/ /\ hello[h] = Rest /\ live # None /\ helloed < MaxHellos
          /\ hello' = [hello EXCEPT ![h] = Read] /\ helloed' = helloed + 1
          /\ UNCHANGED <<told, current, retired, replay, ingress, client, bridgeVars>>
       \/ /\ Refreshing(hello[h])
          /\ hello' = [hello EXCEPT ![h].at = "recheck"] /\ UNCHANGED helloed
       \/ Rechecked(hello[h]) /\ hello' = [hello EXCEPT ![h] = Rest] /\ UNCHANGED helloed
    /\ UNCHANGED <<live, started, control, normal>>

-----------------------------------------------------------------------------
(* The results. *)

(* submit_app: a connection outlives its generation, and what it then      *)
(* sends is rejected.  The generation is looked up before the lock of the  *)
(* queue is taken: a revocation in between, which retires it, leaves the   *)
(* result behind in the queue it has purged.                               *)
Submit(gen) ==
    /\ gen = current \/ gen \in retired
    /\ ingress' \in Arrival(ingress, gen, IngressMax, DOMAIN ingress) \ {ingress}
    /\ UNCHANGED <<live, told, started, control, hello, helloed, current, retired, normal,
                   replay, client, bridgeVars>>

(* The worker takes a result and normalises it, outside the publish fence. *)
Normalise ==
    /\ normal = None /\ ingress # <<>>
    /\ ingress' = Tail(ingress)
    /\ normal' = IF Head(ingress) = current THEN current ELSE None
    /\ UNCHANGED <<live, told, started, control, hello, helloed, current, retired, replay,
                   client, bridgeVars>>

\* Mutant: the generation is not checked again under the fence.
PublishUnfenced ==
    /\ normal # None /\ normal' = None
    /\ offers' \in Offered(offers, normal)
    /\ replay' = normal /\ client' = normal
    /\ UNCHANGED <<live, told, started, control, hello, helloed, current, retired, ingress,
                   observing, capability, epoch, queue, hand, sink, known, held>>

(* Under the fence the generation is checked again.  A frame is for viewers*)
(* and observers, a recording request for the bridge only.                 *)
Publish ==
    /\ normal # None /\ normal' = None
    /\ \/ normal # current /\ UNCHANGED <<replay, client, offers>>
       \/ /\ normal = current /\ offers' \in Offered(offers, normal)
          /\ \/ replay' = normal /\ client' = normal
             \/ Declares(normal) /\ UNCHANGED <<replay, client>>
    /\ UNCHANGED <<live, told, started, control, hello, helloed, current, retired, ingress,
                   observing, capability, epoch, queue, hand, sink, known, held>>

(* A viewer subscribes (again): its data is dropped and the history is     *)
(* replayed.  Or its writer sends what is queued.                          *)
View ==
    /\ client' \in {replay, None} \ {client}
    /\ UNCHANGED <<live, told, started, control, hello, helloed, current, retired, ingress,
                   normal, replay, bridgeVars>>

Record == BridgeNext /\ UNCHANGED hubVars

-----------------------------------------------------------------------------
Control == ControlRevoke \/ ControlRefresh

Next ==
    \/ Start \/ Stop \/ Reconfigure \/ Control
    \/ \E h \in Hellos : Hello(h)
    \/ \E gen \in Generations : Submit(gen)
    \/ Normalise \/ Publish \/ View \/ Record

Spec == Init /\ [][Next]_vars

(* An operation that holds the gate goes on, a hello that has begun ends.  *)
FairSpec ==
    /\ Spec
    /\ WF_vars(Control)
    /\ \A h \in Hellos : WF_vars(hello[h] # Rest /\ Hello(h))

-----------------------------------------------------------------------------
(* Properties. *)

(* What the hub keeps for viewers belongs to the generation it accepts,    *)
(* which is never a retired one.  Once it has been told of the live        *)
(* generation, it accepts that one and no other: no hello that lost a race *)
(* and no result in flight brings a generation back or displaces its       *)
(* successor (result_hub.py:2556-2561, 3079-3090).  Told that nothing is   *)
(* live, it accepts nothing but what a delayed hello registers and is      *)
(* about to look at again (server.py:904-909).  A hub that has not been    *)
(* told of a restart goes on with the generation before.                   *)
NothingStale ==
    /\ \A gen \in {replay, client} \ {None} : gen = current
    /\ current \notin retired
    /\ told => \/ current = live
               \/ /\ live = None
                  /\ \E h \in Hellos : hello[h] = [at |-> "recheck", gen |-> current]

(* In the end the hub accepts what it has been told of, the generation     *)
(* that is live or none: the hello that was late is undone, and neither it *)
(* nor a revocation of an older generation erases or retires the winner    *)
(* (server.py:876-912, 5093-5094: "a manual new generation must not race   *)
(* an app-wide result tombstone").                                         *)
LiveServed == <>[](told => current = live)
=============================================================================
