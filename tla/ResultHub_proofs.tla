-------------------------- MODULE ResultHub_proofs --------------------------
(***************************************************************************)
(* ResultHub for any number of generations, hellos and results: what the   *)
(* hub shows and what the recorder holds is of the right generation.  Both *)
(* invariants are inductive: HubInv is about who stands where in the race  *)
(* of control plane and hellos, BridgeInv about the way of a reset through *)
(* the queue and the hands of the worker.                                  *)
(***************************************************************************)
EXTENDS ResultHub, SequenceTheorems, CollectionTheorems

-----------------------------------------------------------------------------
(* The hub. *)

(* Generations are numbered as they start; only the last may be live.  A   *)
(* retired one is neither live nor accepted.                               *)
Numbering ==
    /\ started \in 0 .. MaxGeneration
    /\ live \in {None} \cup ({started} \ {0})
    /\ current \in {None} \cup (1 .. started)
    /\ retired \subseteq 1 .. started /\ live \notin retired /\ current \notin retired

(* Where the control plane stands, and what is live by then. *)
ControlPlace ==
    /\ control \in Tasks
    /\ control.at \in {"read", "refresh", "recheck"} => live # None
    /\ control.at \in {"refresh", "recheck"} => control.gen = live
    /\ control.at = "recheck" => current = live
    /\ control.at \in {"start", "revoke"} => live = None

(* A hello speaks of a generation that has been started, and once it has   *)
(* registered the live one, that stays.                                    *)
HelloPlace ==
    /\ hello \in [Hellos -> Tasks]
    /\ \A h \in Hellos :
          /\ hello[h].at \in {"refresh", "recheck"} => hello[h].gen \in 1 .. started
          /\ hello[h].at = "recheck" /\ hello[h].gen = live => current = live

Late(h) == hello[h] = [at |-> "recheck", gen |-> current]

Heard == told => current = live \/ (live = None /\ \E h \in Hellos : Late(h))

Shown == replay \in {None, current} /\ client \in {None, current}

HubInv == Numbering /\ ControlPlace /\ HelloPlace /\ Heard /\ Shown

-----------------------------------------------------------------------------
(* The bridge. *)

Results == [gen : Generations, epoch : Nat \ {0}]

BridgeTypes ==
    /\ epoch \in Nat
    /\ observing \in Results \cup {None} /\ capability \in Results \cup {None}
    /\ queue \in Seq(Actions)
    /\ hand \in [action : Actions \cup {None}, checked : BOOLEAN]

ResetFirst(q) == Len(q) > 0 /\ q[1].gen = None

(* The one reset that may be queued is first and of the present epoch; the *)
(* results queued are those of the present capability.                     *)
InOrder(q) ==
    \A i \in 1 .. Len(q) :
        \/ q[i].gen = None /\ i = 1 /\ q[i].epoch = epoch
        \/ q[i].gen # None /\ q[i] = capability

Held ==
    held # None => \/ capability # None /\ capability.gen = held
                   \/ ResetFirst(queue)
                   \/ hand.action # None /\ hand.action.gen = None

(* The worker holds the present reset, or the next one follows; it holds   *)
(* data of the present capability, or a reset follows.                     *)
InHand ==
    hand.action # None =>
        /\ hand.action.gen = None =>
              /\ hand.action.epoch <= epoch
              /\ hand.action.epoch = epoch <=> ~ResetFirst(queue)
        /\ hand.action.gen # None => hand.action = capability \/ ResetFirst(queue)

Connection ==
    /\ sink \in {"open", "closed"} /\ (sink = "closed" => held = None)
    /\ hand.checked => sink = "open" /\ hand.action # None

BridgeInv ==
    /\ BridgeTypes /\ InOrder(queue) /\ Held /\ InHand /\ Connection
    /\ capability # None => capability.epoch = epoch

-----------------------------------------------------------------------------
(* The two operations of the hub, wherever they are called from. *)

\* None is not a generation that is started.
LEMMA NoneIsNoGeneration == None \notin 1 .. MaxGeneration
BY HubAssumption, BridgeAssumption

\* A refresh of a generation that has been started leaves everything as it
\* is, or registers that generation, which is not retired, and retires at most
\* one that is older.  Of the live generation it makes the accepted one.
LEMMA RefreshRegisters ==
    ASSUME HubInv, NEW gen \in 1 .. started, Refresh(gen)
    PROVE  \/ /\ gen # live \/ current = live
              /\ UNCHANGED <<current, retired, replay, client, bridgeVars>>
           \/ /\ gen \notin retired /\ current' = gen /\ (live # None => live >= gen)
              /\ retired' = retired \cup ({current} \ {None, gen})
              /\ current # None => current <= gen
              /\ replay' \in {None, gen} /\ client' \in {None, gen}
              /\ Revoke(gen)
<1> USE NoneIsNoGeneration, HubAssumption
<1>1. /\ started \in Nat /\ gen \in Nat /\ gen <= started /\ gen \in 1 .. MaxGeneration
      /\ live # None => live = started
      /\ current # None => current \in 1 .. started
  BY DEF HubInv, Numbering
<1>2. CASE gen \in retired \/ (current # None /\ gen < current)
  BY <1>1, <1>2 DEF Refresh, HubInv, Numbering
<1>3. CASE ~(gen \in retired \/ (current # None /\ gen < current))
  <2>1. /\ current' = gen /\ retired' = retired \cup ({current} \ {None, gen})
        /\ replay' \in {None, gen} /\ client' = IF current # gen THEN None ELSE client
        /\ Revoke(gen)
    BY <1>3 DEF Refresh, PurgeTo
  <2>2. client' \in {None, gen}
    BY <2>1 DEF HubInv, Shown
  <2>3. (live # None => live >= gen) /\ (current # None => current <= gen)
    BY <1>1, <1>3
  <2>4. QED
    BY <1>3, <2>1, <2>2, <2>3
<1>4. QED
  BY <1>2, <1>3

\* A revocation leaves nothing current and nothing shown.
LEMMA InvalidateClears ==
    ASSUME Invalidate
    PROVE  /\ current' = None /\ retired' = retired \cup ({current} \ {None})
           /\ replay' = None /\ client' = None /\ Revoke(None)
BY DEF Invalidate, PurgeTo

-----------------------------------------------------------------------------
(* The hub's invariant. *)

\* Nothing has been started and nothing is accepted.
LEMMA HubInit == Init => HubInv
<1> SUFFICES ASSUME Init PROVE HubInv
  OBVIOUS
<1>1. Heard
  BY Zenon DEF Init, Heard
<1>2. QED
  BY <1>1, HubAssumption
  DEF Init, HubInv, Numbering, ControlPlace, HelloPlace, Shown, Rest, Tasks, Stages

\* What a refresh of a started generation, or a revocation, leaves of the
\* registry when nothing starts or stops.
LEMMA RegistryKept ==
    ASSUME HubInv, UNCHANGED <<live, started>>,
           \/ UNCHANGED <<current, retired, replay, client>>
           \/ \E gen \in 1 .. started : Refresh(gen)
           \/ Invalidate /\ (live = None \/ live # current)
    PROVE  Numbering' /\ Shown'
<1> USE NoneIsNoGeneration, HubAssumption
<1>1. /\ started \in 0 .. MaxGeneration /\ 1 .. started \subseteq 1 .. MaxGeneration
      /\ None \notin 1 .. started
  BY DEF HubInv, Numbering
<1>2. CASE UNCHANGED <<current, retired, replay, client>>
  BY <1>2 DEF HubInv, Numbering, Shown
<1>3. ASSUME NEW gen \in 1 .. started, Refresh(gen)
      PROVE  Numbering' /\ Shown'
  <2>1. CASE UNCHANGED <<current, retired, replay, client, bridgeVars>>
    BY <2>1 DEF HubInv, Numbering, Shown
  <2>2. CASE /\ gen \notin retired /\ current' = gen /\ (live # None => live >= gen)
             /\ retired' = retired \cup ({current} \ {None, gen})
             /\ current # None => current <= gen
             /\ replay' \in {None, gen} /\ client' \in {None, gen}
    <3>1. gen \notin retired' /\ retired' \subseteq 1 .. started
      BY <2>2 DEF HubInv, Numbering
    <3>2. live \notin retired'
      <4>1. CASE live = None
        BY <1>1, <3>1, <4>1
      <4>2. CASE live # None /\ current # live
        BY <2>2, <4>2 DEF HubInv, Numbering
      <4>3. CASE live # None /\ current = live
        <5>1. live = gen
          BY <1>1, <2>2, <4>3 DEF HubInv, Numbering
        <5>2. QED
          BY <3>1, <5>1
      <4>4. QED
        BY <4>1, <4>2, <4>3
    <3>3. QED
      BY <2>2, <3>1, <3>2 DEF HubInv, Numbering, Shown
  <2>3. QED
    BY <1>3, <2>1, <2>2, RefreshRegisters
<1>4. CASE Invalidate /\ (live = None \/ live # current)
  <2>1. /\ current' = None /\ retired' = retired \cup ({current} \ {None})
        /\ replay' = None /\ client' = None
    BY <1>4, InvalidateClears
  <2>2. retired' \subseteq 1 .. started
    BY <2>1 DEF HubInv, Numbering
  <2>3. live \notin retired' /\ current' \notin retired'
    BY <1>1, <1>4, <2>1, <2>2 DEF HubInv, Numbering
  <2>4. QED
    BY <2>1, <2>2, <2>3 DEF HubInv, Numbering, Shown
<1>5. QED
  BY <1>2, <1>3, <1>4

\* A refresh does not displace the live generation.
LEMMA LiveStays ==
    ASSUME HubInv, NEW gen \in 1 .. started, Refresh(gen), live # None
    PROVE  (gen = live \/ current = live) => current' = live
<1>1. live = started /\ started \in 0 .. MaxGeneration /\ gen <= live
  BY DEF HubInv, Numbering
<1>2. QED
  BY <1>1, RefreshRegisters, HubAssumption

\* Operations of the control plane, under the gate.
LEMMA ControlKeepsHub ==
    ASSUME HubInv, Start \/ Stop \/ Reconfigure \/ Control
    PROVE  HubInv'
<1> USE NoneIsNoGeneration, HubAssumption
<1>1. CASE Start
  <2>1. /\ started \in 0 .. MaxGeneration /\ started' = started + 1 /\ live' = started + 1
        /\ started + 1 \in 1 .. MaxGeneration /\ live = None /\ told' = FALSE
        /\ UNCHANGED <<hello, current, retired, replay, client>>
    BY <1>1 DEF Start, HubInv, Numbering
  <2>2. Numbering'
    BY <2>1 DEF HubInv, Numbering
  <2>3. control' \in {[Rest EXCEPT !.at = "read"], [Rest EXCEPT !.at = "idle"]}
    BY <1>1 DEF Start
  <2>4. ControlPlace'
    BY <2>1, <2>3 DEF ControlPlace, Rest, Tasks, Stages
  <2>5. HelloPlace'
    <3>1. ASSUME NEW h \in Hellos, hello[h].at \in {"refresh", "recheck"}
          PROVE  hello[h].gen \in 1 .. (started + 1) /\ hello[h].gen # started + 1
      <4>1. hello[h].gen \in 1 .. started
        BY <3>1 DEF HubInv, HelloPlace
      <4>2. QED
        BY <2>1, <4>1
    <3>2. QED
      BY <2>1, <3>1 DEF HubInv, HelloPlace
  <2>6. QED
    BY <2>1, <2>2, <2>4, <2>5 DEF HubInv, Heard, Shown
<1>2. CASE Stop
  <2>1. /\ live' = None /\ told' = (told /\ live = None)
        /\ UNCHANGED <<started, hello, current, retired, replay, client>>
        /\ \E at \in {"revoke", "start", "idle"} : control' = [Rest EXCEPT !.at = at]
    BY <1>2 DEF Stop
  <2>2. Numbering' /\ Shown'
    BY <2>1 DEF HubInv, Numbering, Shown
  <2>3. ControlPlace'
    BY <2>1 DEF ControlPlace, Rest, Tasks, Stages
  <2>4. HelloPlace'
    <3>1. \A h \in Hellos : hello[h].at = "recheck" => hello[h].gen # None
      BY DEF HubInv, HelloPlace, Numbering
    <3>2. QED
      BY <2>1, <3>1 DEF HubInv, HelloPlace
  <2>5. Heard'
    BY <2>1, Zenon DEF HubInv, Heard, Late
  <2>6. QED
    BY <2>2, <2>3, <2>4, <2>5 DEF HubInv
<1>3. CASE Reconfigure
  <2>1. /\ live # None /\ control' = [Rest EXCEPT !.at = "read"]
        /\ UNCHANGED <<live, told, started, hello, current, retired, replay, client>>
    BY <1>3 DEF Reconfigure
  <2>2. ControlPlace'
    BY <2>1 DEF ControlPlace, Rest, Tasks, Stages
  <2>3. QED
    BY <2>1, <2>2 DEF HubInv, Numbering, HelloPlace, Heard, Late, Shown
<1>4. CASE ControlRevoke
  <2>1. /\ control' = Rest /\ UNCHANGED <<live, started, hello>> /\ live = None
        /\ current' = None /\ Invalidate
    BY <1>4, InvalidateClears DEF ControlRevoke, HubInv, ControlPlace
  <2>2. Numbering' /\ Shown'
    BY <2>1, RegistryKept
  <2>3. ControlPlace'
    BY <2>1 DEF ControlPlace, Rest, Tasks, Stages
  <2>4. HelloPlace' /\ Heard'
    <3>1. told' = TRUE
      BY <1>4 DEF ControlRevoke
    <3>2. QED
      BY <2>1, <3>1, Zenon DEF HubInv, HelloPlace, Heard
  <2>5. QED
    BY <2>2, <2>3, <2>4 DEF HubInv
<1>5. CASE ControlRefresh
  <2>1. UNCHANGED <<live, started, hello>>
    BY <1>5 DEF ControlRefresh
  <2>2. CASE control.at = "read"
    <3>1. control' = Read /\ UNCHANGED <<told, current, retired, replay, client>>
      BY <1>5, <2>2 DEF ControlRefresh, Refreshing, Rechecked
    <3>2. live # None /\ live \in Generations
      BY <2>2 DEF HubInv, ControlPlace, Numbering
    <3>3. ControlPlace'
      BY <2>1, <3>1, <3>2 DEF ControlPlace, Read, Tasks, Stages
    <3>4. QED
      BY <2>1, <3>1, <3>3 DEF HubInv, Numbering, HelloPlace, Heard, Late, Shown
  <2>3. CASE control.at = "refresh"
    <3>1. /\ control' = [control EXCEPT !.at = "recheck"] /\ Refresh(live) /\ UNCHANGED told
          /\ live # None /\ live \in 1 .. started /\ control.gen = live
      BY <1>5, <2>3 DEF ControlRefresh, Refreshing, Rechecked, HubInv, Numbering, ControlPlace
    <3>2. current' = live
      BY <3>1, LiveStays
    <3>3. Numbering' /\ Shown'
      BY <2>1, <3>1, RegistryKept
    <3>4. ControlPlace'
      BY <2>1, <3>1, <3>2 DEF HubInv, ControlPlace, Tasks, Stages
    <3>5. HelloPlace'
      BY <2>1, <3>2 DEF HubInv, HelloPlace
    <3>7. Heard'
      BY <2>1, <3>1, <3>2, Zenon DEF HubInv, Heard
    <3>6. QED
      BY <3>3, <3>4, <3>5, <3>7 DEF HubInv
  <2>4. CASE control.at = "recheck"
    <3>1. control' = Rest /\ Rechecked(control) /\ control.gen = live /\ current = live
      BY <1>5, <2>4 DEF ControlRefresh, Refreshing, HubInv, ControlPlace
    <3>2. told' = TRUE /\ UNCHANGED <<current, retired, replay, client>>
      BY <3>1 DEF Rechecked
    <3>3. ControlPlace'
      BY <3>1 DEF ControlPlace, Rest, Tasks, Stages
    <3>4. Heard'
      BY <2>1, <3>1, <3>2, Zenon DEF Heard
    <3>5. QED
      BY <2>1, <3>2, <3>3, <3>4 DEF HubInv, Numbering, HelloPlace, Shown
  <2>5. QED
    BY <1>5, <2>2, <2>3, <2>4 DEF ControlRefresh, Refreshing, Rechecked
<1>6. QED
  BY <1>1, <1>2, <1>3, <1>4, <1>5 DEF Control

\* A hello races the control plane without the gate.
LEMMA HelloKeepsHub ==
    ASSUME HubInv, NEW h \in Hellos, Hello(h)
    PROVE  HubInv'
<1> USE NoneIsNoGeneration, HubAssumption
<1>1. UNCHANGED <<live, started, control>>
  BY DEF Hello
<1>2. CASE hello[h] = Rest
  <2>1. /\ live # None /\ hello' = [hello EXCEPT ![h] = Read]
        /\ UNCHANGED <<told, current, retired, replay, client>>
    BY <1>2 DEF Hello, Rest, Refreshing, Rechecked
  <2>2. Read = [at |-> "refresh", gen |-> live] /\ Read \in Tasks /\ live \in 1 .. started
    BY <2>1 DEF Read, HubInv, Numbering, Tasks, Stages
  <2>3. HelloPlace'
    BY <1>1, <2>1, <2>2 DEF HubInv, HelloPlace
  <2>4. Heard'
    <3>1. told => current = live
      BY <2>1, Zenon DEF HubInv, Heard
    <3>2. QED
      BY <1>1, <2>1, <3>1, Zenon DEF HubInv, Heard
  <2>5. QED
    BY <1>1, <2>1, <2>3, <2>4 DEF HubInv, Numbering, ControlPlace, Shown
<1>3. CASE hello[h].at = "refresh"
  <2> DEFINE gen == hello[h].gen
  <2>1. hello' = [hello EXCEPT ![h].at = "recheck"] /\ Refresh(gen) /\ UNCHANGED told
    BY <1>3 DEF Hello, Rest, Refreshing, Rechecked
  <2>2. gen \in 1 .. started /\ hello' \in [Hellos -> Tasks]
        /\ hello'[h] = [at |-> "recheck", gen |-> gen]
        /\ \A k \in Hellos \ {h} : hello'[k] = hello[k]
    BY <1>3, <2>1 DEF HubInv, HelloPlace, Tasks, Stages
  <2>3. Numbering' /\ Shown'
    BY <1>1, <2>1, <2>2, RegistryKept
  <2>4. live # None /\ (gen = live \/ current = live) => current' = live
    BY <2>1, <2>2, LiveStays
  <2> HIDE DEF gen
  <2>5. HelloPlace'
    <3>1. ASSUME NEW k \in Hellos
          PROVE  /\ hello'[k].at \in {"refresh", "recheck"} => hello'[k].gen \in 1 .. started
                 /\ hello'[k].at = "recheck" /\ hello'[k].gen = live => current' = live
      <4>1. CASE k = h
        BY <2>2, <2>4, <4>1 DEF HubInv, Numbering
      <4>2. CASE k # h
        BY <2>2, <2>4, <4>2 DEF HubInv, HelloPlace, Numbering
      <4>3. QED
        BY <4>1, <4>2
    <3>2. QED
      BY <1>1, <2>2, <3>1 DEF HelloPlace
  <2>6. ControlPlace'
    BY <1>1, <2>4 DEF HubInv, ControlPlace
  <2>7. Heard'
    <3>1. CASE live # None
      <4>1. told => current = live
        BY <3>1, Zenon DEF HubInv, Heard
      <4>2. current = live => current' = live
        BY <2>4, <3>1
      <4>3. QED
        BY <1>1, <2>1, <4>1, <4>2, Zenon DEF HubInv, Heard
    <3>2. CASE live = None /\ current' = gen
      BY <1>1, <2>1, <2>2, <3>2 DEF HubInv, Heard, Late
    <3>3. CASE live = None /\ current' = current /\ current # gen
      <4>1. \A k \in Hellos : Late(k) => k # h
        BY <1>3 DEF Late
      <4>2. \A k \in Hellos : Late(k) => Late(k)'
        BY <2>2, <3>3, <4>1 DEF Late
      <4>3. QED
        BY <1>1, <2>1, <3>3, <4>2 DEF HubInv, Heard
    <3>4. current' \in {current, gen}
      BY <2>1, <2>2, RefreshRegisters
    <3>5. QED
      BY <3>1, <3>2, <3>3, <3>4
  <2>8. QED
    BY <2>3, <2>5, <2>6, <2>7 DEF HubInv
<1>4. CASE hello[h].at = "recheck"
  <2>1. hello' = [hello EXCEPT ![h] = Rest] /\ Rechecked(hello[h])
    BY <1>4 DEF Hello, Rest, Refreshing
  <2>2. hello[h].gen \in 1 .. started /\ hello[h].gen # None
    BY <1>4 DEF HubInv, HelloPlace, Numbering
  <2>3. Rest \in Tasks /\ Rest.at = "idle"
    BY DEF Rest, Tasks, Stages
  <2>4. CASE hello[h].gen = live
    <3>1. told' = TRUE /\ current = live /\ UNCHANGED <<current, retired, replay, client>>
      BY <1>4, <2>1, <2>4 DEF Rechecked, HubInv, HelloPlace
    <3>2. HelloPlace'
      BY <1>1, <2>1, <2>3, <3>1 DEF HubInv, HelloPlace
    <3>3. Heard'
      BY <1>1, <3>1, Zenon DEF Heard
    <3>4. QED
      BY <1>1, <3>1, <3>2, <3>3 DEF HubInv, Numbering, ControlPlace, Shown
  <2>5. CASE hello[h].gen # live /\ current = hello[h].gen
    <3>1. Invalidate /\ current' = None /\ UNCHANGED told /\ current # live
      BY <2>1, <2>5, InvalidateClears DEF Rechecked, InvalidateExactly
    <3>2. Numbering' /\ Shown'
      BY <1>1, <3>1, RegistryKept
    <3>3. HelloPlace'
      <4>1. \A k \in Hellos : hello[k].at = "recheck" => hello[k].gen # live
        BY <3>1 DEF HubInv, HelloPlace
      <4>2. QED
        BY <1>1, <2>1, <2>3, <4>1 DEF HubInv, HelloPlace
    <3>4. ControlPlace'
      BY <1>1, <3>1 DEF HubInv, ControlPlace
    <3>5. Heard'
      <4>1. live # None => ~told
        BY <3>1, Zenon DEF HubInv, Heard
      <4>2. QED
        BY <1>1, <3>1, <4>1, Zenon DEF HubInv, Heard
    <3>6. QED
      BY <3>2, <3>3, <3>4, <3>5 DEF HubInv
  <2>6. CASE hello[h].gen # live /\ current # hello[h].gen
    <3>1. UNCHANGED <<told, current, retired, replay, client>>
      BY <2>1, <2>6 DEF Rechecked, InvalidateExactly
    <3>2. HelloPlace'
      BY <1>1, <2>1, <2>3, <3>1 DEF HubInv, HelloPlace
    <3>3. \A k \in Hellos : Late(k) => Late(k)'
      <4>1. \A k \in Hellos : Late(k) => k # h
        BY <2>6 DEF Late
      <4>2. QED
        BY <2>1, <3>1, <4>1 DEF Late, HubInv, HelloPlace
    <3>4. Heard'
      BY <1>1, <3>1, <3>3 DEF HubInv, Heard
    <3>5. QED
      BY <1>1, <3>1, <3>2, <3>4 DEF HubInv, Numbering, ControlPlace, Shown
  <2>7. QED
    BY <2>4, <2>5, <2>6
<1>5. QED
  BY <1>2, <1>3, <1>4 DEF Hello, Refreshing, Rechecked

\* Results move only between places that are cleared with the registry.
LEMMA ResultsKeepHub ==
    ASSUME HubInv, \/ \E gen \in Generations : Submit(gen)
                   \/ Normalise \/ Publish \/ View \/ Record \/ UNCHANGED vars
    PROVE  HubInv'
<1>1. UNCHANGED <<live, told, started, control, hello, current, retired>>
  BY DEF Submit, Normalise, Publish, View, Record, vars, hubVars
<1>2. Shown'
  BY DEF HubInv, Shown, Submit, Normalise, Publish, View, Record, vars, hubVars
<1>3. Heard'
  BY <1>1 DEF HubInv, Heard, Late
<1>4. QED
  BY <1>1, <1>2, <1>3 DEF HubInv, Numbering, ControlPlace, HelloPlace

\* HubInv is an invariant.
LEMMA HubAlways == Spec => []HubInv
<1>1. HubInv /\ [Next]_vars => HubInv'
  BY ControlKeepsHub, HelloKeepsHub, ResultsKeepHub DEF Next
<1>2. QED
  BY <1>1, HubInit, PTL DEF Spec

\* What the hub shows belongs to the generation it accepts, which is not a
\* retired one; told of the live generation, it accepts that one only, however
\* many hellos race, whoever starts without telling it and whatever is queued.
THEOREM ShowsTheLive == Spec => []NothingStale
<1>1. HubInv => NothingStale
  BY DEF HubInv, Numbering, Heard, Late, Shown, NothingStale
<1>2. QED
  BY <1>1, HubAlways, PTL

-----------------------------------------------------------------------------
(* The queue of the bridge. *)

\* Taking an entry out of a sequence and appending one keeps what is before
\* it in place, moves what is behind it up and puts the new one last.
LEMMA RemoveAppend ==
    ASSUME NEW S, NEW q \in Seq(S), NEW i \in 1 .. Len(q), NEW x \in S
    PROVE  LET r == Append(RemoveAt(q, i), x)
           IN  /\ r \in Seq(S) /\ Len(r) = Len(q)
               /\ \A k \in 1 .. Len(q) :
                     r[k] = IF k = Len(q) THEN x ELSE IF k < i THEN q[k] ELSE q[k + 1]
<1> DEFINE a == SubSeq(q, 1, i - 1)
           b == SubSeq(q, i + 1, Len(q))
           m == a \o b
           r == Append(m, x)
<1>1. Len(q) \in Nat /\ \A k \in 1 .. Len(q) : q[k] \in S
  BY LenProperties, ElementOfSeq
<1>2. /\ a \in Seq(S) /\ Len(a) = i - 1
      /\ \A k \in 1 .. (i - 1) : a[k] = q[k]
  BY <1>1, SubSeqProperties
<1>3. /\ b \in Seq(S) /\ Len(b) = Len(q) - i
      /\ \A k \in 1 .. (Len(q) - i) : b[k] = q[k + i]
  BY <1>1, SubSeqProperties
<1>4. /\ m \in Seq(S) /\ Len(m) = Len(q) - 1
      /\ \A k \in 1 .. (Len(q) - 1) : m[k] = IF k < i THEN q[k] ELSE q[k + 1]
  <2>1. /\ m \in Seq(S) /\ Len(m) = Len(a) + Len(b)
        /\ \A k \in 1 .. Len(a) + Len(b) :
              m[k] = IF k <= Len(a) THEN a[k] ELSE b[k - Len(a)]
    BY <1>2, <1>3, ConcatProperties
  <2> HIDE DEF a, b, m
  <2>2. Len(m) = Len(q) - 1 /\ Len(a) + Len(b) = Len(q) - 1
    BY <1>1, <1>2, <1>3, <2>1
  <2>3. ASSUME NEW k \in 1 .. (Len(q) - 1), k < i
        PROVE  m[k] = q[k]
    BY <1>1, <1>2, <2>1, <2>2, <2>3
  <2>4. ASSUME NEW k \in 1 .. (Len(q) - 1), ~(k < i)
        PROVE  m[k] = q[k + 1]
    <3>1. k - Len(a) \in 1 .. (Len(q) - i) /\ k - Len(a) + i = k + 1 /\ ~(k <= Len(a))
      BY <1>1, <1>2, <2>4
    <3>2. m[k] = b[k - Len(a)]
      BY <2>1, <2>2, <3>1
    <3>3. b[k - Len(a)] = q[k - Len(a) + i]
      BY <1>3, <3>1
    <3>4. QED
      BY <3>1, <3>2, <3>3
  <2>5. QED
    BY <2>1, <2>2, <2>3, <2>4
<1>5. /\ r \in Seq(S) /\ Len(r) = Len(m) + 1
      /\ \A k \in 1 .. Len(m) : r[k] = m[k]
      /\ r[Len(m) + 1] = x
  <2> HIDE DEF m
  <2>1. QED
    BY <1>4, AppendProperties
<1> HIDE DEF m
<1>6. /\ r \in Seq(S) /\ Len(r) = Len(q)
      /\ \A k \in 1 .. Len(q) :
            r[k] = IF k = Len(q) THEN x ELSE IF k < i THEN q[k] ELSE q[k + 1]
  BY <1>1, <1>4, <1>5
<1>7. QED
  BY <1>6 DEF RemoveAt, m

\* A result of the present capability may push out another one, never the
\* reset, which stays first.
LEMMA QueuedKeepsOrder ==
    ASSUME BridgeInv, NEW x \in Actions, x.gen # None, x = capability,
           NEW q \in Queued(queue, x)
    PROVE  q \in Seq(Actions) /\ InOrder(q) /\ (ResetFirst(q) <=> ResetFirst(queue))
<1>0. queue \in Seq(Actions) /\ InOrder(queue)
  BY DEF BridgeInv, BridgeTypes
<1>1. Len(queue) \in Nat /\ DOMAIN queue = 1 .. Len(queue)
  BY <1>0, LenProperties
<1>2. CASE q = queue
  BY <1>0, <1>2
<1>3. CASE q = Append(queue, x)
  <2>1. /\ q \in Seq(Actions) /\ Len(q) = Len(queue) + 1
        /\ \A k \in 1 .. Len(queue) : q[k] = queue[k]
        /\ q[Len(queue) + 1] = x
    BY <1>0, <1>3, AppendProperties
  <2>2. InOrder(q)
    BY <1>0, <1>1, <2>1 DEF InOrder
  <2>3. QED
    BY <1>1, <2>1, <2>2 DEF ResetFirst
<1>4. CASE \E i \in 1 .. Len(queue) : queue[i].gen # None /\ q = Append(RemoveAt(queue, i), x)
  <2>1. PICK i \in 1 .. Len(queue) : queue[i].gen # None /\ q = Append(RemoveAt(queue, i), x)
    BY <1>4
  <2>2. /\ q \in Seq(Actions) /\ Len(q) = Len(queue)
        /\ \A k \in 1 .. Len(queue) :
              q[k] = IF k = Len(queue) THEN x ELSE IF k < i THEN queue[k] ELSE queue[k + 1]
    BY <1>0, <2>1, RemoveAppend
  <2>3. \A k \in 1 .. Len(queue) :
            \/ queue[k].gen = None /\ k = 1 /\ queue[k].epoch = epoch
            \/ queue[k].gen # None /\ queue[k] = capability
    BY <1>0 DEF InOrder
  <2>4. ASSUME NEW k \in 1 .. Len(queue)
        PROVE  \/ q[k].gen = None /\ k = 1 /\ q[k].epoch = epoch
               \/ q[k].gen # None /\ q[k] = capability
    <3>1. CASE k = Len(queue)
      BY <2>2, <3>1
    <3>2. CASE k # Len(queue) /\ k < i
      <4>1. q[k] = queue[k]
        BY <2>2, <3>2
      <4>2. QED
        BY <2>3, <4>1
    <3>3. CASE k # Len(queue) /\ ~(k < i)
      <4>1. q[k] = queue[k + 1]
        BY <2>2, <3>3
      <4>2. k + 1 \in 1 .. Len(queue) /\ k + 1 # 1
        <5>1. Len(queue) \in Nat
          BY <1>1
        <5>2. QED
          BY <5>1, <3>3
      <4>3. QED
        BY <2>3, <4>1, <4>2
    <3>4. QED
      BY <3>1, <3>2, <3>3
  <2>5. Len(queue) > 0 => (q[1].gen = None <=> queue[1].gen = None)
    <3> SUFFICES ASSUME Len(queue) > 0 PROVE q[1].gen = None <=> queue[1].gen = None
      OBVIOUS
    <3>1. CASE i = 1
      <4>1. 1 \in 1 .. Len(queue) /\ ~(1 < i) /\ (1 # Len(queue) => 1 + 1 \in 1 .. Len(queue))
        BY <1>1, <3>1
      <4>2. q[1] = x \/ (q[1] = queue[1 + 1] /\ 1 + 1 \in 1 .. Len(queue))
        BY <2>2, <4>1
      <4>3. QED
        BY <2>1, <2>3, <3>1, <4>2
    <3>2. CASE i # 1
      <4>1. 1 \in 1 .. Len(queue) /\ 1 < i /\ 1 # Len(queue)
        BY <1>1, <3>2
      <4>2. q[1] = queue[1]
        BY <2>2, <4>1
      <4>3. QED
        BY <4>2
    <3>3. QED
      BY <3>1, <3>2
  <2>6. QED
    BY <2>2, <2>4, <2>5 DEF InOrder, ResetFirst
<1>5. QED
  BY <1>1, <1>2, <1>3, <1>4 DEF Queued, Arrival

-----------------------------------------------------------------------------
(* The bridge's invariant. *)

\* None is no action, and the capability is never a reset.
LEMMA NoneIsNoAction ==
    /\ None \notin Actions /\ Results \subseteq Actions
    /\ \A a \in Results : a.gen # None /\ a \in Actions /\ a # None
BY BridgeAssumption DEF Results, Actions

\* The bridge begins with nothing queued and nothing authorized.
LEMMA BridgeInitially == Init => BridgeInv
<1> SUFFICES ASSUME Init PROVE BridgeInv
  OBVIOUS
<1>1. /\ queue = <<>> /\ hand = [action |-> None, checked |-> FALSE] /\ epoch = 0
      /\ observing = None /\ capability = None /\ sink = "closed" /\ held = None
  BY DEF Init, BridgeInit, Idle
<1>2. queue \in Seq(Actions) /\ Len(queue) = 0
  BY <1>1, EmptySeq
<1>3. QED
  BY <1>1, <1>2 DEF BridgeInv, BridgeTypes, InOrder, Held, InHand, Connection, ResetFirst

\* A revocation: the reset it queues makes whatever is on its way harmless.
LEMMA RevokeKeepsBridge ==
    ASSUME BridgeInv, NEW gen, Revoke(gen)
    PROVE  BridgeInv'
<1>1. /\ epoch' = epoch + 1 /\ queue' = <<[gen |-> None, epoch |-> epoch + 1]>>
      /\ capability' = IF gen \in Recording THEN [gen |-> gen, epoch |-> epoch + 1] ELSE None
      /\ UNCHANGED <<observing, hand, sink, held>>
  BY DEF Revoke, Reset, Declares
<1>2. epoch \in Nat /\ epoch + 1 \in Nat \ {0}
  BY DEF BridgeInv, BridgeTypes
<1>3. [gen |-> None, epoch |-> epoch + 1] \in Actions
  BY <1>2 DEF Actions
<1>4. /\ queue' \in Seq(Actions) /\ Len(queue') = 1
      /\ queue'[1] = [gen |-> None, epoch |-> epoch + 1]
  BY <1>1, <1>3
<1>5. capability' \in Results \cup {None} /\ (capability' # None => capability'.epoch = epoch')
  BY <1>1, <1>2, BridgeAssumption DEF Results
<1>6. BridgeTypes'
  BY <1>1, <1>2, <1>4, <1>5 DEF BridgeInv, BridgeTypes
<1>7. ResetFirst(queue)' /\ InOrder(queue)'
  BY <1>1, <1>4 DEF ResetFirst, InOrder
<1>8. InHand'
  <2>1. CASE hand.action = None
    BY <1>1, <2>1 DEF InHand
  <2>2. CASE hand.action # None
    <3>1. hand.action \in Actions
      BY <2>2 DEF BridgeInv, BridgeTypes
    <3>2. hand.action.gen = None => hand.action.epoch <= epoch /\ hand.action.epoch \in Nat
      BY <2>2, <3>1 DEF BridgeInv, InHand, Actions
    <3>3. hand.action.gen = None => hand.action.epoch <= epoch + 1 /\ hand.action.epoch # epoch + 1
      BY <1>2, <3>2
    <3>4. QED
      BY <1>1, <1>7, <3>3 DEF InHand
  <2>3. QED
    BY <2>1, <2>2
<1>9. Held' /\ Connection'
  BY <1>1, <1>7 DEF BridgeInv, Held, Connection
<1>10. QED
  BY <1>5, <1>6, <1>7, <1>8, <1>9 DEF BridgeInv

\* observe() queues only what the capability of this moment allows.
LEMMA ObserveKeepsBridge ==
    ASSUME BridgeInv, ObserveRead \/ ObserveQueue
    PROVE  BridgeInv'
<1>1. CASE ObserveRead
  <2>1. UNCHANGED <<capability, epoch, queue, hand, sink, held>>
    BY <1>1 DEF ObserveRead
  <2>2. observing' \in Results \cup {None}
    <3>1. \/ observing' = None
          \/ /\ capability # None /\ capability.gen = Head(offers)
             /\ observing' = [gen |-> Head(offers), epoch |-> capability.epoch]
      BY <1>1 DEF ObserveRead, Accepts
    <3>2. capability # None => capability \in Results
      BY DEF BridgeInv, BridgeTypes
    <3>3. QED
      BY <3>1, <3>2 DEF Results
  <2>3. QED
    BY <2>1, <2>2
    DEF BridgeInv, BridgeTypes, InOrder, Held, InHand, Connection, ResetFirst
<1>2. CASE ObserveQueue
  <2>1. observing' = None /\ UNCHANGED <<capability, epoch, hand, sink, held>>
    BY <1>2 DEF ObserveQueue
  <2>2. CASE queue' = queue
    BY <2>1, <2>2 DEF BridgeInv, BridgeTypes, InOrder, Held, InHand, Connection, ResetFirst
  <2>3. CASE /\ observing # None /\ Accepts(observing.gen)
             /\ capability.epoch = observing.epoch /\ queue' \in Queued(queue, observing)
    <3>1. observing \in Results /\ capability \in Results
      BY <2>3 DEF BridgeInv, BridgeTypes, Accepts
    <3>2. observing = capability
      BY <2>3, <3>1 DEF Accepts, Results
    <3>3. observing \in Actions /\ observing.gen # None
      BY <3>1, NoneIsNoAction
    <3>4. /\ queue' \in Seq(Actions) /\ InOrder(queue')
          /\ ResetFirst(queue') <=> ResetFirst(queue)
      BY <2>3, <3>2, <3>3, QueuedKeepsOrder
    <3>5. InOrder(queue)' /\ (ResetFirst(queue)' <=> ResetFirst(queue))
      BY <2>1, <3>4 DEF InOrder, ResetFirst
    <3>6. QED
      BY <2>1, <3>4, <3>5 DEF BridgeInv, BridgeTypes, Held, InHand, Connection
  <2>4. QED
    BY <1>2, <2>2, <2>3 DEF ObserveQueue
<1>3. QED
  BY <1>1, <1>2

\* The worker takes the first action; the reset is never behind another one.
LEMMA TakeKeepsBridge ==
    ASSUME BridgeInv, Take
    PROVE  BridgeInv'
<1>1. /\ hand.action = None /\ queue # <<>> /\ queue' = Tail(queue)
      /\ hand' = [action |-> Head(queue), checked |-> FALSE]
      /\ UNCHANGED <<observing, capability, epoch, sink, held>>
  BY DEF Take, Idle
<1>2. queue \in Seq(Actions) /\ InOrder(queue)
  BY DEF BridgeInv, BridgeTypes
<1>3. Len(queue) \in Nat /\ Len(queue) > 0
  BY <1>1, <1>2, LenProperties, EmptySeq
<1>4. /\ Head(queue) \in Actions /\ Head(queue) = queue[1]
      /\ queue' \in Seq(Actions) /\ Len(queue') = Len(queue) - 1
      /\ \A i \in 1 .. Len(queue') : queue'[i] = queue[i + 1]
  BY <1>1, <1>2, HeadTailProperties
<1>5. \A i \in 1 .. Len(queue') : queue'[i].gen # None /\ queue'[i] = capability
  <2>1. ASSUME NEW i \in 1 .. Len(queue')
        PROVE  i + 1 \in 1 .. Len(queue) /\ i + 1 # 1
    BY <1>3, <1>4
  <2>2. QED
    BY <1>2, <1>4, <2>1 DEF InOrder
<1>6. InOrder(queue)' /\ ~ResetFirst(queue)'
  <2>1. InOrder(queue)'
    BY <1>1, <1>5 DEF InOrder
  <2>2. Len(queue') > 0 => 1 \in 1 .. Len(queue')
    BY <1>3, <1>4
  <2>3. QED
    BY <1>5, <2>1, <2>2 DEF ResetFirst
<1>7. /\ queue[1].gen = None => queue[1].epoch = epoch
      /\ queue[1].gen # None => queue[1] = capability
  <2>1. 1 \in 1 .. Len(queue)
    BY <1>3
  <2>2. QED
    BY <1>2, <2>1 DEF InOrder
<1>8. /\ BridgeTypes' /\ Connection'
      /\ (capability # None => capability.epoch = epoch)'
  BY <1>1, <1>4 DEF BridgeInv, BridgeTypes, Connection
<1>9. InHand'
  <2>1. epoch \in Nat
    BY DEF BridgeInv, BridgeTypes
  <2>2. QED
    BY <1>1, <1>4, <1>6, <1>7, <2>1 DEF InHand
<1>10. Held'
  <2>1. ResetFirst(queue) => queue[1].gen = None
    BY DEF ResetFirst
  <2>2. queue[1] # None
    BY <1>4, NoneIsNoAction
  <2>3. QED
    BY <1>1, <1>4, <2>1, <2>2 DEF BridgeInv, Held
<1>11. QED
  BY <1>6, <1>8, <1>9, <1>10 DEF BridgeInv

\* What the worker drops, or fails to send, needs no reset any more, or one
\* follows it.
LEMMA HandledKeepsBridge ==
    ASSUME BridgeInv, Dispatch \/ SendReset \/ SendData \/ SendFails
    PROVE  BridgeInv'
<1>1. CASE Dispatch
  <2>1. hand.action # None /\ UNCHANGED <<observing, capability, epoch, queue, held>>
    BY <1>1 DEF Dispatch, Idle, BridgeInv, BridgeTypes
  <2>2. CASE sink' = "open" /\ IsCurrent(hand.action) /\ hand' = [hand EXCEPT !.checked = TRUE]
    BY <2>1, <2>2
    DEF BridgeInv, BridgeTypes, InOrder, Held, InHand, Connection, ResetFirst
  <2>3. CASE sink' = "open" /\ ~IsCurrent(hand.action) /\ hand' = Idle
    <3>1. hand.action.gen = None => ResetFirst(queue)
      BY <2>1, <2>3 DEF IsCurrent, BridgeInv, InHand
    <3>2. Held'
      BY <2>1, <2>3, <3>1 DEF BridgeInv, Held, Idle, ResetFirst
    <3>3. QED
      BY <2>1, <2>3, <3>2
      DEF BridgeInv, BridgeTypes, InOrder, InHand, Connection, ResetFirst, Idle
  <2>4. CASE sink = "closed" /\ hand' = Idle /\ UNCHANGED sink
    BY <2>1, <2>4
    DEF BridgeInv, BridgeTypes, InOrder, Held, InHand, Connection, ResetFirst, Idle
  <2>5. QED
    BY <1>1, <2>2, <2>3, <2>4 DEF Dispatch
<1>2. CASE SendReset
  <2>1. /\ hand.checked /\ hand.action.gen = None /\ held' = None
        /\ hand' = [action |-> None, checked |-> FALSE]
        /\ UNCHANGED <<observing, capability, queue, sink>>
    BY <1>2 DEF SendReset, Idle
  <2>2. Held' /\ InHand' /\ Connection'
    BY <2>1 DEF BridgeInv, Held, InHand, Connection
  <2>3. CASE epoch' = epoch
    BY <2>1, <2>2, <2>3 DEF BridgeInv, BridgeTypes, InOrder
  <2>4. CASE epoch' = 0 /\ capability = None /\ epoch = hand.action.epoch
    <3>1. ~ResetFirst(queue)
      BY <2>1, <2>4 DEF BridgeInv, InHand, Connection
    <3>2. Len(queue) = 0
      <4>1. Len(queue) \in Nat /\ InOrder(queue) /\ \A i \in 1 .. Len(queue) : queue[i] \in Actions
        BY LenProperties, ElementOfSeq DEF BridgeInv, BridgeTypes
      <4>2. Len(queue) > 0 => 1 \in 1 .. Len(queue)
        BY <4>1
      <4>3. QED
        BY <2>4, <3>1, <4>1, <4>2, NoneIsNoAction DEF InOrder, ResetFirst
    <3>3. InOrder(queue)'
      BY <2>1, <3>2 DEF InOrder
    <3>4. QED
      BY <2>1, <2>2, <2>4, <3>3 DEF BridgeInv, BridgeTypes
  <2>5. QED
    BY <1>2, <2>3, <2>4 DEF SendReset
<1>3. CASE SendData
  <2>1. /\ hand.checked /\ hand.action.gen # None /\ held' = hand.action.gen
        /\ hand' = [action |-> None, checked |-> FALSE]
        /\ UNCHANGED <<observing, capability, epoch, queue, sink>>
    BY <1>3 DEF SendData, Idle
  <2>2. sink = "open" /\ hand.action \in Actions /\ hand.action # None
    BY <2>1 DEF BridgeInv, BridgeTypes, Connection
  <2>3. hand.action = capability \/ ResetFirst(queue)
    BY <2>1, <2>2 DEF BridgeInv, InHand
  <2>4. Held'
    BY <2>1, <2>2, <2>3 DEF Held, ResetFirst
  <2>5. QED
    BY <2>1, <2>2, <2>4 DEF BridgeInv, BridgeTypes, InOrder, InHand, Connection
<1>4. CASE SendFails
  <2>1. /\ held' = None /\ sink' = "closed" /\ hand' = [action |-> None, checked |-> FALSE]
        /\ UNCHANGED <<observing, capability, epoch, queue>>
    BY <1>4 DEF SendFails, Idle
  <2>2. QED
    BY <2>1 DEF BridgeInv, BridgeTypes, InOrder, Held, InHand, Connection
<1>5. QED
  BY <1>1, <1>2, <1>3, <1>4

\* The hub touches the bridge by revoking, and by offering results.
LEMMA HubKeepsBridge ==
    ASSUME BridgeInv, [Next]_vars, ~Record
    PROVE  BridgeInv'
<1>1. \/ \E gen : Revoke(gen)
      \/ UNCHANGED <<observing, capability, epoch, queue, hand, sink, held>>
  <2>1. CASE UNCHANGED vars
    BY <2>1 DEF vars, bridgeVars
  <2>2. CASE \/ Start \/ Stop \/ Reconfigure \/ Normalise \/ Publish \/ View
             \/ \E gen \in Generations : Submit(gen)
    BY <2>2 DEF Start, Stop, Reconfigure, Normalise, Publish, View, Submit, bridgeVars
  <2>3. CASE Control
    BY <2>3 DEF Control, ControlRevoke, ControlRefresh, Refreshing, Rechecked, Refresh,
                InvalidateExactly, Invalidate, bridgeVars
  <2>4. CASE \E h \in Hellos : Hello(h)
    BY <2>4 DEF Hello, Refreshing, Rechecked, Refresh, InvalidateExactly, Invalidate, bridgeVars
  <2>5. QED
    BY <2>1, <2>2, <2>3, <2>4 DEF Next
<1>2. CASE UNCHANGED <<observing, capability, epoch, queue, hand, sink, held>>
  BY <1>2 DEF BridgeInv, BridgeTypes, InOrder, Held, InHand, Connection, ResetFirst
<1>3. QED
  BY <1>1, <1>2, RevokeKeepsBridge

\* BridgeInv is an invariant: whatever is not the bridge's own step revokes
\* or leaves it alone.
LEMMA BridgeAlways == Spec => []BridgeInv
<1>1. ASSUME BridgeInv, [Next]_vars
      PROVE  BridgeInv'
  <2>1. CASE Record
    BY <1>1, <2>1, ObserveKeepsBridge, TakeKeepsBridge, HandledKeepsBridge
    DEF Record, BridgeNext, Worker
  <2>2. QED
    BY <1>1, <2>1, HubKeepsBridge
<1>2. QED
  BY <1>1, BridgeInitially, PTL DEF Spec

\* What the recorder holds of a generation that lost its authorization is
\* cleared by a reset that nothing overtakes, for queues of any length.
THEOREM RecorderFenced == Spec => []RecordingFenced
<1>1. BridgeInv => RecordingFenced
  <2> SUFFICES ASSUME BridgeInv PROVE RecordingFenced
    OBVIOUS
  <2>1. ResetFirst(queue) => queue # <<>> /\ Head(queue).gen = None
    <3>1. queue \in Seq(Actions)
      BY DEF BridgeInv, BridgeTypes
    <3>2. ResetFirst(queue) => queue # <<>>
      BY <3>1, EmptySeq DEF ResetFirst
    <3>3. queue # <<>> => Head(queue) = queue[1]
      BY <3>1
    <3>4. QED
      BY <3>2, <3>3 DEF ResetFirst
  <2>2. QED
    BY <2>1 DEF BridgeInv, Held, RecordingFenced
<1>2. QED
  BY <1>1, BridgeAlways, PTL
-----------------------------------------------------------------------------
(* The types, for which the hub's invariant says that whoever refreshes    *)
(* names a generation.                                                     *)

\* A queue that takes an arrival stays within its bound.
LEMMA ArrivalTyped ==
    ASSUME NEW S, NEW q \in Seq(S), NEW x \in S, NEW max \in Nat \ {0}, Len(q) <= max,
           NEW lossy \in SUBSET (1 .. Len(q)), NEW r \in Arrival(q, x, max, lossy)
    PROVE  r \in Seq(S) /\ Len(r) <= max
<1>1. Len(q) \in Nat
  BY LenProperties
<1>2. CASE r = Append(q, x) /\ Len(q) < max
  BY <1>1, <1>2, AppendProperties
<1>3. CASE \E i \in lossy : r = Append(RemoveAt(q, i), x)
  <2>1. PICK i \in 1 .. Len(q) : r = Append(RemoveAt(q, i), x)
    BY <1>3
  <2>2. QED
    BY <2>1, RemoveAppend
<1>4. QED
  BY <1>1, <1>2, <1>3 DEF Arrival

\* What a filter keeps is no longer than what it was given.
LEMMA KeepShortens ==
    ASSUME NEW S, NEW q \in Seq(S), NEW T
    PROVE  Keep(q, T) \in Seq(S) /\ Len(Keep(q, T)) <= Len(q)
<1>1. Keep(q, T) \in Seq(S) /\ Len(Keep(q, T)) = Cardinality(Places(q, T))
  BY KeepType
<1>2. Places(q, T) \subseteq 1 .. Len(q) /\ Len(q) \in Nat
  BY PlacesFinite, LenProperties
<1>3. IsFiniteSet(1 .. Len(q)) /\ Cardinality(1 .. Len(q)) = Len(q)
  BY <1>2, FromOneTo
<1>4. Cardinality(Places(q, T)) <= Cardinality(1 .. Len(q))
  BY <1>2, <1>3, FS_Subset
<1>5. QED
  BY <1>1, <1>3, <1>4

\* What a refresh and a revocation change keeps its type.
LEMMA RegistryTyped ==
    ASSUME TypeOK, NEW gen \in Generations \cup {None},
           \/ Invalidate
           \/ gen # None /\ Refresh(gen)
           \/ UNCHANGED <<current, retired, replay, ingress, client, bridgeVars>>
    PROVE  /\ BridgeTypeOK'
           /\ (current \in Generations \cup {None} /\ retired \subseteq Generations)'
           /\ (ingress \in Seq(Generations) /\ Len(ingress) <= IngressMax)'
           /\ (replay \in Generations \cup {None} /\ client \in Generations \cup {None})'
<1>1. CASE UNCHANGED <<current, retired, replay, ingress, client, bridgeVars>>
  BY <1>1 DEF TypeOK, BridgeTypeOK, bridgeVars
<1>2. ASSUME NEW g \in Generations \cup {None}, Revoke(g)
      PROVE  BridgeTypeOK'
  <2>1. epoch \in Nat /\ epoch + 1 \in Nat \ {0}
    BY DEF TypeOK, BridgeTypeOK
  <2>2. (offers \in Seq(Generations) /\ Len(offers) <= OfferMax)'
    <3>1. offers' = << >>
      BY <1>2 DEF Revoke
    <3>2. QED
      BY <3>1, BridgeAssumption, EmptySeq
  <2>3. (queue \in Seq(Actions) /\ Len(queue) <= QueueMax)'
    <3>1. queue' = <<Reset(epoch + 1)>> /\ Reset(epoch + 1) \in Actions
      BY <1>2, <2>1 DEF Revoke, Reset, Actions
    <3>2. QED
      BY <3>1, BridgeAssumption
  <2>4. (capability = None \/ capability \in [gen : Recording, epoch : Nat \ {0}])' /\ epoch' \in Nat
    BY <1>2, <2>1 DEF Revoke, Declares
  <2>5. QED
    BY <1>2, <2>2, <2>3, <2>4 DEF Revoke, TypeOK, BridgeTypeOK
<1>3. ASSUME NEW g \in Generations \cup {None}, PurgeTo(g)
      PROVE  /\ (ingress \in Seq(Generations) /\ Len(ingress) <= IngressMax)'
             /\ replay' \in Generations \cup {None}
  <2>1. ingress' = Keep(ingress, {g}) /\ replay' \in {replay, None}
    BY <1>3 DEF PurgeTo
  <2>2. ingress \in Seq(Generations) /\ Len(ingress) <= IngressMax
    BY DEF TypeOK
  <2>3. Keep(ingress, {g}) \in Seq(Generations) /\ Len(Keep(ingress, {g})) <= Len(ingress)
    BY <2>2, KeepShortens
  <2>4. Len(Keep(ingress, {g})) \in Nat /\ Len(ingress) \in Nat
    BY <2>2, <2>3, LenProperties
  <2>5. QED
    BY <2>1, <2>2, <2>3, <2>4, HubAssumption DEF TypeOK
<1>4. CASE Invalidate
  <2>1. Revoke(None) /\ PurgeTo(None)
    BY <1>4 DEF Invalidate
  <2>2. current' = None /\ client' = None /\ retired' \subseteq retired \cup ({current} \ {None})
    BY <1>4 DEF Invalidate
  <2>3. QED
    BY <1>2, <1>3, <2>1, <2>2 DEF TypeOK
<1>5. CASE gen # None /\ Refresh(gen) /\ ~(gen \in retired \/ (current # None /\ gen < current))
  <2>1. Revoke(gen) /\ PurgeTo(gen)
    BY <1>5 DEF Refresh
  <2>2. /\ current' = gen /\ client' \in {client, None}
        /\ retired' = retired \cup ({current} \ {None, gen})
    BY <1>5 DEF Refresh
  <2>3. QED
    BY <1>2, <1>3, <2>1, <2>2 DEF TypeOK
<1>6. QED
  BY <1>1, <1>4, <1>5 DEF Refresh

\* Every step of the control plane and of a hello keeps the types.
LEMMA RacersTyped ==
    ASSUME TypeOK, HubInv, Start \/ Stop \/ Reconfigure \/ Control \/ \E h \in Hellos : Hello(h)
    PROVE  TypeOK'
<1> USE HubAssumption, BridgeAssumption
<1> DEFINE Same == UNCHANGED <<current, retired, replay, ingress, client, bridgeVars>>
<1>1. ASSUME NEW task \in Tasks, task.at \in {"refresh", "recheck"} => task.gen \in Generations,
             Refreshing(task) \/ Rechecked(task)
      PROVE  \/ Invalidate \/ Same
             \/ task.gen \in Generations /\ Refresh(task.gen)
  BY <1>1 DEF Refreshing, Rechecked, InvalidateExactly
<1>2. \A g \in 1 .. started : g \in Generations
  BY DEF HubInv, Numbering
<1>3. Read \in Tasks /\ Rest \in Tasks /\ told' \in BOOLEAN
  <2>1. Read \in Tasks /\ Rest \in Tasks
    BY DEF Read, Rest, Tasks, Stages, TypeOK
  <2>2. told \in BOOLEAN /\ told' \in {TRUE, FALSE, told, told /\ live = None}
    BY Zenon DEF TypeOK, Start, Stop, Reconfigure, Control, ControlRevoke, ControlRefresh, Hello,
                 Refreshing, Rechecked
  <2>3. QED
    BY <2>1, <2>2, Zenon
<1>4. CASE Start
  <2>1. started + 1 \in Generations /\ started + 1 \in 0 .. MaxGeneration
    BY <1>4 DEF Start, TypeOK
  <2>2. BridgeTypeOK'
    BY <1>4 DEF Start, TypeOK, BridgeTypeOK, bridgeVars
  <2>3. QED
    BY <1>4, <2>1, <2>2 DEF Start, TypeOK, Rest, Tasks, Stages
<1>5. CASE Stop
  <2>1. BridgeTypeOK'
    BY <1>5 DEF Stop, TypeOK, BridgeTypeOK, bridgeVars
  <2>2. QED
    BY <1>3, <1>5, <2>1 DEF Stop, TypeOK, Rest, Tasks, Stages
<1>6. CASE ControlRevoke
  <2>1. Invalidate /\ control' = Rest /\ UNCHANGED <<live, started, hello, helloed, normal>>
    BY <1>6 DEF ControlRevoke
  <2>2. QED
    BY <1>3, <2>1, RegistryTyped DEF TypeOK
<1>7. CASE ControlRefresh
  <2>1. UNCHANGED <<live, started, hello, helloed, normal>>
    BY <1>7 DEF ControlRefresh
  <2>2. control' \in Tasks
    BY <1>3, <1>7 DEF ControlRefresh, TypeOK, Tasks, Stages
  <2>3. control \in Tasks /\ (control.at \in {"refresh", "recheck"} => control.gen \in Generations)
    BY DEF HubInv, ControlPlace, Numbering, TypeOK
  <2>4. Invalidate \/ Same \/ (control.gen \in Generations /\ Refresh(control.gen))
    <3>1. CASE Same
      BY <3>1
    <3>2. CASE Refreshing(control) \/ Rechecked(control)
      BY <1>1, <2>3, <3>2
    <3>3. QED
      BY <1>7, <3>1, <3>2 DEF ControlRefresh
  <2>5. QED
    BY <1>3, <2>1, <2>2, <2>4, RegistryTyped DEF TypeOK
<1>8. ASSUME NEW h \in Hellos, Hello(h)
      PROVE  TypeOK'
  <2>1. UNCHANGED <<live, started, control, normal>>
    BY <1>8 DEF Hello
  <2>2. hello' \in [Hellos -> Tasks] /\ helloed' \in 0 .. MaxHellos
    <3>1. helloed' \in 0 .. MaxHellos
      BY <1>8 DEF Hello, TypeOK
    <3>2. [hello[h] EXCEPT !.at = "recheck"] \in Tasks /\ Rest \in Tasks
      BY DEF TypeOK, Rest, Tasks, Stages
    <3>3. PICK x \in Tasks : hello' = [hello EXCEPT ![h] = x]
      BY <1>3, <1>8, <3>2 DEF Hello
    <3>4. QED
      BY <3>1, <3>3 DEF TypeOK
  <2>3. /\ hello[h] \in Tasks
        /\ hello[h].at \in {"refresh", "recheck"} => hello[h].gen \in Generations
    BY <1>2 DEF HubInv, HelloPlace
  <2>4. Invalidate \/ Same \/ (hello[h].gen \in Generations /\ Refresh(hello[h].gen))
    <3>1. CASE Same
      BY <3>1
    <3>2. CASE Refreshing(hello[h]) \/ Rechecked(hello[h])
      BY <1>1, <2>3, <3>2
    <3>3. QED
      BY <1>8, <3>1, <3>2 DEF Hello
  <2>5. QED
    BY <1>3, <2>1, <2>2, <2>4, RegistryTyped DEF TypeOK
<1>9. CASE Reconfigure
  <2>1. BridgeTypeOK'
    BY <1>9 DEF Reconfigure, TypeOK, BridgeTypeOK, bridgeVars
  <2>2. QED
    BY <1>9, <2>1 DEF Reconfigure, TypeOK, Rest, Tasks, Stages
<1>10. QED
  BY <1>4, <1>5, <1>6, <1>7, <1>8, <1>9 DEF Control

\* Every step of a result keeps the types.
LEMMA ResultsTyped ==
    ASSUME TypeOK, \/ \E gen \in Generations : Submit(gen)
                   \/ Normalise \/ Publish \/ View
    PROVE  TypeOK'
<1> USE HubAssumption, BridgeAssumption
<1>1. ingress \in Seq(Generations) /\ Len(ingress) <= IngressMax /\ Len(ingress) \in Nat
  BY LenProperties DEF TypeOK
<1>2. ASSUME NEW gen \in Generations, Submit(gen)
      PROVE  TypeOK'
  <2>1. (ingress \in Seq(Generations) /\ Len(ingress) <= IngressMax)'
    <3>1. DOMAIN ingress = 1 .. Len(ingress)
      BY <1>1, LenProperties
    <3>2. ingress' \in Arrival(ingress, gen, IngressMax, 1 .. Len(ingress))
      BY <1>2, <3>1 DEF Submit
    <3>3. QED
      BY <1>1, <3>2, ArrivalTyped
  <2>2. QED
    BY <1>2, <2>1 DEF Submit, TypeOK, BridgeTypeOK, bridgeVars
<1>3. CASE Normalise
  <2>1. (ingress \in Seq(Generations) /\ Len(ingress) <= IngressMax)'
    <3>1. ingress # << >> /\ ingress' = Tail(ingress)
      BY <1>3 DEF Normalise
    <3>2. QED
      BY <1>1, <3>1, HeadTailProperties
  <2>2. normal' \in Generations \cup {None}
    BY <1>3 DEF Normalise, TypeOK
  <2>3. QED
    BY <1>3, <2>1, <2>2 DEF Normalise, TypeOK, BridgeTypeOK, bridgeVars
<1>4. CASE Publish
  <2>1. (offers \in Seq(Generations) /\ Len(offers) <= OfferMax)'
    <3>1. offers \in Seq(Generations) /\ Len(offers) <= OfferMax /\ normal \in Generations
      BY <1>4 DEF Publish, TypeOK, BridgeTypeOK
    <3>2. DOMAIN offers = 1 .. Len(offers)
      BY <3>1, LenProperties
    <3>3. offers' = offers \/ offers' \in Arrival(offers, normal, OfferMax, 1 .. Len(offers))
      BY <1>4, <3>2 DEF Publish, Offered
    <3>4. QED
      BY <3>1, <3>3, ArrivalTyped
  <2>2. replay' \in Generations \cup {None} /\ client' \in Generations \cup {None}
    BY <1>4 DEF Publish, TypeOK
  <2>3. QED
    BY <1>4, <2>1, <2>2 DEF Publish, TypeOK, BridgeTypeOK
<1>5. CASE View
  BY <1>5 DEF View, TypeOK, BridgeTypeOK, bridgeVars
<1>6. QED
  BY <1>2, <1>3, <1>4, <1>5

\* Every step of the bridge keeps the types.
LEMMA BridgeTyped ==
    ASSUME TypeOK, Record
    PROVE  TypeOK'
<1> USE BridgeAssumption
<1>1. UNCHANGED hubVars
  BY DEF Record
<1>2. SUFFICES BridgeTypeOK'
  BY <1>1, <1>2 DEF TypeOK, hubVars
<1>3. BridgeTypeOK
  BY DEF TypeOK
<1>4. Recording \subseteq Generations /\ \A r \in [gen : Recording, epoch : Nat \ {0}] : r \in Actions
  BY DEF Actions
<1>5. CASE ObserveRead
  <2>1. offers # << >> /\ offers' = Tail(offers)
    BY <1>5 DEF ObserveRead
  <2>2. (offers \in Seq(Generations) /\ Len(offers) <= OfferMax)' /\ Head(offers) \in Generations
    <3>1. offers \in Seq(Generations) /\ Len(offers) <= OfferMax /\ Len(offers) \in Nat
      BY <1>3, LenProperties DEF BridgeTypeOK
    <3>2. QED
      BY <2>1, <3>1, HeadTailProperties
  <2>3. (observing = None \/ observing \in [gen : Generations, epoch : Nat \ {0}])'
    BY <1>3, <1>5, <2>2 DEF ObserveRead, BridgeTypeOK, Accepts
  <2>4. QED
    BY <1>3, <1>5, <2>2, <2>3 DEF ObserveRead, BridgeTypeOK
<1>6. CASE ObserveQueue
  <2>1. (queue \in Seq(Actions) /\ Len(queue) <= QueueMax)'
    <3>1. queue \in Seq(Actions) /\ Len(queue) <= QueueMax /\ observing \in Actions
      BY <1>3, <1>6 DEF ObserveQueue, BridgeTypeOK, Actions
    <3>2. {i \in DOMAIN queue : queue[i].gen # None} \in SUBSET (1 .. Len(queue))
      BY <3>1, LenProperties
    <3>3. queue' = queue \/ queue' \in Queued(queue, observing)
      BY <1>6 DEF ObserveQueue
    <3>4. QED
      BY <3>1, <3>2, <3>3, ArrivalTyped DEF Queued
  <2>2. QED
    BY <1>3, <1>6, <2>1 DEF ObserveQueue, BridgeTypeOK
<1>7. CASE Take
  <2>1. queue \in Seq(Actions) /\ Len(queue) <= QueueMax /\ Len(queue) \in Nat /\ queue # << >>
    BY <1>3, <1>7, LenProperties DEF Take, BridgeTypeOK
  <2>2. Head(queue) \in Actions /\ (queue \in Seq(Actions) /\ Len(queue) <= QueueMax)'
    BY <1>7, <2>1, HeadTailProperties DEF Take
  <2>3. QED
    BY <1>3, <1>7, <2>2 DEF Take, BridgeTypeOK
<1>8. CASE Dispatch
  BY <1>3, <1>8 DEF Dispatch, BridgeTypeOK, Idle
<1>9. ASSUME hand.checked
      PROVE  hand \in [action : Actions, checked : BOOLEAN]
  BY <1>3, <1>9 DEF BridgeTypeOK, Idle
<1>10. CASE SendReset
  <2>1. epoch' \in Nat /\ known' \in BOOLEAN
    <3>1. epoch \in Nat
      BY <1>3 DEF BridgeTypeOK
    <3>2. (epoch' = 0 /\ known' = FALSE) \/ (known' = TRUE /\ epoch' = epoch)
      BY <1>10, Zenon DEF SendReset
    <3>3. epoch' \in Nat
      BY <3>1, <3>2
    <3>4. known' \in {TRUE, FALSE}
      BY <3>2, Zenon
    <3>5. QED
      BY <3>3, <3>4
  <2>2. UNCHANGED <<offers, observing, capability, queue, sink>> /\ held' = None /\ hand' = Idle
    BY <1>10 DEF SendReset
  <2>3. QED
    BY <1>3, <2>1, <2>2 DEF BridgeTypeOK
<1>11. CASE SendData
  BY <1>3, <1>9, <1>11 DEF SendData, BridgeTypeOK, Actions
<1>12. CASE SendFails
  BY <1>3, <1>12 DEF SendFails, BridgeTypeOK
<1>13. QED
  BY <1>5, <1>6, <1>7, <1>8, <1>10, <1>11, <1>12 DEF Record, BridgeNext, Worker

\* The hub begins empty.
LEMMA TypedInitially == Init => TypeOK
<1> SUFFICES ASSUME Init PROVE TypeOK
  OBVIOUS
<1>1. BridgeTypeOK
  <2>1. << >> \in Seq(Generations) /\ << >> \in Seq(Actions)
    BY EmptySeq
  <2>2. Len(<< >>) = 0 /\ OfferMax >= 0 /\ QueueMax >= 0
    BY BridgeAssumption
  <2>3. offers = << >> /\ queue = << >> /\ observing = None /\ capability = None /\ epoch = 0
        /\ hand = Idle /\ sink = "closed" /\ known = FALSE /\ held = None
    BY DEF Init, BridgeInit
  <2>4. QED
    BY <2>1, <2>2, <2>3 DEF BridgeTypeOK
<1>2. ingress \in Seq(Generations) /\ Len(ingress) = 0
  BY EmptySeq DEF Init
<1>3. QED
  BY <1>1, <1>2, HubAssumption DEF Init, TypeOK, Rest, Tasks, Stages

\* Registry, queues and connection keep their shape, and every queue its
\* bound, for any number of generations, hellos and results.
THEOREM Typed == Spec => []TypeOK
<1>1. TypeOK /\ HubInv /\ [Next]_vars => TypeOK'
  <2> SUFFICES ASSUME TypeOK, HubInv, [Next]_vars PROVE TypeOK'
    OBVIOUS
  <2>1. CASE UNCHANGED vars
    BY <2>1 DEF vars, hubVars, bridgeVars, TypeOK, BridgeTypeOK
  <2>2. QED
    BY <2>1, RacersTyped, ResultsTyped, BridgeTyped DEF Next
<1>2. QED
  BY <1>1, TypedInitially, HubAlways, PTL DEF Spec
=============================================================================
