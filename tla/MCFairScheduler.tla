-------------------------- MODULE MCFairScheduler --------------------------
(***************************************************************************)
(* Small instances of FairScheduler.  App A has two connections, each      *)
(* with a model of its own; app B shares model "k1" with it.  A tick is   *)
(* five seconds, so aging saturates after two ticks as it does after ten   *)
(* seconds in the source.                                                  *)
(***************************************************************************)
EXTENDS FairScheduler, TLC

CONSTANTS j1, j2, j3, appA, appB, c1, c2, c3, k1, k2, w1, w2

MCJobs == {j1, j2, j3}
MCApps == {appA, appB}
MCClients == {c1, c2, c3}
MCKeys == {k1, k2}
OneWorker == {w1}
TwoWorkers == {w1, w2}
MCAppOf == (j1 :> appA) @@ (j2 :> appA) @@ (j3 :> appB)
MCClientOf == (j1 :> c1) @@ (j2 :> c2) @@ (j3 :> c3)
\* Contended: the second application uses a model of the first one.
MCKeyOf == (j1 :> k1) @@ (j2 :> k2) @@ (j3 :> k1)
\* Separate: the applications use different models.
SeparateKeyOf == (j1 :> k1) @@ (j2 :> k1) @@ (j3 :> k2)

\* authorization.py:238 admits one platform priority; the scheduler itself
\* takes 0..100.
PlatformPriority == [j \in MCJobs |-> 50]

WorkerSymmetry == Permutations(TwoWorkers)
ShortOrFar == {1, Horizon + 1}
=============================================================================
