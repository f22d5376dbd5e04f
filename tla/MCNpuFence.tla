---------------------------- MODULE MCNpuFence ----------------------------
(***************************************************************************)
(* Two inference workers and two connections, so that a reader meets a     *)
(* reader, a writer a writer, and a writer both; one accept loop.          *)
(***************************************************************************)
EXTENDS NpuFence, TLC

CONSTANTS w1, w2, c1, c2, p1

TwoWorkers == {w1, w2}
TwoConnections == {c1, c2}
OnePoller == {p1}
OneCtypesWorker == [t \in Threads |-> {t # w2}]
=============================================================================
