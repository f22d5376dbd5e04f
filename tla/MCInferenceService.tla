------------------------- MODULE MCInferenceService -------------------------
(***************************************************************************)
(* Two connections of one application generation (or of two) that share    *)
(* one model, or one that uses two.  Every slot is as good as any other.       *)
(***************************************************************************)
EXTENDS InferenceService, TLC

CONSTANTS c1, c2, closer, w1, w2, k1, k2, h1, h2, x1, x2, j1, j2

TwoClients == {c1, c2}
OneClient == {c1}
OneWorker == {w1}
TwoWorkers == {w1, w2}
OneKey == {k1}
TwoKeys == {k1, k2}
TwoHandles == {h1, h2}
OneChannel == {x1}
OneJob == {j1}
TwoJobs == {j1, j2}
SameInstance == [c \in Clients |-> "app"]
ModelMem == [k \in Keys |-> 2]
ChannelMem == [k \in Keys |-> 1]

Symmetry == Permutations(Clients) \cup Permutations(Handles) \cup Permutations(Jobs)
=============================================================================
