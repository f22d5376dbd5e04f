-------------------------- MODULE MCPackageInstall --------------------------
(* Small instances of PackageInstall. *)
EXTENDS PackageInstall

CONSTANTS t1, t2, a1

\* All tasks want one application: they compete for it.
SameApp == [t \in Tasks |-> a1]
Symmetry == Permutations(Tasks)
=============================================================================
