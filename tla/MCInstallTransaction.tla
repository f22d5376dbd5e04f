------------------------ MODULE MCInstallTransaction -----------------------
(* The instances of InstallTransaction that TLC checks. *)
EXTENDS InstallTransaction

AllKinds == {"fresh", "upgrade", "reinstall"}

(* The exact release that is installed is installed again. *)
Exact == {"reinstall"}
=============================================================================
