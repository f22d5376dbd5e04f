-------------------------- MODULE MCAppLifecycle --------------------------
(***************************************************************************)
(* Two applications that want the same device; one of them also uses the   *)
(* inference service and is restarted after a crash.                       *)
(***************************************************************************)
EXTENDS AppLifecycle

CONSTANTS camera, viewer

TwoApps == {camera, viewer}
OneApp == {camera}
ThreeGens == 1..3
\* Every fault but "orphan".
Contained == {"exit", "dstate", "write", "revoke", "unready", "dependency", "hot",
              "crash", "reboot"}
=============================================================================
