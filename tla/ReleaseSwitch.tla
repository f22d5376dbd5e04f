--------------------------- MODULE ReleaseSwitch ---------------------------
(***************************************************************************)
(* What an installation promises to whoever looks at an application from   *)
(* the outside: the release in force is a whole one (code, Python          *)
(* environment and configuration belong together), and it changes from the *)
(* old to the new one at most once and in one step, whatever fails and     *)
(* whenever the power is cut.                                              *)
(***************************************************************************)

VARIABLE release   \* the release in force

Old == "old"
New == "new"

Init == release = Old

Switch == release = Old /\ release' = New

Next == Switch

Spec == Init /\ [][Next]_release
=============================================================================
