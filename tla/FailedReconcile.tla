--------------------------- MODULE FailedReconcile -------------------------
(***************************************************************************)
(* ResultHub beside a reconcile pass that raises (appmgr/server.py,        *)
(* _reconcile_once).  The exception has left the busy gate when the        *)
(* handler reads the state of the application and, finding it inactive,    *)
(* revokes whatever generation the hub accepts by then.                    *)
(***************************************************************************)
EXTENDS ResultHub

VARIABLE handler    \* where the handler stands

failedVars == <<vars, handler>>

FailedInit == Init /\ handler = "none"

ReconcileFails ==
    /\ Gated /\ handler = "none" /\ handler' = "read"
    /\ UNCHANGED vars

HandlerReads ==
    /\ handler = "read"
    /\ handler' = IF live = None THEN "revoke" ELSE "none"
    /\ UNCHANGED vars

HandlerRevokes ==
    /\ handler = "revoke" /\ handler' = "none"
    /\ Invalidate
    /\ UNCHANGED <<live, told, started, control, hello, helloed, normal>>

FailedNext ==
    \/ Next /\ UNCHANGED handler
    \/ ReconcileFails \/ HandlerReads \/ HandlerRevokes

(* As in ResultHub; the handler, once it runs, ends. *)
FailedSpec ==
    /\ FailedInit /\ [][FailedNext]_failedVars
    /\ WF_failedVars(Control /\ UNCHANGED handler)
    /\ WF_failedVars(HandlerReads \/ HandlerRevokes)
    /\ \A h \in Hellos : WF_failedVars(hello[h] # Rest /\ Hello(h) /\ UNCHANGED handler)
=============================================================================
