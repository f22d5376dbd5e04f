-------------------------- MODULE NativeExclusion --------------------------
(***************************************************************************)
(* What the driver fence of the inference daemon promises, without saying  *)
(* how (docs/guide/inference-concurrency.md, "driver lock, GC and          *)
(* unloading"): inferences of independent contexts overlap each other and  *)
(* nothing else; maintenance of the driver (load, destroy, DMA allocation) *)
(* is alone; rkipc's own use of the NPU is alone; garbage collection is    *)
(* never concurrent with a native call of this process; and after a failed *)
(* teardown nobody enters the driver until the process has died.           *)
(***************************************************************************)
CONSTANT Threads

VARIABLES
    inferring,    \* threads inside a native inference
    maintaining,  \* threads inside driver maintenance
    collecting,   \* threads inside gc.collect()
    ipc,          \* rkipc is using the NPU
    sealed        \* the driver is quarantined

vars == <<inferring, maintaining, collecting, ipc, sealed>>

Init ==
    /\ inferring = {}
    /\ maintaining = {}
    /\ collecting = {}
    /\ ipc = FALSE
    /\ sealed = FALSE

DriverOpen == ~sealed /\ ~ipc /\ maintaining = {}

StartInference(t) ==
    /\ DriverOpen /\ collecting = {}
    /\ inferring' = inferring \cup {t}
    /\ UNCHANGED <<maintaining, collecting, ipc, sealed>>

EndInference(t) ==
    /\ inferring' = inferring \ {t}
    /\ UNCHANGED <<maintaining, collecting, ipc, sealed>>

StartMaintenance(t) ==
    /\ DriverOpen /\ inferring = {} /\ collecting = {}
    /\ maintaining' = {t}
    /\ UNCHANGED <<inferring, collecting, ipc, sealed>>

EndMaintenance(t) ==
    /\ maintaining' = maintaining \ {t}
    /\ UNCHANGED <<inferring, collecting, ipc, sealed>>

\* A teardown that failed: the driver is in an unknown state.
SealDriver(t) ==
    /\ maintaining = {t}
    /\ maintaining' = {}
    /\ sealed' = TRUE
    /\ UNCHANGED <<inferring, collecting, ipc>>

StartCollection(t) ==
    /\ inferring = {} /\ maintaining = {} /\ collecting = {}
    /\ collecting' = {t}
    /\ UNCHANGED <<inferring, maintaining, ipc, sealed>>

EndCollection(t) ==
    /\ collecting' = collecting \ {t}
    /\ UNCHANGED <<inferring, maintaining, ipc, sealed>>

IpcStart ==
    /\ DriverOpen /\ inferring = {}
    /\ ipc' = TRUE
    /\ UNCHANGED <<inferring, maintaining, collecting, sealed>>

IpcEnd ==
    /\ ipc' = FALSE
    /\ UNCHANGED <<inferring, maintaining, collecting, sealed>>

\* The daemon's death ends all it was doing and lifts the quarantine.
Die ==
    /\ inferring' = {}
    /\ maintaining' = {}
    /\ collecting' = {}
    /\ sealed' = FALSE
    /\ UNCHANGED ipc

Next ==
    \/ \E t \in Threads :
          \/ StartInference(t) \/ EndInference(t)
          \/ StartMaintenance(t) \/ EndMaintenance(t) \/ SealDriver(t)
          \/ StartCollection(t) \/ EndCollection(t)
    \/ IpcStart \/ IpcEnd \/ Die

Spec == Init /\ [][Next]_vars
=============================================================================
