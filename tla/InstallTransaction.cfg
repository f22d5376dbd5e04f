\* One installation over every history, one failing call, three deaths of the daemon.
SPECIFICATION FairSpec
CONSTANTS
    None = None
    Kinds <- AllKinds
    EarlyFailures = FALSE
    MaxCuts = 3
INVARIANTS TypeOK RunsItsPair
PROPERTIES ImplementsSwitch RecoveryEnds
\* An idle appliance with nothing installed and no restart left has nothing to do.
CHECK_DEADLOCK FALSE
