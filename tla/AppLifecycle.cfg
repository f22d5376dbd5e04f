SPECIFICATION FairSpec
CONSTANTS
    camera = camera
    viewer = viewer
    Apps <- TwoApps
    Gens <- ThreeGens
    Scheduled <- OneApp
    Exclusive <- TwoApps
    Restartable <- OneApp
    MaxAttempts = 1
    Kinds <- Contained
    MaxFaults = 2
    MaxOps = 2
INVARIANTS TypeOK ResourcesHeld AuthorizationRevocable
PROPERTIES StopIntentKept StopCompletes RunReached
