\* Two generations of an application, and a hello that may be late.
SPECIFICATION FairSpec
CONSTANTS
    None = None
    Generations = {1, 2}
    Recording = {1, 2}
    IngressMax = 1
    OfferMax = 1
    QueueMax = 1
    Hellos = {h1}
    MaxGeneration = 2
    MaxHellos = 1
INVARIANTS TypeOK NothingStale RecordingFenced
PROPERTIES LiveServed
\* After the last generation the system rests.
CHECK_DEADLOCK FALSE
