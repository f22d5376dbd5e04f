\* A reconcile pass fails while an application is being stopped and started again.
SPECIFICATION FailedSpec
CONSTANTS
    None = None
    Generations = {1, 2}
    Recording = {1, 2}
    IngressMax = 1
    OfferMax = 1
    QueueMax = 1
    Hellos = {h1}
    MaxGeneration = 2
    MaxHellos = 0
PROPERTIES LiveServed
CHECK_DEADLOCK FALSE
