SPECIFICATION Spec
CONSTANTS
    t1 = t1
    t2 = t2
    a1 = a1
    None = None
    Apps = {a1}
    Uploads = {t1, t2}
    Tasks = {t1, t2}
    AppOf <- SameApp
    MaxPending = 1
    MaxHistory = 3
    MaxActive = 1
    MaxOthers = 0
    Failures = {"save"}
SYMMETRY Symmetry
INVARIANTS TypeOK InstallOnce PackageHeld NothingStranded
