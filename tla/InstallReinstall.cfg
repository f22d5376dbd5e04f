\* The exact release is installed again and its activation fails early.
SPECIFICATION Spec
CONSTANTS
    None = None
    Kinds <- Exact
    EarlyFailures = TRUE
    MaxCuts = 0
INVARIANT NoJumpBack
CHECK_DEADLOCK FALSE
