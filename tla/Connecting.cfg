SPECIFICATION ConnectingSpec
CONSTANTS
    Lines <- MCLines
    Envs <- MCEnvs
    Asks = {}
    Targets <- MCTargets
INVARIANTS
    CommandInv
    AdmissionInv
    SameOnBothPaths
CHECK_DEADLOCK FALSE
