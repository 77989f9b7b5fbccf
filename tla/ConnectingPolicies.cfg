SPECIFICATION ConnectingSpec
CONSTANTS
    Lines <- MCLines
    Envs <- MCEnvs
    Asks = {}
    Targets <- MCTargets
INVARIANTS
    PoliciesSatisfied
CHECK_DEADLOCK FALSE
