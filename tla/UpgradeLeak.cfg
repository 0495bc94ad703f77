SPECIFICATION Spec
CONSTANTS
    IsOpenShift = TRUE
    OAuthEnabled = TRUE
    MTLSEnabled = TRUE
    DSCIServed = TRUE
    LegacyCluster = TRUE
    Foreground = {FALSE}
    PullSecrets = {TRUE}
    KubeRayHomes = {"none"}
    DSCIs = {"opendatahub"}
    Sweeps <- SweepTogether
    MaxUid = 1
    MaxEdits = 1
    MaxFaults = 0
CHECK_DEADLOCK FALSE
INVARIANT QuiescentUnbound
