SPECIFICATION Spec
CONSTANTS
    IsOpenShift = TRUE
    OAuthEnabled = TRUE
    MTLSEnabled = TRUE
    DSCIServed = TRUE
    LegacyCluster = FALSE
    Foreground = {TRUE}
    PullSecrets = {TRUE}
    KubeRayHomes = {"none"}
    DSCIs = {"opendatahub"}
    Sweeps <- SweepTogether
    MaxUid = 1
    MaxEdits = 0
    MaxFaults = 0
CHECK_DEADLOCK FALSE
INVARIANT QuiescentUnbound
