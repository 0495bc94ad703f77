SPECIFICATION Spec
CONSTANTS
    IsOpenShift = FALSE
    OAuthEnabled = TRUE
    MTLSEnabled = TRUE
    DSCIServed = TRUE
    LegacyCluster = FALSE
    Foreground = {FALSE}
    PullSecrets = {TRUE}
    KubeRayHomes = {"ray-system"}
    DSCIs = {"none"}
    Sweeps <- SweepTogether
    MaxUid = 1
    MaxEdits = 0
    MaxFaults = 0
CHECK_DEADLOCK FALSE
INVARIANT QuiescentReferencesExist
