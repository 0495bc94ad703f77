SPECIFICATION Spec
CONSTANTS
    IsOpenShift = FALSE
    OAuthEnabled = FALSE
    MTLSEnabled = TRUE
    DSCIServed = TRUE
    LegacyCluster = FALSE
    Foreground = {FALSE}
    PullSecrets = {FALSE, TRUE}
    KubeRayHomes = {"ray-system"}
    DSCIs = {"none"}
    Sweeps <- SweepByContent
    MaxUid = 2
    MaxEdits = 2
    MaxFaults = 1
CHECK_DEADLOCK FALSE
INVARIANT QuiescentConverged
