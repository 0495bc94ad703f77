SPECIFICATION FairSpec
CONSTANTS
    IsOpenShift = TRUE
    OAuthEnabled = TRUE
    MTLSEnabled = TRUE
    DSCIServed = FALSE
    LegacyCluster = FALSE
    Foreground = {FALSE}
    PullSecrets = {TRUE}
    KubeRayHomes = {"none"}
    DSCIs = {"opendatahub"}
    Sweeps <- SweepTogether
    MaxUid = 1
    MaxEdits = 0
    MaxFaults = 0
CHECK_DEADLOCK FALSE
PROPERTY ResyncIsolates
