SPECIFICATION FairSpec
CONSTANTS
    IsOpenShift = FALSE
    OAuthEnabled = FALSE
    MTLSEnabled = FALSE
    DSCIServed = FALSE
    LegacyCluster = FALSE
    Foreground = {FALSE}
    PullSecrets = {TRUE}
    KubeRayHomes = {"none", "ray-system", "moved"}
    DSCIs = {"none"}
    Sweeps <- SweepTogether
    MaxUid = 1
    MaxEdits = 2
    MaxFaults = 1
CHECK_DEADLOCK FALSE
PROPERTY ResyncFollowsLookup
