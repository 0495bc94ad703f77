SPECIFICATION FairSpec
CONSTANTS
    IsOpenShift = TRUE
    OAuthEnabled = TRUE
    MTLSEnabled = FALSE
    DSCIServed = TRUE
    LegacyCluster = FALSE
    Foreground = {FALSE}
    PullSecrets = {TRUE}
    KubeRayHomes = {"ray-system"}
    DSCIs = {"moved", "none"}
    Sweeps <- SweepTogether
    MaxUid = 1
    MaxEdits = 1
    MaxFaults = 1
CHECK_DEADLOCK FALSE
PROPERTY DeletionCompletes
PROPERTY Converges
PROPERTY ResyncIsolates
PROPERTY ResyncFollowsLookup
