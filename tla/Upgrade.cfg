SPECIFICATION Spec
CONSTANTS
    IsOpenShift = TRUE
    OAuthEnabled = TRUE
    MTLSEnabled = TRUE
    DSCIServed = TRUE
    LegacyCluster = TRUE
    Foreground = {TRUE, FALSE}
    PullSecrets = {FALSE}
    KubeRayHomes = {"none"}
    DSCIs = {"opendatahub"}
    Sweeps <- SweepTogether
    MaxUid = 1
    MaxEdits = 1
    MaxFaults = 0
CHECK_DEADLOCK FALSE
INVARIANT QuiescentConverged
INVARIANT QuiescentPodCanPull
INVARIANT QuiescentIsolated
INVARIANT FinalizerInv
PROPERTY ReleaseOnlyUnbound
PROPERTY CAKeyStable
INVARIANT ConvergenceInv
INVARIANT CAKeyInv
