SPECIFICATION Spec
CONSTANTS
    IsOpenShift = TRUE
    OAuthEnabled = TRUE
    MTLSEnabled = TRUE
    DSCIServed = TRUE
    LegacyCluster = FALSE
    Foreground = {FALSE}
    PullSecrets = {FALSE}
    KubeRayHomes = {"none"}
    DSCIs = {"opendatahub"}
    Sweeps <- SweepTogether
    MaxUid = 2
    MaxEdits = 1
    MaxFaults = 1
CHECK_DEADLOCK FALSE
INVARIANT TypeOK
INVARIANT FinalizerGuardsApply
INVARIANT NoOrphanCRB
INVARIANT QuiescentConverged
INVARIANT QuiescentPodCanPull
INVARIANT BindingInv
PROPERTY ReleaseOnlyUnbound
PROPERTY CAKeyStable
PROPERTY ImplementsProtocol
