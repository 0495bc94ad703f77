SPECIFICATION FairSpec
CONSTANTS
    AB_C = AB_C
    A_BC = A_BC
    Operators = {1, 2}
    Clusters = {AB_C, A_BC}
    Meta <- Namesakes
    Scenarios <- SomeScenarios
    seededHash <- SomeHash
CHECK_DEADLOCK FALSE
INVARIANT TypeOK
INVARIANT QuiescentBound
INVARIANT NoOrphanElected
INVARIANT ContentionInv
PROPERTY KeyStableElected
PROPERTY ComesToRest
PROPERTY SecretsSettle
