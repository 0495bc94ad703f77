SPECIFICATION Spec
CONSTANTS
    OAuthEnabled = TRUE
    MTLSEnabled = TRUE
    UserNames <- Users
    Requests <- Choices
    Predating <- Before
    MaxRelease = 2
INVARIANT RejectionsJustified
INVARIANT AdmittedComplete
INVARIANT ReadmissionChangesNothing
INVARIANT UserItemsKept
