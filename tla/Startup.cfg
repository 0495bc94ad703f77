SPECIFICATION FairSpec
CONSTANTS
    Instances = {1, 2}
    Platforms = {TRUE, FALSE}
    Domains = {"custom", "apps"}
    Ingresses = {"apps"}
    Configs <- SomeConfigs
    MaxEdits = 1
    MaxFaults = 1
CHECK_DEADLOCK FALSE
INVARIANT TypeOK
INVARIANT ConfigHonoured
INVARIANT ServesCertified
INVARIANT DomainHonoured
PROPERTY Serves
