SPECIFICATION Spec
CONSTANTS
    RetryLimit = 3
    Builds <- RepositoryBuild
    Secrets = {"short"}
    Updates <- MCUpdates
    MaxUpdates = 1
    MaxFaults = 0
PROPERTIES
    BootSettles
CHECK_DEADLOCK FALSE
