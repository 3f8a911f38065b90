SPECIFICATION FairSpec
CONSTANTS
    Remotes = {alice, bob}
INVARIANTS TypeOK ExitCodeIsTrue PathsAreThere
PROPERTIES ExitsCleanedUp Ends
CHECK_DEADLOCK FALSE
