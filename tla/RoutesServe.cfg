SPECIFICATION FairSpec
CONSTANTS
    MaxRoute = 5
    MaxDeath = 4
INVARIANTS TypeOK OneRoute DeathIsNoticed CloseReleases
PROPERTY RouteRepaired
CHECK_DEADLOCK FALSE
