SPECIFICATION Spec
CONSTANTS
    NDbs = 3
    NSites = 3
    Dbs <- MCDbs
    Agents = {1, 2, 3}
    Sites <- MCSites
    Home <- SingleHome
    Remotes <- FullMesh
    Announced = {1, 2, 3}
    FirstSite <- MCFirstSite
    NoSite = NoSite
    Cells = {c1}
    MaxRank = 1
    MaxClock1 = 1
    MaxClockOthers = 1
    MaxClock <- MCMaxClock
INVARIANT Converged
