SPECIFICATION Spec
CONSTANTS
    NDbs = 2
    NSites = 3
    Dbs <- MCDbs
    Agents = {1, 2}
    Sites <- MCSites
    Home <- SingleHome
    Remotes <- FullMesh
    Announced = {1, 2}
    FirstSite <- MCFirstSite
    NoSite = NoSite
    Cells = {c1, c2}
    MaxRank = 1
    MaxClock1 = 1
    MaxClockOthers = 2
    MaxClock <- MCMaxClock
SYMMETRY Symmetry
INVARIANTS TypeOK NoMissedChange TrackedIsCommitted AnswerIsComplete
PROPERTY ImplementsOwed
