SPECIFICATION Spec
CONSTANTS
    NDbs = 2
    NSites = 2
    Dbs <- MCDbs
    Agents = {1, 2, 3}
    Sites <- MCSites
    Home <- SharedHome
    Remotes <- SharedRemotes
    Announced = {1, 2, 3}
    FirstSite <- MCFirstSite
    NoSite = NoSite
    Cells = {c1}
    MaxRank = 2
    MaxClock1 = 1
    MaxClockOthers = 2
    MaxClock <- MCMaxClock
INVARIANT NoMissedChange
PROPERTIES NeverGoesBack PullCatchesUp
