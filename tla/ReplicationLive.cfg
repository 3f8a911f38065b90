SPECIFICATION FairSpec
CONSTANTS
    NDbs = 2
    NSites = 2
    Dbs <- MCDbs
    Agents = {1, 2}
    Sites <- MCSites
    Home <- SingleHome
    Remotes <- FullMesh
    Announced = {1}
    FirstSite <- MCFirstSite
    NoSite = NoSite
    Cells = {c1}
    MaxRank = 2
    MaxClock1 = 1
    MaxClockOthers = 1
    MaxClock <- MCMaxClock
PROPERTIES EventuallySameContents KnownPeersCatchUp
