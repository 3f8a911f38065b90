SPECIFICATION FairSpec
CONSTANTS
    NDbs = 2
    NSites = 2
    Dbs <- MCDbs
    Agents = {1, 2}
    Sites <- MCSites
    Home <- SingleHome
    Remotes <- OneSided
    Announced = {}
    FirstSite <- MCFirstSite
    NoSite = NoSite
    Cells = {c1}
    MaxRank = 2
    MaxClock1 = 2
    MaxClockOthers = 2
    MaxClock <- MCMaxClock
PROPERTY AddressSuffices
