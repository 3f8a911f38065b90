SPECIFICATION RoundSpec
CONSTANTS
    Remotes = {"p1", "p2"}
    Strangers = {}
    Announced = {"p1"}
    MayVanish = {}
    MaxAnnouncement = 1
    MaxVersion = 0
INVARIANTS TypeOK PullsFromThisRound
PROPERTY EveryRemotePulled
