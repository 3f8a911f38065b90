SPECIFICATION CallSpec
CONSTANTS
    Remotes = {"p1"}
    Strangers = {"x"}
    Announced = {}
    MayVanish = {"p1"}
    MaxAnnouncement = 1
    MaxVersion = 2
PROPERTIES RemotesAnswered AnnouncesKeepUp
