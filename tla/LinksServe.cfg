SPECIFICATION FairSpec
CONSTANTS
    NoPeer = NoPeer
    Remotes = {alice}
    MaxRoute = 2
INVARIANTS TypeOK CallsHaveRoute CloseIsComplete
PROPERTY RefreshRecovers
CHECK_DEADLOCK FALSE
