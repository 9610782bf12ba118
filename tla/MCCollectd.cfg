SPECIFICATION FairSpec
CONSTANTS
    Monitors = {m1, m2}
    Main = Main
    Posters = {m1}
    Nobody = Nobody
    MaxInst = 2
    MaxVer = 4
    MaxDeaths = 1
    ServerMayFail = TRUE
    RenderMayFail = TRUE
INVARIANTS AtMostOneProcess RestartNotLost
PROPERTIES MutexReleased
CHECK_DEADLOCK FALSE
