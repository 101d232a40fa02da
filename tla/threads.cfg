SPECIFICATION FairSpec
CONSTANTS
    Main = Main
    Supervisor = Supervisor
    Requests = {r1}
    Commands = {"toggle", "stop", "next", "volume", "recover"}
    Players = {p1}
    NoPlayer = NoPlayer
    MaxAttempts = 1
    StartOnBoot = TRUE
    MayHang = TRUE
    MaxRaces = 1
INVARIANTS
    TypeOK
    CleanShutdown
    RetryBounded
PROPERTIES
    SupervisorKeepsWatch
    ShutdownEnds
CHECK_DEADLOCK FALSE
