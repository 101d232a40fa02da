SPECIFICATION Spec
CONSTANTS
    Main = Main
    Supervisor = Supervisor
    Requests = {r1}
    Commands = {"stop", "next"}
    Players = {p1, p2}
    NoPlayer = NoPlayer
    MaxAttempts = 1
    StartOnBoot = TRUE
    MayHang = FALSE
    MaxRaces = 1
INVARIANTS
    QuietStationIsSilent
CHECK_DEADLOCK FALSE
