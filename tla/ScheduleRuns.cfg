SPECIFICATION ScheduleSpec
CONSTANTS
    Schedules = {"s1", "s2"}
    Runs = {"r1", "r2"}
    Editions = {"fresh", "beat"}
    EditionsOf <- MCEditionsOf
    Heartbeats = {"beat"}
    MaxAttempts = 2
    MaxFaults = 2
INVARIANTS NoRunLeftAlone
PROPERTIES EditsWin CancelIsHonoured
