CONSTANTS
    Timers = {t1, t2}
    Dummy = Dummy
    NoTimer = NoTimer
    MaxLoad = 1
    Modulus = 7
    Timeouts = {1, 2}
    MaxTime = 64
    Ops = {"create", "delete"}
    SlowMain = FALSE
    MaxCalls = 2
SPECIFICATION LiveSpec
PROPERTIES
    EveryTimerExpires
    EveryExpiryIsServed
CHECK_DEADLOCK FALSE
