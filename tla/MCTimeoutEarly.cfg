CONSTANTS
    Timers = {t1, t2}
    Dummy = Dummy
    NoTimer = NoTimer
    MaxLoad = 2
    Modulus = 8
    Timeouts = {1, 3}
    MaxTime = 4
    Ops = {"create"}
    SlowMain = FALSE
SPECIFICATION TimedSpec
INVARIANT NeverEarly
