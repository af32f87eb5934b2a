CONSTANTS
    Timers = {t1, t2, t3}
    Dummy = Dummy
    NoTimer = NoTimer
    MaxLoad = 2
    Modulus = 8
    Timeouts = {1, 3}
    MaxTime = 4
    Ops = {"create", "delete", "flush"}
    SlowMain = TRUE
SYMMETRY TimerSymmetry
SPECIFICATION Spec
INVARIANTS
    TypeOK
    NeverLinkedTwice
    ListSorted
    DummyOnlyAtHead
    ArmedForHead
PROPERTIES
    DeleteUnlinks
    ImplementsService
