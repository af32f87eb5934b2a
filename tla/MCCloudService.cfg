CONSTANTS
    KeepAlive = TRUE
    MaxWire = 1
    MaxInbox = 2
SPECIFICATION CloudSpec
INVARIANTS
    CloudTypeOK
    EveryWaitIsTimed
    KeepAliveRuns
    ConnectingUndisturbed
    WatchdogArmed
    NoResetWhileConnected
    BelievesInRealAP
PROPERTIES
    OnlyAfterConnack
    OverdueLocksOut
