CONSTANTS
    KeepAlive = TRUE
    MaxWire = 1
    MaxInbox = 1
    Faults = 4
    Patience = 6
SPECIFICATION LiveSpec
PROPERTIES
    Reconnects
    Resubscribes
    JoinsCommanded
