CONSTANTS
    KeepAlive = TRUE
    MaxWire = 1
    MaxInbox = 2
    Faults = 2
    Patience = 6
SPECIFICATION LiveSpec
PROPERTIES
    Reconnects
