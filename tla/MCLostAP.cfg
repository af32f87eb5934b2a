CONSTANTS
    KeepAlive = TRUE
    MaxWire = 1
    MaxInbox = 1
SPECIFICATION CloudSpec
PROPERTY LossOfAPResets
