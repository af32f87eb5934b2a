CONSTANTS
    KeepAlive = TRUE
    MaxWire = 1
    MaxInbox = 1
SPECIFICATION ClientSpec
PROPERTY ConnackTimeoutCloses
