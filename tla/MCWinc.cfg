CONSTANTS
    TCP_SOCK_MAX = 2
    LastSession = 6
    MaxOutbox = 1
    MaxLockedOut = 2
    MaxFaults = 2
SPECIFICATION WincSpec
INVARIANTS
    WincTypeOK
    EveryMessageRequested
    ConnectedMeansConnected
    OwnDataOnly
    NoneLeaked
    AwaitedMeansAsked
PROPERTIES
    KeepsReceiving
