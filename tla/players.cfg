SPECIFICATION FairSpec
CONSTANTS
    QueueCap = 1
    MaxStarts = 1
    MaxPeers = 2
    Script <- MCScript
INVARIANTS TypeOK FieldsAreRead
PROPERTIES ClientsAreToldApart LoginStartsServer EveryPeerIsServed ReadsAsListenerTask
CHECK_DEADLOCK FALSE
