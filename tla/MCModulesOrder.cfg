SPECIFICATION MCSpec
CONSTANTS
    None = None
    Chain = {a, b}
    MaxClients = 1
    MaxConnections = 2
    MaxChannels = 2
    Side = {a, b}
    MAX_HOST_CONSENSUS_STATES = 2
    trusting_period = 2
    Fund = 2
    Start = 8
    MaxHeight = 12
    Timeouts = {10}
    MaxSends = 2
    Radix = 10
INVARIANT NeighboursFollowHeights
CHECK_DEADLOCK FALSE
