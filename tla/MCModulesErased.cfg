SPECIFICATION MCSpec
CONSTANTS
    None = None
    Chain = {a, b}
    MaxClients = 1
    MaxConnections = 2
    MaxChannels = 2
    Side = {a, b}
    MAX_HOST_CONSENSUS_STATES = 2
    trusting_period = 2
    Fund = 2
    Radix = 2
    Start = 4
    MaxHeight = 7
    Timeouts = {5}
    MaxSends = 2
SYMMETRY MCSymmetry
INVARIANT OnlyEndedAreForgotten
CHECK_DEADLOCK FALSE
