SPECIFICATION Spec
CONSTANTS
    h1 = h1 d1 = d1 d2 = d2 x1 = x1 x2 = x2 v1 = v1 v2 = v2
    Channels = {h1}
    ChannelOf <- MCChannelOf
    Deliveries = {}
    Events = {x2}
    ThreadOf <- MCThreadOf
    Conversations = {v1, v2}
    MaxRetries = 2
    MaxArrivals = 2
    MaxKills = 1
    MaxFaults = 1
    None = None
CHECK_DEADLOCK FALSE
INVARIANTS AnsweredIsDispatched
