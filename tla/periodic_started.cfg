CONSTANTS
    Channels = {1}
    Slow = {}
    MaxStarts = 2
    MaxOpens = 1
SPECIFICATION FairSpec
PROPERTY StartedIsServed
CHECK_DEADLOCK FALSE
