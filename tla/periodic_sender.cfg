CONSTANTS
    Channels = {1, 2}
    Slow = {2}
    MaxStarts = 3
    MaxOpens = 2
SPECIFICATION FairSpec
INVARIANTS TypeOK OneSender IndexInRange AllStoppable
PROPERTIES AtMostOnceMore StoppedIsGone ListedIsServed SenderEnds
CHECK_DEADLOCK FALSE
