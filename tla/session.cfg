CONSTANTS
    Ports = {com1, com2}
    Rates = {38400}
    Folders = {logs, other}
    OddFolders = {"wide", "equals", "empty"}
    DefaultFolder = logs
    Threads = {t1, t2}
    Protocols = {"J1850VPW", "CAN", "CAN_PS"}
    Requests = {0, 3}
    MaxCalls = 4
    MaxMessages = 3
    MaxRestarts = 1
    com1 = com1
    com2 = com2
    logs = logs
    other = other
    t1 = t1
    t2 = t2
SPECIFICATION MCSpec
INVARIANTS TypeOK OneInside OnceInOrder ReadReports
PROPERTY SavedIsOffered
CHECK_DEADLOCK FALSE
