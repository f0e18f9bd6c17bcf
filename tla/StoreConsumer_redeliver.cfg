SPECIFICATION Spec
CONSTANTS
    w1 = w1  w2 = w2
    i1 = i1  i2 = i2
    a = a  b = b
    Instances = {i1}
    Workers <- MCWorkers
    InstanceOf <- MCShared
    Events = {a, b}
    Sha1Of <- MCSha1Of
    KeyOf <- MCKeyOf
    LoadFile = {a, b}
    Malformed = Malformed
    Null = Null
    LockTime = 1
    MaxClock = 0
    Unreliable = {"oss"}
    Partitions = {p1}
    QueueSize = 2
    MaxLog = 2
    MaxGen = 1
INVARIANT
    FailedIsRedelivered
CHECK_DEADLOCK FALSE
