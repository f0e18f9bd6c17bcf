SPECIFICATION FairSpec
CONSTANTS
    w1 = w1  w2 = w2
    i1 = i1  i2 = i2
    a = a  b = b
    Instances = {i1, i2}
    Workers <- MCWorkers
    InstanceOf <- MCSeparate
    Events = {a}
    Sha1Of <- MCSha1Of
    KeyOf <- MCKeyOf
    LoadFile = {a}
    Malformed = Malformed
    Null = Null
    LockTime = 1
    MaxClock = 2
    Unreliable = {}
    Partitions = {p1}
    QueueSize = 2
    MaxLog = 2
    MaxGen = 2
PROPERTIES
    QueuedIsPublished
    ProcessingIsDone
CHECK_DEADLOCK FALSE
