SPECIFICATION WorkerSpec
CONSTANTS
    w1 = w1  w2 = w2  w3 = w3
    i1 = i1  i2 = i2
    load = load
    Instances = {i1, i2}
    Workers <- MCWorkers3
    InstanceOf <- MCMixed
    Events <- MCOneEvent
    Sha1Of <- MCOneSha1Of
    KeyOf <- MCOneKeyOf
    LoadFile <- MCLoadFile
    Malformed = Malformed
    Null = Null
    LockTime = 1
    MaxClock = 2
    Unreliable <- MCUnreliable
INVARIANTS
    AcknowledgedIsPublished
    SuccessIsStored
PROPERTIES
    ImplementsLifecycle
    UnexpiredLockIsKept
