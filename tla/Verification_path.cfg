SPECIFICATION VFairSpec
CONSTANTS
    a1 = a1
    w1 = w1  w2 = w2
    c1 = c1
    None = None
    Emails = {a1}
    Workers = {w1, w2}
    Conns = {c1}
    Codes = {1, 2, 3}
    DedupTtl = 1
    CodeTtl = 2
    RedisFails = TRUE
    RedisRejects = TRUE
    KafkaFails = TRUE
    MaxTasks = 2
    MaxClock = 2
    MaxCrashes = 1
CHECK_DEADLOCK FALSE
INVARIANTS
    PoolExclusion
    NoConnectionLeaks
    NoSleeperIsMissed
    DedupExclusion
    MailedIsStoredOrRejected
    AcknowledgedIsUnderWay
    LastMailIsAccepted
PROPERTIES
    AcknowledgedIsTaken
