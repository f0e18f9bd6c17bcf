SPECIFICATION FairSpec
CONSTANTS
    a1 = a1
    w1 = w1  w2 = w2
    c1 = c1  c2 = c2
    k1 = k1
    None = None
    Emails = {a1}
    Workers = {w1, w2}
    Conns = {c1, c2}
    Codes = {k1}
    DedupTtl = 1
    RedisFails = FALSE
    RedisRejects = FALSE
    MaxTasks = 1
    MaxClock = 0
CHECK_DEADLOCK FALSE
PROPERTY SignalEnds
