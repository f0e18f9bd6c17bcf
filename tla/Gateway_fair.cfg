SPECIFICATION FairSpec
CONSTANTS
    g1 = g1  g2 = g2
    s1 = s1  s2 = s2
    r1 = r1  r2 = r2
    None = None
    Gateways = {g1, g2}
    Backends = {s1}
    Requests = {r1}
    Inputs <- MCAsk
    RegisterFails = FALSE
    HangsLong = TRUE
    MaxDeaths = 1
    MaxOutages = 1
    MaxFetches = 2
CHECK_DEADLOCK FALSE
PROPERTIES
    EveryRequestAnswered
    DeadIsUnlisted
    UpIsListed
