SPECIFICATION Spec
CONSTANTS
    g1 = g1  g2 = g2
    s1 = s1  s2 = s2
    r1 = r1  r2 = r2
    None = None
    Gateways = {g1}
    Backends = {s1, s2}
    Requests = {r1, r2}
    Inputs <- MCInputs
    RegisterFails = TRUE
    HangsLong = TRUE
    MaxDeaths = 1
    MaxOutages = 0
    MaxFetches = 1
CHECK_DEADLOCK FALSE
SYMMETRY Symmetric
INVARIANTS
    RepliedOnce
    RefusedHasNoEffect
    SuccessIsExecuted
    ServedWhenHealthy
