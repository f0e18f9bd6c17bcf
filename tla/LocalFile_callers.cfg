SPECIFICATION Spec
CONSTANTS
    p1 = p1  p2 = p2  p3 = p3
    a = a  b = b  c = c
    ab = ab  ac = ac  top = top
    None = None
    Callers = {p1, p2, p3}
    Hashes = {a, b, c}
    Subs = {ab, ac}
    Tops = {top}
    SubOf <- MCSubOf
    TopOf <- MCTopOf
    DiskFails = TRUE
    Crashes = TRUE
    MaxCalls = 5
CHECK_DEADLOCK FALSE
SYMMETRY Symmetric
INVARIANTS
    SavedIsFound
    SavedIsWhole
    SaveFailsOnlyUnderDelete
    NoEmptyDirectoryStays
