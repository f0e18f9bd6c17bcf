SPECIFICATION FairSpec
CONSTANTS
    g1 = g1
    f1 = f1
    Servers = {g1}
    Fronts = {f1}
    Order <- MCOrder
    FrontSections = {"kafka", "mysql"}
    Database = {"mysql"}
    Clients = {"kafka"}
    Bucket = {"minio"}
    MaxVersions = 2
    MaxFaults = 1
    MaxStarts = 1
    NacosFails = TRUE
    ServiceFails = TRUE
INVARIANTS
    BucketIsShared
    LoadedInOrder
PROPERTIES
    NeverErased
    NoRollback
    UpdateArrives
CHECK_DEADLOCK FALSE
