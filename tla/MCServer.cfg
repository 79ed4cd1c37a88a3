SPECIFICATION ServerSpec
CONSTANTS
    f1 = f1  f2 = f2  f3 = f3  f4 = f4  i1 = i1  i2 = i2  i3 = i3  i4 = i4  x1 = x1  x2 = x2  x3 = x3  x4 = x4  c1 = c1  c2 = c2
    StorageNodes = {n1, n2}
    TotalShards = 2
    NeedShards = 1
    Retention = 1
    MaxSnapshots = 2
    MaxOutages = 1
    MaxCrashes = 1
    MaxListed = 1
    NoHolder = NoHolder
    Users = {u1, u2}
    Requests = {q1, q2}
    STATUS_TTL = 1
    LOGIN_FAILURE_THRESHOLD = 2
    MaxDelay = 1
    MaxOps = 2
    NoUser = NoUser
    Names = {u1, u2}
    Attempts = {b1, b2, b3}
    NoName = NoName
    Pics = {i1, i2, i3, i4}
    Similarity <- MCSimilarity
    NUM_NEIGHBORS = 2
    BATCH_SIZE = 2
    MaxEvents = 2
    NoPic = NoPic
    Faces = {f1, f2, f3, f4}
    Alike = {{f1, f4}}
    MaxPersons = 3
    MaxRequests = 2
    MaxCuts = 1
    NoFace = NoFace
    Jobs = {j1, j2}
    Paths = {x1, x2, x3, x4}
    NotMedia = {x4}
    Contents = {c1, c2}
    ContentOf <- MCContentOf
    CHUNK = 2
    KEEP = 1
    MaxMishaps = 1
    Addresses = {a1, a2, a3}
    MAX_TOKENS = 2
    REFILL = 1
    LOGIN_TOKENS = 1
    LOGIN_REFILL = 1
    STALE = 2
    CLEANUP = 1
    MAX_BUCKETS = 2
INVARIANTS ServerTypeOK RetainedRestorable MeshRecoveryPossible OneSetup LockoutBound StatusFresh AdminRemains PairsComplete GroupsExact PersonsCurrent JobsTracked ImportAccounted WithinRate
PROPERTIES NeverSplit
SYMMETRY NodeSymmetry
CHECK_DEADLOCK FALSE
