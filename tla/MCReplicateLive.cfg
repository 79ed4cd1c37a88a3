SPECIFICATION FairSpec
CONSTANTS
    a = a  b = b  c = c
    k1 = k1  k2 = k2  k3 = k3
    m1 = m1  m2 = m2
    o1 = o1  o2 = o2
    noKey = noKey  noRow = noRow  noNode = noNode
    Nodes = {a, b}
    Owners = {o1}
    Keys = {k1, k2, k3}
    DATA_SHARDS = 2
    SHARD_COUNT = 3
    Score <- MCScore
    Workers = {"replicate"}
    Env = {"delete", "restore", "lossy", "load", "fileloss", "crash", "ten minutes"}
    Library = "empty"
    MaxFaults = 2
    Prefixes = 1
    PrefixOf <- MCPrefixOf
    Movers = {m1}
    NoKey = noKey
    NoRow = noRow
    NoNode = noNode
PROPERTIES FirstBackup
