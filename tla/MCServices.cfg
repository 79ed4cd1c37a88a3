SPECIFICATION ServicesSpec
CONSTANTS
    a = a  b = b
    Nodes = {a, b}
    SHARD_COUNT = 3
    DATA_SHARDS = 2
    Rank <- MCRank
    Fresh = 1
    TTL = 3
    MaxInterval = 2
    MaxRestarts = 1
    Streams = {t1, t2}
    Shards = {s1}
    Chunks = 2
    MaxChunks = 3
    MaxPermits = 2
    Manifests = {m1}
    NoShard = NoShard
    Members = {a, b}
    PEER_TTL = 2
    MaxPending = 2
    MaxDirRestarts = 2
    ChannelNodes = {a, b}
    Conns = {c1, c2, c3}
    Relays = {r1}
    MaxDrops = 3
    NoConn = NoConn
    NoMember = NoMember
    Pipes = {p1, p2, p3}
    IDLE = 2
    MaxTunnels = 2
INVARIANTS TypeOK ServicesTypeOK NoTornShard ListExact RegisteredReachable
PROPERTIES RetiredOnlyWhenSilent Rejoins ImplementsStore UploadsEnd NodesRestored 
CHECK_DEADLOCK FALSE
