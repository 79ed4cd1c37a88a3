SPECIFICATION FairSpec
CONSTANTS
    a = a  b = b
    Nodes = {a, b}
    SHARD_COUNT = 3
    DATA_SHARDS = 2
    Rank <- MCRank
    Fresh = 1
    TTL = 3
    MaxInterval = 2
    MaxRestarts = 0
PROPERTIES DeadNodeRetired
