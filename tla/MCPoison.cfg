SPECIFICATION AiSpec
CONSTANTS
    i1 = i1  i2 = i2  h1 = h1  h2 = h2
    Images = {i1, i2}
    Hashes = {h1, h2}
    HashOf <- MCHashOf
    Rank <- MCRank
    Kind <- MCKind
    BatchLimit = 2
    DESC_FAIL_CAP = 2
    MinCycles = 2
    MaxAiOutages = 0
    MaxAborts = 0
    NoImage = NoImage
PROPERTIES PoisonParked
CHECK_DEADLOCK FALSE
