SPECIFICATION LibrarySpec
CONSTANTS
    f1 = f1  f2 = f2  i1 = i1  i2 = i2  i3 = i3  h1 = h1  h2 = h2
    Files = {f1, f2}
    Exif <- MCExif
    Turns = {3}
    BatchSize = 1
    MaxEdits = 1
    MaxStops = 1
    Images = {i1, i2, i3}
    Hashes = {h1, h2}
    HashOf <- MCHashOf
    Rank <- MCRank
    Kind <- MCKind
    BatchLimit = 3
    DESC_FAIL_CAP = 2
    MinCycles = 3
    MaxAiOutages = 1
    MaxAborts = 1
    NoImage = NoImage
INVARIANTS LibraryTypeOK ThumbnailCurrent OnlyBadSkipped
PROPERTIES GoodFileVerified OrientationKept MarkerCleared PicturesDescribed
CHECK_DEADLOCK FALSE
