\* Two slots for three key pairs: one is generated again.
CONSTANTS
    HSM_MAX_SLOTS = 2
    StorageSize = 3
    Images = {x, y}
    RestorePieces = 2
    MaxKeys = 3
    None = None
    LimbBits = 1
    WordSize = 2
    CurveN = 179
    CurveB = 40
    GeneratorX = 3
    GeneratorY = 43
    SomeKeys = {2, 90, 141}
    SomeHashes = {3, 255}
    SomeZ = {77}
    NonceStep = 7
    MaxTries = 3
    SomeDraws = {1, 90, 190}
SPECIFICATION Spec
INVARIANTS WebUsbTypeOK KeyIdsTrue CurveCorrect
