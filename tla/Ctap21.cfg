\* Three places and two ids: ids repeat, and a key between two others goes.
CONSTANTS
    MaxKeys = 3
    Ids = {k1, k2}
    Users = {u, v}
    Rps = {r}
    PinLengths = {3, 4, 65}
    CommonPins = {zeros}
    None = None
SPECIFICATION Spec
INVARIANTS Ctap21TypeOK AttestedIfPermitted
PROPERTY KeysKept
