SPECIFICATION Spec
CONSTANTS
    Sources <- MCSources
    NumLimit = 3
    StrLimit = 4
    StrBuffer = 40
    BlockSize = 24
    Requests = {}
INVARIANTS
    TokensAreLongest
    GapsAreBlank
    PlacesAreTrue
    BlocksApart
CHECK_DEADLOCK FALSE
