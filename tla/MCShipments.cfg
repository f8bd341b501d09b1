\* The two names of each kind are the same model values in every part, so that
\* one symmetry serves them all.
SPECIFICATION ShipmentsSpec
CONSTANTS
    Sessions = {a1, a2}
    Devices = {b1, b2}
    NoDevice = NoDevice
    Dispatchers = {u1}
    MaxVersion = 4
    Orders = {a1, a2}
    Customers = {b1, b2}
    Nobody = Nobody
    Texts = {x}
    Empty = Empty
    MaxMessages = 2
    MaxCodes = 2
    Links = {k1}
    Guess = k0
    Tabs = {a1, a2}
    MaxTime = 3
    MaxListings = 1
    Codes = {a1, a2}
    Names = {n}
    MaxPresses = 1
    MaxUpsets = 1
    Calls = {b1, b2}
    MaxTokens = 3
    MaxFamilies = 1
    MaxLost = 1
SYMMETRY Symmetry
INVARIANTS
    ShipmentsTypeOK
    CodeIffWaiting
    SoleWriter
    RefreshNeverOutlives
    
    TokensAreUsedOnce
PROPERTIES
    OrderMovesForward
    NothingIsUndone
CHECK_DEADLOCK FALSE
