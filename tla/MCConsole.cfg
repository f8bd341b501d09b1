\* The two names of each kind are the same model values in every part, so that
\* one symmetry serves them all.
SPECIFICATION ConsoleSpec
CONSTANTS
    Trucks = {u1}
    Themes = {b1, b2}
    Nil = Nil
    PromoteStreak = 2
    N = 2
    Customers = {a1, a2}
    Points = {b1, b2}
    NoPoint = NoPoint
    Unknown = Unknown
    MaxOrders = 1
    MaxEdits = 2
    Queries = {a1, a2}
    Spots = {b1, b2}
    Short = Short
    Nothing = Nothing
    CacheLimit = 1
    Gap = 1
    MaxAsks = 2
    MaxData = 2
    MaxFailures = 1
    Tiles = {"a", "b", "c", "d"}
    Size <- TileSize
    Limit = 5
    MaxFetches = 2
    Builds <- NewBuilds
    First <- OldBuild
    Admins = {a1, a2}
    MaxPresses = 2
    MaxDeaths = 1
    Desks = {a1, a2}
    AddressOf <- OwnAddress
    PerIp = 2
    PerSubject = 2
    MaxFailed = 2
    MaxTries = 3
    MaxTrouble = 1
SYMMETRY Symmetry
INVARIANTS
    ConsoleTypeOK
    PlacesFit
    MapIsWhole
    
    KeptIsExact
    GuessesAreCounted
PROPERTIES
    ChoicesStay
CHECK_DEADLOCK FALSE
