------------------------------ MODULE MCConsole ------------------------------
(***************************************************************************)
(* The rest of a dispatcher's browser and the services behind it, for TLC: *)
(* the fleet map (FleetMap), the map of one shipment, the keys of the      *)
(* board, the order form, the place search and its proxy, the terrain      *)
(* proxy, the release panel with the phones it reaches, and the sign-in.   *)
(* The parts share no state here: each behaviour is of one of them.        *)
(***************************************************************************)
EXTENDS FleetMap, FiniteSets

CONSTANTS
    Customers, Points, NoPoint, Unknown, MaxOrders, MaxEdits, Queries, Spots,
    Short, Nothing, CacheLimit, Gap, MaxAsks, MaxData, Tiles, Size, Limit,
    MaxFetches, N, Builds, First, Admins, MaxPresses, MaxDeaths, Desks,
    AddressOf, PerIp, PerSubject, MaxFailed, MaxTries, MaxTrouble

\* Of the numbers: the limits of the code, and the bounds of the runs.
ASSUME NumbersAssumption ==
    /\ {PerIp, PerSubject, MaxFailed, MaxTries, MaxTrouble} \subseteq Nat
    /\ {MaxPresses, MaxDeaths, MaxOrders, MaxEdits, MaxAsks, MaxData,
        MaxFailures, CacheLimit, Gap, N} \subseteq Nat
    /\ IsFiniteSet(Desks)

\* A place is typed or pointed at.
ASSUME PlacesAssumption == Queries \cap Spots = {}

\* A versionCode is positive, and a digest tells builds apart.
ASSUME BuildsAssumption ==
    \A b, c \in Builds \cup {First} :
        b.code \in Nat \ {0} /\ b.bytes # "nothing" /\ (b.bytes = c.bytes => b = c)

\* A tile has a size, and one fetch of it can be under way.
ASSUME TilesAssumption ==
    /\ Limit \in Nat /\ MaxFetches \in Nat \ {0}
    /\ Size \in [Tiles -> Nat]

VARIABLES
    scene,         \* the part this behaviour is of
    theme, style, data, drawn, view, missed, unfetched,
    fleet, ui, railSet,
    customers, orders, cache, stale, form, dialogs, edits,
    query, timer, results, pin, wire, queue, busy, since, places, lookups,
    kept, bytes, fetching,
    latest, apk, staged, packages, scratch, script, panel, phone, installed,
    presses, deaths, crossed,
    redis, perAddress, perAccount, failed, locked, request, page, tries,
    trouble, passed, open, wrong, overlapped

Route == INSTANCE RouteMap
    WITH failures <- unfetched
Keys == INSTANCE Board
    WITH stored <- railSet
Order == INSTANCE OrderForm
Places == INSTANCE PlaceSearch
    WITH cache <- places, failures <- lookups
Relief == INSTANCE TerrainCache
Release == INSTANCE ReleaseChannel
Login == INSTANCE SignIn

routeVars == <<theme, style, data, drawn, view, missed, unfetched>>
boardVars == <<fleet, ui, railSet>>
orderVars == <<customers, orders, cache, stale, form, dialogs, edits>>
placesVars == <<query, timer, results, pin, wire, queue, busy, since, places,
    lookups>>
terrainVars == <<kept, bytes, fetching>>
releaseVars == <<latest, apk, staged, packages, scratch, script, panel, phone,
    installed, presses, deaths, crossed>>
loginVars == <<redis, perAddress, perAccount, failed, locked, request, page,
    tries, trouble, passed, open, wrong, overlapped>>

Off == "off"
Scenes == {"map", "route", "board", "order", "places", "terrain", "release", "login"}

ConsoleInit ==
    /\ scene \in Scenes
    /\ IF scene = "map" THEN Init
       ELSE /\ state = Off /\ map = Off /\ governor = Off
            /\ qualityRef = Off /\ stored = Off /\ failures = Off
    /\ IF scene = "route" THEN Route!Init
       ELSE /\ theme = Off /\ style = Off /\ data = Off /\ drawn = Off
            /\ view = Off /\ missed = Off /\ unfetched = Off
    /\ IF scene = "board" THEN Keys!Init
       ELSE fleet = Off /\ ui = Off /\ railSet = Off
    /\ IF scene = "order" THEN Order!Init
       ELSE /\ customers = Off /\ orders = Off /\ cache = Off /\ stale = Off
            /\ form = Off /\ dialogs = Off /\ edits = Off
    /\ IF scene = "places" THEN Places!Init
       ELSE /\ query = Off /\ timer = Off /\ results = Off /\ pin = Off
            /\ wire = Off /\ queue = Off /\ busy = Off /\ since = Off
            /\ places = Off /\ lookups = Off
    /\ IF scene = "terrain" THEN Relief!Init
       ELSE kept = Off /\ bytes = Off /\ fetching = Off
    /\ IF scene = "release" THEN Release!Init
       ELSE /\ latest = Off /\ apk = Off /\ staged = Off /\ packages = Off
            /\ scratch = Off /\ script = Off /\ panel = Off /\ phone = Off
            /\ installed = Off /\ presses = Off /\ deaths = Off
            /\ crossed = Off
    /\ IF scene = "login" THEN Login!Init
       ELSE /\ redis = Off /\ perAddress = Off /\ perAccount = Off /\ failed = Off
            /\ locked = Off /\ request = Off /\ page = Off /\ tries = Off
            /\ trouble = Off /\ passed = Off /\ open = Off /\ wrong = Off
            /\ overlapped = Off

ConsoleNext ==
    \/ scene = "map" /\ Next
          /\ UNCHANGED <<scene, routeVars, boardVars, orderVars, placesVars, terrainVars, releaseVars, loginVars>>
    \/ scene = "route" /\ Route!Next
          /\ UNCHANGED <<scene, vars, boardVars, orderVars, placesVars,
                         terrainVars, releaseVars, loginVars>>
    \/ scene = "board" /\ Keys!Next
          /\ UNCHANGED <<scene, vars, routeVars, orderVars, placesVars,
                         terrainVars, releaseVars, loginVars>>
    \/ scene = "order" /\ Order!Next
          /\ UNCHANGED <<scene, vars, routeVars, boardVars, placesVars,
                         terrainVars, releaseVars, loginVars>>
    \/ scene = "places" /\ Places!Next
          /\ UNCHANGED <<scene, vars, routeVars, boardVars, orderVars, terrainVars,
                         releaseVars, loginVars>>
    \/ scene = "terrain" /\ Relief!Next
          /\ UNCHANGED <<scene, vars, routeVars, boardVars, orderVars, placesVars,
                         releaseVars, loginVars>>
    \/ scene = "release" /\ Release!Next
          /\ UNCHANGED <<scene, vars, routeVars, boardVars, orderVars, placesVars,
                         terrainVars, loginVars>>
    \/ scene = "login" /\ Login!Next
          /\ UNCHANGED <<scene, vars, routeVars, boardVars, orderVars, placesVars,
                         terrainVars, releaseVars>>

ConsoleVars == <<scene, vars, routeVars, boardVars, orderVars, placesVars,
    terrainVars, releaseVars, loginVars>>
ConsoleSpec == ConsoleInit /\ [][ConsoleNext]_ConsoleVars

-----------------------------------------------------------------------------
\* Two families of names, each interchangeable, serve as the names of every part.
Symmetry == Permutations(Customers) \cup Permutations(Points)

\* Two tiles fit together, a third only alone, and the fourth never.
TileSize == [k \in Tiles |-> CASE k = "a" -> 1 [] k = "b" -> 2 [] k = "c" -> 3 [] OTHER -> 6]

\* Every desk dials in from an address of its own.
OwnAddress == [d \in Desks |-> d]

\* Version 2 is built twice, with different bytes.
OldBuild == [code |-> 1, bytes |-> "w"]
NewBuilds == {[code |-> 2, bytes |-> "x"], [code |-> 2, bytes |-> "y"]}

-----------------------------------------------------------------------------
ConsoleTypeOK ==
    CASE scene = "map" -> TypeOK
      [] scene = "route" -> Route!TypeOK
      [] scene = "board" -> Keys!TypeOK
      [] scene = "order" -> Order!TypeOK
      [] scene = "places" -> Places!TypeOK
      [] scene = "terrain" -> Relief!TypeOK
      [] scene = "release" -> Release!TypeOK
      [] scene = "login" -> Login!TypeOK

\* What a form holds together belongs together: an inherited point to its
\* consignee, a name to its pin.
PlacesFit ==
    /\ scene = "order" => Order!InheritedIsTheirs
    /\ scene = "places" => Places!NameFitsPin

\* The map is whole and its terrain earned, however theme, 3D, tier, data and
\* camera moves interleave; so is the map of one shipment.
MapIsWhole ==
    /\ scene = "route" => Route!ReadyRouteIsWhole /\ Route!ThemeIsShown
    /\ scene = "map" => /\ ReadyMapIsWhole
                        /\ NoTerrainUnderAnEase
                        /\ TerrainIsEarned
                        /\ OneTier

\* One key, one answer: Escape takes one layer off, an arrow moves by one row,
\* and Enter opens a row that is listed.
KeysMoveOneThing ==
    scene = "board" => Keys!EscapePeels /\ Keys!ArrowStepsOne /\ Keys!LitIsListed

\* What a service keeps is what it says it keeps: the published package is the
\* build of the manifest, and the terrain cache counts each tile it has once.
KeptIsExact ==
    /\ scene = "release" => Release!PromiseMatchesPackage
    /\ scene = "terrain" => Relief!BytesAreExact

\* No window judges more passwords than the limit, and every wrong one counts.
GuessesAreCounted ==
    scene = "login" => Login!WindowHolds /\ Login!EveryFailureCounts

\* What was chosen by hand, and a decision once taken, stays: a point set by hand,
\* the places of what the box holds now, the build the driver accepted, a lock,
\* the view of a journey.
ChoicesStay ==
    [][CASE scene = "order" -> Order!PickedStaysStep
         [] scene = "route" -> Route!ViewIsKeptStep
         [] scene = "places" -> Places!NoLateResultsStep
         [] scene = "release" -> Release!InstalledAsPromisedStep
         [] scene = "login" -> Login!LockHoldsStep
         [] OTHER -> TRUE]_ConsoleVars

=============================================================================
