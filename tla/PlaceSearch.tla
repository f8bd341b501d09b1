---------------------------- MODULE PlaceSearch ----------------------------
(***************************************************************************)
(* Finding a place by name and naming a place by hand: the search box and  *)
(* the pin of web/src/components/LocationPicker.tsx, and the proxy that    *)
(* asks Nominatim for both (api/src/geocode/geocode.controller.ts).        *)
(*                                                                         *)
(* A query of three letters or more is a model value, and its places are   *)
(* told by the query they answer; a shorter one is Short.  A pin is where  *)
(* it stands and the name it carries.  The radius, the map and its camera  *)
(* are left out.  An answer is shown the moment the proxy gives it.        *)
(***************************************************************************)
EXTENDS Naturals, Sequences, FiniteSets, SequencesExt

CONSTANTS
    Queries,       \* what can be typed
    Spots,         \* where a pin can be dropped
    Short,         \* a query too short to be asked
    Nothing,       \* no place, no pin, no name
    CacheLimit,    \* CACHE_LIMIT
    Gap,           \* MIN_INTERVAL_MS, in ticks
    MaxAsks,       \* bound: requests of the page the proxy has not answered
    MaxFailures    \* bound: lookups that fail

VARIABLES
    query,         \* what the box holds
    timer,         \* the 450 ms timer of the last keystroke runs
    results,       \* the query whose places are listed, or Nothing
    pin,           \* `value`: where, and its label
    wire,          \* requests on their way: the key, and whether it is still wanted
    queue,         \* requests behind the gate
    busy,          \* the request Nominatim is asked for, if any
    since,         \* ticks since the last one began, up to Gap
    cache,         \* key -> what was found, in the order of insertion
    failures       \* counts towards MaxFailures

vars == <<query, timer, results, pin, wire, queue, busy, since, cache, failures>>

Keys == Queries \cup Spots
Entry == [key : Keys, found : BOOLEAN]
Request == [key : Keys, live : BOOLEAN]
Asked == Len(wire) + Len(queue) + Len(busy)

TypeOK ==
    /\ query \in Queries \cup {Short}
    /\ timer \in BOOLEAN
    /\ results \in Queries \cup {Nothing}
    /\ pin \in [at : Spots \cup Queries \cup {Nothing}, label : Keys \cup {Nothing}]
    /\ {wire, queue, busy} \subseteq Seq(Request)
    /\ Len(busy) <= 1 /\ Asked <= MaxAsks
    /\ since \in 0 .. Gap
    /\ cache \in Seq(Entry) /\ Len(cache) <= CacheLimit
    /\ failures \in 0 .. MaxFailures

NoPin == [at |-> Nothing, label |-> Nothing]

Init ==
    /\ query = Short /\ timer = FALSE /\ results = Nothing /\ pin = NoPin
    /\ wire = <<>> /\ queue = <<>> /\ busy = <<>>
    /\ since = Gap /\ cache = <<>> /\ failures = 0

-----------------------------------------------------------------------------
\* The page.

Ask(key) ==
    /\ Asked < MaxAsks
    /\ wire' = Append(wire, [key |-> key, live |-> TRUE])

\* Mutant: the search under way is left to land.
KeepSearches == UNCHANGED <<wire, queue, busy>>

Unwanted(requests) ==
    [i \in DOMAIN requests |->
       IF requests[i].key \in Queries THEN [requests[i] EXCEPT !.live = FALSE] ELSE requests[i]]

\* The effect's clean-up: the search of the letters before is cancelled in the
\* page, wherever it is.
CancelSearches ==
    /\ wire' = Unwanted(wire) /\ queue' = Unwanted(queue) /\ busy' = Unwanted(busy)

Type(q) ==
    /\ query' = q /\ q # query
    /\ CancelSearches
    /\ timer' = (q # Short)
    /\ results' = IF q = Short THEN Nothing ELSE results
    /\ UNCHANGED <<pin, since, cache, failures>>

TimerFires ==
    /\ timer /\ timer' = FALSE
    /\ Ask(query)
    /\ UNCHANGED <<query, results, pin, queue, busy, since, cache, failures>>

\* choose(place): the box is emptied and the pin is the place, named.
Choose ==
    /\ results # Nothing
    /\ query' = Short /\ timer' = FALSE /\ results' = Nothing
    /\ CancelSearches
    /\ pin' = [at |-> results, label |-> results]
    /\ UNCHANGED <<since, cache, failures>>

\* A click or a drag: the pin stands at once, and its name is asked for.
Drop(s) ==
    /\ pin' = [at |-> s, label |-> Nothing]
    /\ Ask(s)
    /\ UNCHANGED <<query, timer, results, queue, busy, since, cache, failures>>

Unpin ==
    /\ pin # NoPin /\ pin' = NoPin
    /\ UNCHANGED <<query, timer, results, wire, queue, busy, since, cache, failures>>

\* Mutant: the name goes to the pin, wherever it stands by now.
NamedAnyway(key, found) ==
    IF found /\ pin # NoPin THEN [pin EXCEPT !.label = key] ELSE pin

\* Only if the pin has not moved again while it was asked.
Named(key, found) ==
    IF found /\ pin.at = key THEN [pin EXCEPT !.label = key] ELSE pin

\* The answer of request `a` in the page.
Land(a, found) ==
    /\ results' = IF a.key \in Queries /\ a.live
                  THEN IF found THEN a.key ELSE Nothing ELSE results
    /\ pin' = IF a.key \in Spots THEN Named(a.key, found) ELSE pin

-----------------------------------------------------------------------------
\* The proxy.

Cached(key) == { e \in Range(cache) : e.key = key }

\* Found in the cache, or put behind the gate.
Receive(i) ==
    /\ wire' = RemoveAt(wire, i)
    /\ IF Cached(wire[i].key) # {}
       THEN /\ \E e \in Cached(wire[i].key) : Land(wire[i], e.found)
            /\ UNCHANGED queue
       ELSE /\ queue' = Append(queue, wire[i])
            /\ UNCHANGED <<results, pin>>
    /\ UNCHANGED <<query, timer, busy, since, cache, failures>>

\* throttled(): one at a time, and the rest of MIN_INTERVAL_MS is slept first.
Begin ==
    /\ queue # <<>> /\ busy = <<>> /\ since = Gap
    /\ busy' = <<Head(queue)>> /\ queue' = Tail(queue)
    /\ since' = 0
    /\ UNCHANGED <<query, timer, results, pin, wire, cache, failures>>

Tick ==
    /\ since < Gap /\ since' = since + 1
    /\ UNCHANGED <<query, timer, results, pin, wire, queue, busy, cache, failures>>

\* remember(): a key keeps its place in the order, the oldest goes.
Remember(key, found) ==
    LET e   == [key |-> key, found |-> found]
        new == IF Cached(key) = {} THEN Append(cache, e)
               ELSE [i \in DOMAIN cache |-> IF cache[i].key = key THEN e ELSE cache[i]]
    IN  cache' = IF Len(new) > CacheLimit THEN Tail(new) ELSE new

\* Found, or not, or failed: fetchPlaces answers an empty list for the last two,
\* and both are remembered.
Finish(found) ==
    /\ busy # <<>>
    /\ found \/ failures < MaxFailures
    /\ failures' = IF found THEN failures ELSE failures + 1
    /\ Remember(busy[1].key, found)
    /\ Land(busy[1], found)
    /\ busy' = <<>>
    /\ UNCHANGED <<query, timer, wire, queue, since>>

-----------------------------------------------------------------------------
Next ==
    \/ \E q \in Queries \cup {Short} : Type(q)
    \/ TimerFires \/ Choose \/ Unpin
    \/ \E s \in Spots : Drop(s)
    \/ \E i \in DOMAIN wire : Receive(i)
    \/ Begin \/ Tick
    \/ \E found \in BOOLEAN : Finish(found)

Spec == Init /\ [][Next]_vars

-----------------------------------------------------------------------------
\* The list under the box changes only to the places of what the box holds now,
\* or to nothing: no answer queued behind the gate lands on later letters.
NoLateResultsStep ==
    results' # results => results' \in {Nothing, query'}
NoLateResults == [][NoLateResultsStep]_vars

\* A name stays with the place it was asked for, however the pin moved meanwhile.
NameFitsPin ==
    pin.label # Nothing => pin.label = pin.at

=============================================================================
