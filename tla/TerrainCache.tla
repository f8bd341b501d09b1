---------------------------- MODULE TerrainCache ----------------------------
(***************************************************************************)
(* The terrain proxy's memory (api/src/terrain/terrain.controller.ts): an  *)
(* insertion-ordered map used as an LRU, the bytes it is counted to hold,  *)
(* and the fetches under way, one per tile.  Coordinates are validated     *)
(* before any of it and are left out with the headers of the answer.       *)
(***************************************************************************)
EXTENDS Naturals, FiniteSets, Sequences, SequencesExt

CONSTANTS
    Tiles,         \* valid z/x/y keys
    Size,          \* tile -> its bytes
    Limit,         \* CACHE_LIMIT_BYTES
    MaxFetches     \* bound: fetches of one tile at once

VARIABLES
    kept,          \* `cache`, oldest first
    bytes,         \* cacheBytes
    fetching       \* `inflight`: tile -> fetches of it under way

vars == <<kept, bytes, fetching>>

TypeOK ==
    /\ kept \in Seq(Tiles)
    /\ bytes \in 0 .. Limit
    /\ fetching \in [Tiles -> 0 .. MaxFetches]

Init == kept = <<>> /\ bytes = 0 /\ fetching = [k \in Tiles |-> 0]

\* The weight of some tiles: their bytes, each told by its place in its tile.
Body(k) == {k} \X (1 .. Size[k])
Weight(s) == Cardinality(UNION {Body(k) : k \in ToSet(s)})

\* A hit goes to the young end.
Hit(i) ==
    /\ kept' = Append(RemoveAt(kept, i), kept[i])
    /\ UNCHANGED <<bytes, fetching>>

\* Mutant: every miss is a fetch of its own.
FetchEach(k) == fetching[k] < MaxFetches /\ fetching' = [fetching EXCEPT ![k] = @ + 1]

\* fetchOnce(): whoever comes second waits for the first.
FetchOnce(k) == fetching' = [fetching EXCEPT ![k] = 1]

Miss(k) ==
    /\ ~Contains(kept, k)
    /\ FetchOnce(k)
    /\ UNCHANGED <<kept, bytes>>

\* The n oldest go: as few as make the rest fit.
Evict(s, weight) ==
    LET Rest(n) == weight - Weight(SubSeq(s, 1, n))
        n == CHOOSE n \in 0 .. Len(s) : /\ Rest(n) <= Limit \/ n = Len(s)
                                        /\ \A m \in 0 .. n - 1 : Rest(m) > Limit
    IN  [kept |-> SubSeq(s, n + 1, Len(s)), bytes |-> Rest(n)]

\* Map.set keeps the place of a key that is there, and its size is added all
\* the same.
Remember(k) ==
    LET new == Evict(IF Contains(kept, k) THEN kept ELSE Append(kept, k), bytes + Size[k])
    IN  kept' = new.kept /\ bytes' = new.bytes

\* A tile larger than the whole budget is passed on and not kept.
Arrives(k) ==
    /\ fetching[k] > 0
    /\ IF Size[k] <= Limit THEN Remember(k) ELSE UNCHANGED <<kept, bytes>>
    /\ fetching' = [fetching EXCEPT ![k] = @ - 1]

\* An ocean tile, a failure or a timeout: nothing is kept, and the next request
\* asks again.
Missing(k) ==
    /\ fetching[k] > 0
    /\ fetching' = [fetching EXCEPT ![k] = @ - 1]
    /\ UNCHANGED <<kept, bytes>>

Next ==
    \/ \E i \in DOMAIN kept : Hit(i)
    \/ \E k \in Tiles : Miss(k) \/ Arrives(k) \/ Missing(k)

Spec == Init /\ [][Next]_vars

-----------------------------------------------------------------------------
\* cacheBytes is the weight of what is kept: no tile is counted twice, which
\* would shrink the cache for the life of the process, and none is kept twice.
BytesAreExact == bytes = Weight(kept) /\ IsInjective(kept)

=============================================================================
