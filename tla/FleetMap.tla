------------------------------ MODULE FleetMap ------------------------------
(***************************************************************************)
(* The map of the dashboard: web/src/components/FleetMap.tsx with          *)
(* lib/map3d.ts (sky, buildings, terrain, pitch) and lib/mapQuality.ts     *)
(* (the governor that measures frames and sheds or grants detail).         *)
(*                                                                         *)
(* React renders, commits and runs the effects whose dependencies changed, *)
(* in the order they are written, holding the `ready` of that render; a    *)
(* commit and the one its own setReady(false) causes are one step.         *)
(* MapLibre is external, as the code's comments describe it: setStyle      *)
(* fetches, the old style answers until the new one lands, and landing     *)
(* discards every source and layer the application added; terrain lives on *)
(* the map and survives; easeTo ends the animation before it, which fires  *)
(* moveend.  Zoom is `far` (terrain may come), `mid` (stays as it is) or   *)
(* `near` (terrain must go).  Headings, colours and padding are left out.  *)
(***************************************************************************)
EXTENDS Naturals, TLC

CONSTANTS
    Trucks,        \* sessions with a position to draw
    Themes,        \* light and dark
    Nil,          \* nothing: no style, no truck, no sky, no governor
    PromoteStreak, \* good windows in a row that earn a tier
    MaxFailures    \* bound: style fetches and models that fail

\* No theme is nothing, and a tier takes at least one good window.
ASSUME MapAssumption == Nil \notin Themes /\ PromoteStreak \in Nat \ {0}

VARIABLES
    state,         \* React: theme, dimensional, quality, fleet, selected
    map,           \* the MapLibre instance and the refs that describe it; of its camera:
                   \* zoom, how it moves, whether the move began with terrain, the moveend timer
    governor,      \* Nil, or tier, armed, streak
    qualityRef,    \* the tier the governor last decided
    stored,        \* localStorage: tier, dimensional
    failures

vars == <<state, map, governor, qualityRef, stored, failures>>

Flat == 0
Vehicles == 1
Buildings == 2
Terrain == 3
Tier == Flat .. Terrain

TypeOK ==
    /\ state \in [theme : Themes, dimensional : BOOLEAN, quality : Tier,
                  fleet : SUBSET Trucks, selected : Trucks \cup {Nil}]
    /\ map \in [ready : BOOLEAN, shown : Themes, applied : Themes, fetching : Themes \cup {Nil},
                layers : BOOLEAN, drawn : SUBSET Trucks, faded : BOOLEAN, model : BOOLEAN,
                sky : Themes \cup {Nil}, buildings : Themes \cup {Nil},
                terrain : BOOLEAN, fitted : BOOLEAN,
                zoom : {"far", "mid", "near"}, move : {"still", "hand", "ease", "frozen"},
                began : BOOLEAN, timer : BOOLEAN]
    /\ ~map.layers => map.drawn = {}
    /\ governor \in [tier : Tier, armed : BOOLEAN, streak : 0 .. PromoteStreak - 1] \cup {Nil}
    /\ qualityRef \in Tier
    /\ stored \in [tier : Tier, dimensional : BOOLEAN]
    /\ failures \in 0 .. MaxFailures

\* What a mount starts from: the first style is on its way, nothing is drawn,
\* and the camera is at home.
Mounted(theme) ==
    [ready |-> FALSE, shown |-> theme, applied |-> theme, fetching |-> theme, layers |-> FALSE,
     drawn |-> {}, faded |-> FALSE, model |-> FALSE, sky |-> Nil, buildings |-> Nil,
     terrain |-> FALSE, fitted |-> FALSE,
     zoom |-> "far", move |-> "still", began |-> FALSE, timer |-> FALSE]

Init ==
    /\ stored \in [tier : Tier, dimensional : BOOLEAN]
    /\ \E theme \in Themes :
          /\ state = [theme |-> theme, dimensional |-> stored.dimensional,
                      quality |-> stored.tier, fleet |-> {}, selected |-> Nil]
          /\ map = Mounted(theme)
    /\ governor = Nil /\ qualityRef = stored.tier
    /\ failures = 0

-----------------------------------------------------------------------------
\* What the effects do to the map m.

\* easeTo: the animation before it ends with a moveend, whose timer is queued.
Ease(m, zoom, how) ==
    [m EXCEPT !.zoom = zoom, !.move = how, !.began = how = "ease" /\ m.terrain,
              !.timer = @ \/ m.move # "still"]

\* installLayers, item by item: what is there stays.  New markers fade out where
\* the model is to take over.
InstallLayers(m) == [m EXCEPT !.faded = ~m.layers \/ @, !.layers = TRUE]

\* syncTerrain, with its two thresholds.
SyncTerrain(m, on) ==
    [m EXCEPT !.terrain = IF ~on \/ m.zoom = "near" THEN FALSE ELSE @ \/ m.zoom = "far"]

\* A new style only for a theme that is not the one applied.
ThemeEffect(m, s) ==
    IF m.applied = s.theme THEN m ELSE [m EXCEPT !.applied = s.theme, !.fetching = s.theme]

\* Markers, model, sky, buildings and terrain, each by the tier earned, then
\* the pitch: an animation of its own, with the elevation frozen.
DimensionEffect(m, s) ==
    LET solid == s.dimensional /\ s.quality >= Vehicles
        built == IF ~s.dimensional \/ s.quality < Buildings THEN Nil
                 ELSE IF m.buildings # Nil THEN m.buildings ELSE s.theme
        dressed == [m EXCEPT !.model = solid,
                             !.faded = IF m.layers THEN solid ELSE @,
                             !.sky = IF s.dimensional THEN s.theme ELSE @,
                             !.buildings = built]
    IN  Ease(SyncTerrain(dressed, s.dimensional /\ s.quality >= Terrain), m.zoom, "frozen")

\* Draw the fleet, putting back layers that are missing, and frame it the
\* first time there is one and nothing is selected.
DataEffect(m, s) ==
    LET drawn == [InstallLayers(m) EXCEPT !.drawn = s.fleet]
    IN  IF ~m.fitted /\ s.fleet # {} /\ s.selected = Nil
        THEN Ease([drawn EXCEPT !.fitted = TRUE], "far", "frozen") ELSE drawn

\* Centre on the vehicle just selected, if it has a position.
FollowEffect(m, s) ==
    IF s.selected \in s.fleet THEN Ease(m, m.zoom, "frozen") ELSE m

\* Mutant: the dimensional effect does not depend on `ready`.
DimensionDueOnToggle(s, became) ==
    s.theme # state.theme \/ s.dimensional # state.dimensional \/ s.quality # state.quality

DimensionDue(s, became) ==
    \/ became
    \/ s.theme # state.theme \/ s.dimensional # state.dimensional \/ s.quality # state.quality

\* A commit with the state s: `ready` is the one of this render.  The effects
\* run when a dependency changed, and do nothing before the map is ready.
Effects(m, s, ready) ==
    LET became == ready /\ ~map.ready
        a == IF s.theme # state.theme \/ became THEN ThemeEffect(m, s) ELSE m
        b == IF DimensionDue(s, became) THEN DimensionEffect(a, s) ELSE a
        d == DataEffect(b, s)
        e == IF s.selected # state.selected THEN FollowEffect(d, s) ELSE d
    IN  IF ready THEN [e EXCEPT !.ready = e.fetching = Nil] ELSE m

\* The governor lives while the map is ready, and starts from the ref.
NewGovernor(tier) == [tier |-> tier, armed |-> FALSE, streak |-> 0]
Governed(g, ready) ==
    IF ~ready THEN Nil ELSE IF g = Nil THEN NewGovernor(qualityRef') ELSE g

Commit(m, s, ready, g) ==
    LET e == Effects(m, s, ready)
    IN  /\ map' = e
        /\ state' = s
        /\ governor' = Governed(g, e.ready)

-----------------------------------------------------------------------------
\* Styles: the first one, and the one a theme asked for.

\* It lands: everything the application added is gone, then load or style.load
\* puts the layers back and the map is ready again.
StyleLoaded ==
    /\ UNCHANGED <<qualityRef, stored, failures>>
    /\ map.fetching # Nil
    /\ LET fresh == [map EXCEPT !.shown = map.fetching, !.fetching = Nil, !.layers = FALSE,
                                 !.drawn = {}, !.sky = Nil, !.buildings = Nil]
       IN  Commit(InstallLayers(fresh), state, TRUE, governor)

\* The fetch fails: no event the component listens to.
StyleFails ==
    /\ map.fetching # Nil /\ failures < MaxFailures
    /\ failures' = failures + 1
    /\ map' = [map EXCEPT !.fetching = Nil]
    /\ UNCHANGED <<state, governor, qualityRef, stored>>

\* The vehicle layer throws while drawing, and switches itself off.
ModelFails ==
    /\ map.ready /\ map.model /\ map.drawn # {} /\ failures < MaxFailures
    /\ failures' = failures + 1
    /\ map' = [map EXCEPT !.model = FALSE]
    /\ UNCHANGED <<state, governor, qualityRef, stored>>

-----------------------------------------------------------------------------
\* What a render brings.

Render(s) ==
    /\ s # state
    /\ UNCHANGED <<qualityRef, stored, failures>>
    /\ Commit(map, s, map.ready, governor)

SwitchTheme == \E theme \in Themes : Render([state EXCEPT !.theme = theme])
FleetChanges == \E fleet \in SUBSET Trucks : Render([state EXCEPT !.fleet = fleet])
Select == \E t \in Trucks \cup {Nil} : Render([state EXCEPT !.selected = t])
QualityRenders == Render([state EXCEPT !.quality = qualityRef])

\* Mutant: turning 3D back on leaves the governor where it was.
PressKeeping ==
    LET on   == ~state.dimensional
        next == [state EXCEPT !.dimensional = on, !.quality = IF on THEN Buildings ELSE @]
    IN  /\ qualityRef' = IF on THEN Buildings ELSE qualityRef
        /\ stored' = [dimensional |-> on, tier |-> qualityRef']
        /\ Commit(map, next, map.ready, governor)
        /\ UNCHANGED failures

\* The 3D button.  On again, the search starts over from the middle tier.
Press ==
    LET on   == ~state.dimensional
        tier == IF on THEN Buildings ELSE qualityRef
        next == [state EXCEPT !.dimensional = on, !.quality = IF on THEN Buildings ELSE @]
        kept == IF on /\ governor # Nil THEN [NewGovernor(tier) EXCEPT !.armed = TRUE] ELSE governor
    IN  /\ qualityRef' = tier
        /\ stored' = [dimensional |-> on, tier |-> IF on THEN tier ELSE stored.tier]
        /\ Commit(map, next, map.ready, kept)
        /\ UNCHANGED failures

\* The dashboard is left and come back to: a new map from what was remembered.
Remount ==
    /\ state' = [state EXCEPT !.dimensional = stored.dimensional, !.quality = stored.tier]
    /\ map' = Mounted(state.theme)
    /\ governor' = Nil /\ qualityRef' = stored.tier
    /\ UNCHANGED <<stored, failures>>

-----------------------------------------------------------------------------
\* The camera in the dispatcher's hands: drags and wheel, the zoom buttons and
\* the glide after a drag (animations without the flag), the north button, fit.

Loaded == map.layers
Move(m) == map' = m /\ UNCHANGED <<state, governor, qualityRef, stored, failures>>

Near(zoom) == {zoom, "mid"} \cup (IF zoom = "mid" THEN {"far", "near"} ELSE {})

Grab ==
    /\ Loaded /\ map.move # "hand"
    /\ Move([map EXCEPT !.move = "hand", !.began = FALSE, !.timer = @ \/ map.move # "still"])

LetGo ==
    /\ map.move = "hand"
    /\ \E zoom \in Near(map.zoom) :
          \/ Move([map EXCEPT !.zoom = zoom, !.move = "still", !.timer = TRUE])
          \/ Move(Ease([map EXCEPT !.zoom = zoom], zoom, "ease"))

ZoomButton == Loaded /\ \E zoom \in Near(map.zoom) : Move(Ease(map, zoom, "ease"))
NorthButton == Loaded /\ state.dimensional /\ Move(Ease(map, map.zoom, "frozen"))
FitAll == Loaded /\ map.drawn # {} /\ Move(Ease(map, "far", "frozen"))

EaseEnds ==
    /\ map.move \in {"ease", "frozen"}
    /\ Move([map EXCEPT !.move = "still", !.began = FALSE, !.timer = TRUE])

\* Mutant: moveend is taken to mean that the camera has stopped.
SyncAnyway ==
    /\ map.timer
    /\ Move([SyncTerrain(map, state.dimensional /\ qualityRef >= Terrain) EXCEPT !.timer = FALSE])

\* Mutant: the 3D switch alone decides, as if the governor had shed nothing.
SyncUnearned ==
    /\ map.timer
    /\ Move([(IF map.move = "still" THEN SyncTerrain(map, state.dimensional) ELSE map)
             EXCEPT !.timer = FALSE])

\* The deferred half of moveend.
SyncLater ==
    /\ map.timer
    /\ Move([(IF map.move = "still"
              THEN SyncTerrain(map, state.dimensional /\ qualityRef >= Terrain) ELSE map)
             EXCEPT !.timer = FALSE])

-----------------------------------------------------------------------------
\* The governor: armed by idle, the clock or a reset; a window of moving frames
\* is slow, fair or fast.

Arm ==
    /\ governor # Nil /\ ~governor.armed
    /\ governor' = [governor EXCEPT !.armed = TRUE]
    /\ UNCHANGED <<state, map, qualityRef, stored, failures>>

Apply(tier) ==
    /\ governor' = [governor EXCEPT !.tier = tier, !.streak = 0]
    /\ qualityRef' = tier
    /\ stored' = [stored EXCEPT !.tier = tier]

\* Mutant: the streak is compared before the window is counted.
EarnedAfter(g) == g.streak = PromoteStreak

Earned(g) == g.streak + 1 = PromoteStreak

Judge ==
    /\ governor # Nil /\ governor.armed /\ map.move # "still"
    /\ \/ governor.tier > Flat /\ Apply(governor.tier - 1)
       \/ /\ governor.tier < Terrain
          /\ IF Earned(governor) THEN Apply(governor.tier + 1)
             ELSE /\ governor' = [governor EXCEPT !.streak = @ + 1]
                  /\ UNCHANGED <<qualityRef, stored>>
       \/ /\ governor' = [governor EXCEPT !.streak = 0]
          /\ UNCHANGED <<qualityRef, stored>>
    /\ UNCHANGED <<state, map, failures>>

Camera == Grab \/ LetGo \/ ZoomButton \/ NorthButton \/ FitAll \/ EaseEnds \/ SyncLater
OfAPage == SwitchTheme \/ FleetChanges \/ Select \/ QualityRenders \/ Press \/ Remount

Next == StyleLoaded \/ StyleFails \/ ModelFails \/ OfAPage \/ Camera \/ Arm \/ Judge

Spec == Init /\ [][Next]_vars

-----------------------------------------------------------------------------
\* A map that is ready shows the whole fleet, in the style, the sky and the
\* buildings of the theme: no theme switch, at any moment, leaves the vehicles
\* off the map.
ReadyMapIsWhole ==
    map.ready =>
        /\ map.layers /\ map.drawn = state.fleet
        /\ map.shown = state.theme
        /\ state.dimensional => map.sky = state.theme
        /\ map.buildings = IF state.dimensional /\ state.quality >= Buildings THEN state.theme ELSE Nil

\* "A fleet map with flat markers is a working fleet map" (truck3d.ts, of the
\* layer that switches itself off): a marker that fades out close to the ground
\* has a model that takes over.
MarkersAreSeen == map.ready /\ map.faded => map.model

\* Terrain never comes up underneath an animation that began without it and did
\* not freeze the elevation: that is the throw that stops the canvas for good.
NoTerrainUnderAnEase == map.move = "ease" /\ map.terrain => map.began

\* A camera at rest has the terrain the machine has earned, and none where the
\* eye would be inside the hill.
TerrainIsEarned ==
    map.ready /\ map.move = "still" /\ ~map.timer /\ state.quality = qualityRef =>
        LET earned == state.dimensional /\ qualityRef >= Terrain IN
        /\ map.terrain => earned /\ map.zoom # "near"
        /\ earned /\ map.zoom = "far" => map.terrain

\* What the governor judges by, what the map is told and what the next visit
\* starts from are one tier.
OneTier ==
    /\ stored.tier = qualityRef
    /\ governor # Nil => governor.tier = qualityRef

=============================================================================
