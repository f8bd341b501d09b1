---------------------------- MODULE Console_Proofs ----------------------------
(***************************************************************************)
(* Theorems about the rest of the dispatcher's browser and the services    *)
(* behind it (MCConsole): every part has an inductive invariant of its     *)
(* own, and a behaviour, being of one part, keeps the one of its part.     *)
(***************************************************************************)
EXTENDS MCConsole, FiniteSetTheorems, SequenceTheorems, WellFoundedInduction, TLAPS

-----------------------------------------------------------------------------
(* The fleet map.                                                          *)

MapType ==
    [ready : BOOLEAN, shown : Themes, applied : Themes, fetching : Themes \cup {Nil},
     layers : BOOLEAN, drawn : SUBSET Trucks, faded : BOOLEAN, model : BOOLEAN,
     sky : Themes \cup {Nil}, buildings : Themes \cup {Nil},
     terrain : BOOLEAN, fitted : BOOLEAN,
     zoom : {"far", "mid", "near"}, move : {"still", "hand", "ease", "frozen"},
     began : BOOLEAN, timer : BOOLEAN]

StateType ==
    [theme : Themes, dimensional : BOOLEAN, quality : Tier, fleet : SUBSET Trucks,
     selected : Trucks \cup {Nil}]

\* The style of a map, and what is drawn on it in that style.
SameStyle(m, r) ==
    /\ r.ready = m.ready /\ r.shown = m.shown /\ r.applied = m.applied
    /\ r.fetching = m.fetching

SameLayers(m, r) ==
    /\ r.layers = m.layers /\ r.drawn = m.drawn /\ r.sky = m.sky /\ r.buildings = m.buildings

SameCamera(m, r) ==
    /\ r.terrain = m.terrain /\ r.zoom = m.zoom /\ r.move = m.move /\ r.began = m.began
    /\ r.timer = m.timer

LEMMA EaseDoes ==
    ASSUME NEW m \in MapType, NEW zoom \in {"far", "mid", "near"}, NEW how \in {"ease", "frozen"},
           NEW r, r = Ease(m, zoom, how)
    PROVE  /\ r \in MapType /\ SameStyle(m, r) /\ SameLayers(m, r)
           /\ r.terrain = m.terrain /\ r.zoom = zoom /\ r.move = how
           /\ how = "ease" /\ r.terrain => r.began
           /\ r.fitted = m.fitted
<1>1. (how = "ease" /\ m.terrain) \in BOOLEAN /\ (m.timer \/ m.move # "still") \in BOOLEAN
  BY Zenon
<1>2. r = [m EXCEPT !.zoom = zoom, !.move = how, !.began = how = "ease" /\ m.terrain,
                    !.timer = m.timer \/ m.move # "still"]
  BY DEF Ease
<1>. QED
  BY <1>1, <1>2, ZenonT(60) DEF MapType, SameStyle, SameLayers

LEMMA InstallDoes ==
    ASSUME NEW m \in MapType, NEW r, r = InstallLayers(m)
    PROVE  /\ r \in MapType /\ SameStyle(m, r) /\ SameCamera(m, r)
           /\ r.layers /\ r.drawn = m.drawn /\ r.sky = m.sky /\ r.buildings = m.buildings
<1>1. (~m.layers \/ m.faded) \in BOOLEAN
  BY Zenon
<1>2. r = [m EXCEPT !.faded = ~m.layers \/ m.faded, !.layers = TRUE]
  BY DEF InstallLayers
<1>. QED
  BY <1>1, <1>2, ZenonT(60) DEF MapType, SameStyle, SameCamera

LEMMA SyncDoes ==
    ASSUME NEW m \in MapType, NEW on \in BOOLEAN, NEW r, r = SyncTerrain(m, on)
    PROVE  /\ r \in MapType /\ SameStyle(m, r) /\ SameLayers(m, r)
           /\ r.zoom = m.zoom /\ r.move = m.move /\ r.began = m.began /\ r.timer = m.timer
           /\ r.terrain => on /\ r.zoom # "near"
           /\ on /\ r.zoom = "far" => r.terrain
<1>. DEFINE t == IF ~on \/ m.zoom = "near" THEN FALSE ELSE m.terrain \/ m.zoom = "far"
<1>1. t \in BOOLEAN
  BY Zenon
<1>2. t => on /\ m.zoom # "near"
  OBVIOUS
<1>3. on /\ m.zoom = "far" => t
  OBVIOUS
<1>4. r = [m EXCEPT !.terrain = t]
  BY DEF SyncTerrain
<1>. HIDE DEF t
<1>5. /\ r \in MapType /\ r.zoom = m.zoom /\ r.terrain = t
      /\ SameStyle(m, r) /\ SameLayers(m, r)
      /\ r.move = m.move /\ r.began = m.began /\ r.timer = m.timer
  BY <1>1, <1>4 DEF MapType, SameStyle, SameLayers
<1>. QED
  BY <1>2, <1>3, <1>5

LEMMA ThemeDoes ==
    ASSUME NEW m \in MapType, NEW s \in StateType, NEW r, r = ThemeEffect(m, s)
    PROVE  /\ r \in MapType /\ r.ready = m.ready /\ r.shown = m.shown
           /\ SameLayers(m, r) /\ SameCamera(m, r)
           /\ r.applied = s.theme
           /\ r.fetching = IF m.applied = s.theme THEN m.fetching ELSE s.theme
<1>1. s.theme \in Themes
  BY DEF StateType
<1>2. CASE m.applied = s.theme
  BY <1>2 DEF ThemeEffect, SameLayers, SameCamera
<1>3. CASE m.applied # s.theme
  <2>1. r = [m EXCEPT !.applied = s.theme, !.fetching = s.theme]
    BY <1>3 DEF ThemeEffect
  <2>. QED
    BY <1>1, <1>3, <2>1 DEF MapType, SameLayers, SameCamera
<1>. QED
  BY <1>2, <1>3

\* What stands on the map for a state, the theme being the one of the map.
BuildingsOf(m, s) ==
    IF ~s.dimensional \/ s.quality < Buildings THEN Nil
    ELSE IF m.buildings # Nil THEN m.buildings ELSE s.theme

LEMMA DimensionDoes ==
    ASSUME NEW m \in MapType, NEW s \in StateType, NEW r, r = DimensionEffect(m, s)
    PROVE  /\ r \in MapType /\ SameStyle(m, r)
           /\ r.layers = m.layers /\ r.drawn = m.drawn
           /\ r.sky = (IF s.dimensional THEN s.theme ELSE m.sky)
           /\ r.buildings = BuildingsOf(m, s)
           /\ r.move = "frozen"
<1>. DEFINE solid == s.dimensional /\ s.quality >= Vehicles
            faded == IF m.layers THEN solid ELSE m.faded
            sky == IF s.dimensional THEN s.theme ELSE m.sky
            built == BuildingsOf(m, s)
            on == s.dimensional /\ s.quality >= Terrain
<1>1. PICK d : d = [m EXCEPT !.model = solid, !.faded = faded, !.sky = sky, !.buildings = built]
  OBVIOUS
<1>2. solid \in BOOLEAN /\ on \in BOOLEAN
  BY Zenon
<1>3. faded \in BOOLEAN /\ sky \in Themes \cup {Nil} /\ built \in Themes \cup {Nil}
  <2>. HIDE DEF solid
  <2>1. m.faded \in BOOLEAN /\ m.sky \in Themes \cup {Nil} /\ m.buildings \in Themes \cup {Nil}
        /\ s.theme \in Themes
    BY DEF MapType, StateType
  <2>2. faded \in BOOLEAN
    BY <1>2, <2>1, Zenon
  <2>. QED
    BY <2>1, <2>2 DEF BuildingsOf
<1>4. PICK e : e = SyncTerrain(d, on)
  OBVIOUS
<1>5. r = Ease(e, m.zoom, "frozen")
  BY <1>1, <1>4 DEF DimensionEffect, BuildingsOf
<1>. HIDE DEF solid, faded, sky, built, on
<1>6. /\ d \in MapType /\ SameStyle(m, d) /\ d.layers = m.layers /\ d.drawn = m.drawn
      /\ d.sky = sky /\ d.buildings = built /\ d.zoom = m.zoom
  BY <1>1, <1>2, <1>3, ZenonT(60) DEF MapType, SameStyle
<1>7. e \in MapType /\ SameStyle(d, e) /\ SameLayers(d, e) /\ e.zoom = m.zoom
  BY <1>2, <1>4, <1>6, SyncDoes
<1>8. e.zoom \in {"far", "mid", "near"}
  BY <1>7 DEF MapType
<1>9. r \in MapType /\ SameStyle(e, r) /\ SameLayers(e, r) /\ r.move = "frozen"
  BY <1>5, <1>7, <1>8, EaseDoes
<1>. QED
  BY <1>6, <1>7, <1>9 DEF SameStyle, SameLayers, sky, built

LEMMA DataDoes ==
    ASSUME NEW m \in MapType, NEW s \in StateType, NEW r, r = DataEffect(m, s)
    PROVE  /\ r \in MapType /\ SameStyle(m, r)
           /\ r.layers /\ r.drawn = s.fleet /\ r.sky = m.sky /\ r.buildings = m.buildings
           /\ r.move = "frozen" \/ SameCamera(m, r)
<1>1. PICK i : i = InstallLayers(m)
  OBVIOUS
<1>2. /\ i \in MapType /\ SameStyle(m, i) /\ SameCamera(m, i)
      /\ i.layers /\ i.sky = m.sky /\ i.buildings = m.buildings
  BY <1>1, InstallDoes
<1>3. PICK d : d = [i EXCEPT !.drawn = s.fleet]
  OBVIOUS
<1>4. /\ d \in MapType /\ SameStyle(m, d) /\ SameCamera(m, d)
      /\ d.layers /\ d.drawn = s.fleet /\ d.sky = m.sky /\ d.buildings = m.buildings
  BY <1>2, <1>3 DEF MapType, StateType, SameStyle, SameCamera
<1>5. CASE ~m.fitted /\ s.fleet # {} /\ s.selected = Nil
  <2>1. PICK f : f = [d EXCEPT !.fitted = TRUE]
    OBVIOUS
  <2>2. f \in MapType /\ SameStyle(d, f) /\ SameLayers(d, f)
    BY <1>4, <2>1 DEF MapType, SameStyle, SameLayers
  <2>3. r = Ease(f, "far", "frozen")
    BY <1>1, <1>3, <1>5, <2>1 DEF DataEffect
  <2>4. r \in MapType /\ SameStyle(f, r) /\ SameLayers(f, r) /\ r.move = "frozen"
    BY <2>2, <2>3, EaseDoes
  <2>. QED
    BY <1>4, <2>2, <2>4 DEF SameStyle, SameLayers
<1>6. CASE ~(~m.fitted /\ s.fleet # {} /\ s.selected = Nil)
  <2>1. r = d
    BY <1>1, <1>3, <1>6 DEF DataEffect
  <2>. QED
    BY <1>4, <2>1
<1>. QED
  BY <1>5, <1>6

LEMMA FollowDoes ==
    ASSUME NEW m \in MapType, NEW s \in StateType, NEW r, r = FollowEffect(m, s)
    PROVE  /\ r \in MapType /\ SameStyle(m, r) /\ SameLayers(m, r)
           /\ r.move = "frozen" \/ SameCamera(m, r)
<1>1. CASE s.selected \in s.fleet
  <2>1. r = Ease(m, m.zoom, "frozen") /\ m.zoom \in {"far", "mid", "near"}
    BY <1>1 DEF FollowEffect, MapType
  <2>. QED
    BY <2>1, EaseDoes
<1>2. CASE s.selected \notin s.fleet
  BY <1>2 DEF FollowEffect, SameStyle, SameLayers, SameCamera
<1>. QED
  BY <1>1, <1>2

\* A commit of s makes r of the map m, effect by effect.
Due(s) == DimensionDue(s, ~map.ready)
Themed(s) == s.theme # state.theme \/ ~map.ready

Committed(m, s, r) ==
    /\ r \in MapType /\ (r.ready <=> r.fetching = Nil)
    /\ r.shown = m.shown
    /\ r.applied = (IF Themed(s) THEN s.theme ELSE m.applied)
    /\ r.fetching = (IF Themed(s) /\ m.applied # s.theme THEN s.theme ELSE m.fetching)
    /\ r.layers /\ r.drawn = s.fleet
    /\ r.sky = (IF Due(s) /\ s.dimensional THEN s.theme ELSE m.sky)
    /\ r.buildings = (IF Due(s) THEN BuildingsOf(m, s) ELSE m.buildings)
    /\ r.move = "frozen" \/ (~Due(s) /\ SameCamera(m, r))

LEMMA EffectsDo ==
    ASSUME NEW m \in MapType, map \in MapType, NEW s \in StateType, NEW r,
           r = Effects(m, s, TRUE)
    PROVE  Committed(m, s, r)
<1>. DEFINE due == Due(s)
            themed == Themed(s)
<1>1. PICK a : a = IF themed THEN ThemeEffect(m, s) ELSE m
  OBVIOUS
<1>2. PICK b : b = IF due THEN DimensionEffect(a, s) ELSE a
  OBVIOUS
<1>3. PICK d : d = DataEffect(b, s)
  OBVIOUS
<1>4. PICK e : e = IF s.selected # state.selected THEN FollowEffect(d, s) ELSE d
  OBVIOUS
<1>5. r = [e EXCEPT !.ready = e.fetching = Nil]
  <2>1. (TRUE /\ ~map.ready) = ~map.ready
    BY DEF MapType
  <2>. QED
    BY <1>1, <1>2, <1>3, <1>4, <2>1 DEF Effects, Due, Themed
<1>6. /\ a \in MapType /\ a.shown = m.shown /\ SameLayers(m, a) /\ SameCamera(m, a)
      /\ a.applied = (IF themed THEN s.theme ELSE m.applied)
      /\ a.fetching = (IF themed /\ m.applied # s.theme THEN s.theme ELSE m.fetching)
  <2>. HIDE DEF themed
  <2>1. CASE themed
    BY <1>1, <2>1, ThemeDoes
  <2>2. CASE ~themed
    BY <1>1, <2>2 DEF SameLayers, SameCamera
  <2>. QED
    BY <2>1, <2>2
<1>. HIDE DEF themed, due
<1>7. /\ b \in MapType /\ SameStyle(a, b) /\ b.layers = a.layers /\ b.drawn = a.drawn
      /\ b.sky = (IF due /\ s.dimensional THEN s.theme ELSE a.sky)
      /\ b.buildings = (IF due THEN BuildingsOf(a, s) ELSE a.buildings)
      /\ b.move = "frozen" \/ (~due /\ SameCamera(a, b))
  <2>1. CASE due
    BY <1>2, <1>6, <2>1, DimensionDoes
  <2>2. CASE ~due
    BY <1>2, <1>6, <2>2 DEF SameStyle, SameCamera
  <2>. QED
    BY <2>1, <2>2
<1>8. /\ d \in MapType /\ SameStyle(b, d)
      /\ d.layers /\ d.drawn = s.fleet /\ d.sky = b.sky /\ d.buildings = b.buildings
      /\ d.move = "frozen" \/ SameCamera(b, d)
  BY <1>3, <1>7, DataDoes
<1>9. /\ e \in MapType /\ SameStyle(d, e) /\ SameLayers(d, e)
      /\ e.move = "frozen" \/ SameCamera(d, e)
  <2>1. CASE s.selected # state.selected
    BY <1>4, <1>8, <2>1, FollowDoes
  <2>2. CASE s.selected = state.selected
    BY <1>4, <1>8, <2>2 DEF SameStyle, SameLayers, SameCamera
  <2>. QED
    BY <2>1, <2>2
<1>10. /\ r \in MapType /\ (r.ready <=> e.fetching = Nil) /\ r.shown = e.shown
       /\ r.applied = e.applied /\ r.fetching = e.fetching
       /\ SameLayers(e, r) /\ SameCamera(e, r)
  <2>1. (e.fetching = Nil) \in BOOLEAN
    OBVIOUS
  <2>. QED
    BY <1>5, <1>9, <2>1 DEF MapType, SameLayers, SameCamera
<1>11. BuildingsOf(a, s) = BuildingsOf(m, s)
  BY <1>6 DEF BuildingsOf, SameLayers
<1>12. /\ r.shown = m.shown /\ r.applied = a.applied /\ r.fetching = a.fetching
       /\ r.ready <=> r.fetching = Nil
  BY <1>6, <1>7, <1>8, <1>9, <1>10 DEF SameStyle
<1>13. /\ r.layers /\ r.drawn = s.fleet
       /\ r.sky = (IF due /\ s.dimensional THEN s.theme ELSE m.sky)
       /\ r.buildings = (IF due THEN BuildingsOf(m, s) ELSE m.buildings)
  BY <1>6, <1>7, <1>8, <1>9, <1>10, <1>11 DEF SameLayers
<1>14. r.move = "frozen" \/ (~due /\ SameCamera(m, r))
  BY <1>6, <1>7, <1>8, <1>9, <1>10, ZenonT(60) DEF SameCamera
<1>. QED
  BY <1>6, <1>10, <1>12, <1>13, <1>14 DEF due, themed, Committed

-----------------------------------------------------------------------------
\* The invariant.

GovernorType == [tier : Tier, armed : BOOLEAN, streak : 0 .. PromoteStreak - 1]

\* Ready, it is the map of its state.
Whole(m, s) ==
    m.ready =>
        /\ m.layers /\ m.drawn = s.fleet /\ m.shown = s.theme
        /\ s.dimensional => m.sky = s.theme
        /\ m.buildings = IF s.dimensional /\ s.quality >= Buildings THEN s.theme ELSE Nil

\* A style on its way is the one applied, and the map is not ready before it lands.
OnItsWay(m, s) ==
    /\ m.fetching # Nil => m.fetching = m.applied /\ ~m.ready
    /\ m.ready => m.applied = s.theme

NoThrow(m) == m.move = "ease" /\ m.terrain => m.began

TerrainFits(m, s, tier) ==
    m.ready /\ m.move = "still" /\ ~m.timer /\ s.quality = tier =>
        LET earned == s.dimensional /\ tier >= Terrain IN
        /\ m.terrain => earned /\ m.zoom # "near"
        /\ earned /\ m.zoom = "far" => m.terrain

\* The map beside its state: all but the governor.
MapOK(m, s, tier) ==
    /\ m \in MapType /\ s \in StateType
    /\ ~m.layers => m.drawn = {}
    /\ Whole(m, s) /\ OnItsWay(m, s) /\ NoThrow(m) /\ TerrainFits(m, s, tier)

\* The governor beside what it decided.
GovernorOK(g, tier) == g \in GovernorType \cup {Nil} /\ (g # Nil => g.tier = tier)

MapInv ==
    /\ MapOK(map, state, qualityRef)
    /\ GovernorOK(governor, qualityRef)
    /\ qualityRef \in Tier
    /\ stored \in [tier : Tier, dimensional : BOOLEAN] /\ stored.tier = qualityRef
    /\ failures \in 0 .. MaxFailures

LEMMA MapInvIsEnough ==
    MapInv => TypeOK /\ ReadyMapIsWhole /\ NoTerrainUnderAnEase /\ TerrainIsEarned /\ OneTier
<1>. SUFFICES ASSUME MapInv
              PROVE  TypeOK /\ ReadyMapIsWhole /\ NoTerrainUnderAnEase /\ TerrainIsEarned /\ OneTier
  OBVIOUS
<1>1. TypeOK
  BY DEF MapInv, MapOK, GovernorOK, GovernorType, MapType, StateType, TypeOK
<1>2. ReadyMapIsWhole
  BY DEF MapInv, MapOK, Whole, ReadyMapIsWhole
<1>3. NoTerrainUnderAnEase /\ TerrainIsEarned
  BY DEF MapInv, MapOK, NoThrow, TerrainFits, NoTerrainUnderAnEase, TerrainIsEarned
<1>4. OneTier
  BY DEF MapInv, GovernorOK, OneTier
<1>. QED
  BY <1>1, <1>2, <1>3, <1>4

LEMMA MountIsOK ==
    ASSUME NEW th \in Themes, NEW s \in StateType, s.theme = th, NEW tier
    PROVE  MapOK(Mounted(th), s, tier)
<1>1. PICK m : m = Mounted(th)
  OBVIOUS
<1>2. /\ m \in MapType /\ ~m.ready /\ m.drawn = {} /\ m.fetching = m.applied
      /\ m.move = "still"
  BY <1>1 DEF Mounted, MapType
<1>. QED
  BY <1>1, <1>2 DEF MapOK, Whole, OnItsWay, NoThrow, TerrainFits

LEMMA TiersAreTiers ==
    /\ \A t \in Tier : t \in Nat
    /\ Buildings \in Tier /\ Flat \in Tier
    /\ \A t \in Tier : (t > Flat => t - 1 \in Tier) /\ (t < Terrain => t + 1 \in Tier)
BY DEF Tier, Flat, Terrain, Buildings

LEMMA MapInitHolds ==
    ASSUME MaxFailures \in Nat, Init
    PROVE  MapInv
<1>1. stored \in [tier : Tier, dimensional : BOOLEAN] /\ qualityRef = stored.tier
      /\ governor = Nil /\ failures = 0
  BY DEF Init
<1>2. PICK th \in Themes :
          /\ state = [theme |-> th, dimensional |-> stored.dimensional,
                      quality |-> stored.tier, fleet |-> {}, selected |-> Nil]
          /\ map = Mounted(th)
  BY DEF Init
<1>3. state \in StateType /\ state.theme = th /\ qualityRef \in Tier
  BY <1>1, <1>2 DEF StateType
<1>4. MapOK(map, state, qualityRef)
  BY <1>2, <1>3, MountIsOK
<1>. QED
  BY <1>1, <1>3, <1>4 DEF MapInv, GovernorOK

-----------------------------------------------------------------------------
\* The steps that commit.

\* A render while the map waits changes nothing on it.
LEMMA WaitingKeeps ==
    ASSUME NEW m, NEW s \in StateType, NEW t \in StateType, NEW tier, NEW before,
           MapOK(m, t, before), ~m.ready
    PROVE  MapOK(m, s, tier)
BY DEF MapOK, Whole, OnItsWay, NoThrow, TerrainFits

\* On a map that stands in the theme of the state.
LEMMA BuiltForTheTheme ==
    ASSUME NEW m, NEW s \in StateType, m.buildings \in {Nil, s.theme}
    PROVE  BuildingsOf(m, s)
             = IF s.dimensional /\ s.quality >= Buildings THEN s.theme ELSE Nil
<1>1. s.quality \in Nat /\ Nil # s.theme
  BY MapAssumption, TiersAreTiers DEF StateType
<1>. QED
  BY <1>1 DEF BuildingsOf, Buildings

\* A render of a map that is ready.
LEMMA RenderKeeps ==
    ASSUME MapOK(map, state, qualityRef), map.ready, NEW s \in StateType, NEW tier,
           s.dimensional = state.dimensional => tier = qualityRef,
           NEW r, r = Effects(map, s, TRUE)
    PROVE  MapOK(r, s, tier)
<1>1. map \in MapType /\ state \in StateType
  BY DEF MapOK
<1>2. Committed(map, s, r)
  BY <1>1, EffectsDo
<1>3. /\ Themed(s) <=> s.theme # state.theme
      /\ Due(s) <=> \/ s.theme # state.theme \/ s.dimensional # state.dimensional
                 \/ s.quality # state.quality
  BY DEF DimensionDue, Due, Themed
<1>4. /\ map.applied = state.theme /\ map.fetching = Nil /\ map.shown = state.theme
      /\ state.dimensional => map.sky = state.theme
      /\ map.buildings = IF state.dimensional /\ state.quality >= Buildings
                         THEN state.theme ELSE Nil
  BY DEF MapOK, Whole, OnItsWay
<1>5. s.theme \in Themes /\ Nil \notin Themes /\ s.dimensional \in BOOLEAN
      /\ state.dimensional \in BOOLEAN /\ s.quality \in Nat /\ state.quality \in Nat
  BY <1>1, MapAssumption, TiersAreTiers DEF StateType
<1>6. OnItsWay(r, s)
  BY <1>2, <1>3, <1>4, <1>5 DEF Committed, OnItsWay
<1>7. Whole(r, s)
  <2>. SUFFICES ASSUME r.ready PROVE Whole(r, s)
    BY DEF Whole
  <2>1. s.theme = state.theme
    BY <1>2, <1>3, <1>4, <1>5 DEF Committed
  <2>2. CASE Due(s)
    <3>1. map.buildings \in {Nil, s.theme} /\ r.buildings = BuildingsOf(map, s)
      BY <1>2, <1>4, <2>1, <2>2 DEF Committed
    <3>. QED
      BY <1>2, <1>4, <2>1, <2>2, <3>1, BuiltForTheTheme DEF Committed, Whole
  <2>3. CASE ~Due(s)
    BY <1>2, <1>3, <1>4, <1>5, <2>1, <2>3 DEF Committed, Whole
  <2>. QED
    BY <2>2, <2>3
<1>8. NoThrow(r)
  BY <1>2 DEF Committed, NoThrow, MapOK, SameCamera
<1>9. TerrainFits(r, s, tier)
  <2>1. CASE r.move = "frozen"
    BY <2>1 DEF TerrainFits
  <2>2. CASE ~Due(s) /\ SameCamera(map, r)
    <3>1. s.dimensional = state.dimensional /\ s.quality = state.quality /\ tier = qualityRef
      BY <1>3, <2>2
    <3>. QED
      BY <2>2, <3>1 DEF TerrainFits, MapOK, SameCamera
  <2>. QED
    BY <1>2, <2>1, <2>2 DEF Committed
<1>. QED
  BY <1>2, <1>6, <1>7, <1>8, <1>9 DEF Committed, MapOK

\* A style lands.
LEMMA LandingKeeps ==
    ASSUME MapOK(map, state, qualityRef), ~map.ready, NEW m \in MapType,
           m.fetching = Nil, m.shown = m.applied, m.buildings = Nil,
           NEW r, r = Effects(m, state, TRUE)
    PROVE  MapOK(r, state, qualityRef)
<1>1. map \in MapType /\ state \in StateType
  BY DEF MapOK
<1>2. Committed(m, state, r)
  BY <1>1, EffectsDo
<1>3. Themed(state) /\ Due(state)
  BY DEF DimensionDue, Due, Themed
<1>4. state.theme \in Themes /\ Nil \notin Themes /\ state.quality \in Nat
      /\ state.dimensional \in BOOLEAN
  BY <1>1, MapAssumption, TiersAreTiers DEF StateType
<1>5. OnItsWay(r, state)
  BY <1>2, <1>3, <1>4 DEF Committed, OnItsWay
<1>6. Whole(r, state)
  <2>1. r.buildings = BuildingsOf(m, state)
    BY <1>2, <1>3 DEF Committed
  <2>2. r.ready => r.shown = state.theme
    BY <1>2, <1>3, <1>4 DEF Committed
  <2>. QED
    BY <1>1, <1>2, <1>3, <2>1, <2>2, BuiltForTheTheme DEF Committed, Whole
<1>7. NoThrow(r) /\ TerrainFits(r, state, qualityRef)
  BY <1>2, <1>3 DEF Committed, NoThrow, TerrainFits
<1>. QED
  BY <1>1, <1>2, <1>5, <1>6, <1>7 DEF Committed, MapOK

\* The governor that goes with it.
LEMMA GovernedIsOK ==
    ASSUME NEW g, qualityRef' \in Tier, GovernorOK(g, qualityRef'), NEW ready
    PROVE  GovernorOK(Governed(g, ready), qualityRef')
<1>1. PICK n : n = NewGovernor(qualityRef')
  OBVIOUS
<1>2. 0 \in 0 .. PromoteStreak - 1
  BY MapAssumption
<1>3. n \in GovernorType /\ n.tier = qualityRef'
  BY <1>1, <1>2 DEF NewGovernor, GovernorType
<1>4. Governed(g, ready) \in {Nil, n, g}
  BY <1>1 DEF Governed
<1>. QED
  BY <1>3, <1>4 DEF GovernorOK

\* A commit of what React has rendered.
LEMMA CommitKeeps ==
    ASSUME MapInv, NEW s \in StateType, NEW g, Commit(map, s, map.ready, g),
           qualityRef' \in Tier, GovernorOK(g, qualityRef'),
           s.dimensional = state.dimensional => qualityRef' = qualityRef
    PROVE  MapOK(map', state', qualityRef') /\ GovernorOK(governor', qualityRef')
<1>1. PICK e : e = Effects(map, s, map.ready)
  OBVIOUS
<1>2. map' = e /\ state' = s /\ governor' = Governed(g, e.ready)
  BY <1>1 DEF Commit
<1>3. MapOK(map, state, qualityRef) /\ map \in MapType /\ state \in StateType
  BY DEF MapInv, MapOK
<1>4. MapOK(e, s, qualityRef')
  <2>1. CASE map.ready
    <3>1. map.ready = TRUE
      BY <1>3, <2>1 DEF MapType
    <3>2. e = Effects(map, s, TRUE)
      BY <1>1, <3>1
    <3>. QED
      BY <1>3, <2>1, <3>2, RenderKeeps
  <2>2. CASE ~map.ready
    <3>1. e = map
      BY <1>1, <2>2 DEF Effects
    <3>. QED
      BY <1>3, <2>2, <3>1, WaitingKeeps
  <2>. QED
    BY <2>1, <2>2
<1>5. GovernorOK(Governed(g, e.ready), qualityRef')
  BY GovernedIsOK
<1>. QED
  BY <1>2, <1>4, <1>5

LEMMA StyleStep ==
    ASSUME MapInv, StyleLoaded
    PROVE  MapInv'
<1>1. MapOK(map, state, qualityRef) /\ map \in MapType /\ state \in StateType
  BY DEF MapInv, MapOK
<1>2. /\ qualityRef' = qualityRef /\ stored' = stored /\ failures' = failures
      /\ map.fetching # Nil
  BY DEF StyleLoaded
<1>3. ~map.ready /\ map.fetching = map.applied /\ map.fetching \in Themes
  BY <1>1, <1>2 DEF MapOK, OnItsWay, MapType
<1>4. PICK fresh : fresh = [map EXCEPT !.shown = map.fetching, !.fetching = Nil, !.layers = FALSE,
                                       !.drawn = {}, !.sky = Nil, !.buildings = Nil]
  OBVIOUS
<1>5. /\ fresh \in MapType /\ fresh.fetching = Nil /\ fresh.shown = fresh.applied
      /\ fresh.buildings = Nil
  BY <1>1, <1>3, <1>4 DEF MapType
<1>6. PICK m : m = InstallLayers(fresh)
  OBVIOUS
<1>7. m \in MapType /\ m.fetching = Nil /\ m.shown = m.applied /\ m.buildings = Nil
  BY <1>5, <1>6, InstallDoes DEF SameStyle
<1>8. PICK r : r = Effects(m, state, TRUE)
  OBVIOUS
<1>9. map' = r /\ state' = state /\ governor' = Governed(governor, r.ready)
  BY <1>4, <1>6, <1>8 DEF StyleLoaded, Commit
<1>10. MapOK(r, state, qualityRef)
  BY <1>1, <1>3, <1>7, <1>8, LandingKeeps
<1>11. GovernorOK(governor, qualityRef') /\ qualityRef' \in Tier
  BY <1>2 DEF MapInv
<1>12. GovernorOK(Governed(governor, r.ready), qualityRef')
  BY <1>11, GovernedIsOK
<1>. QED
  BY <1>2, <1>9, <1>10, <1>12 DEF MapInv

LEMMA FailureStep ==
    ASSUME MaxFailures \in Nat, MapInv, StyleFails \/ ModelFails
    PROVE  MapInv'
<1>1. MapOK(map, state, qualityRef) /\ map \in MapType /\ state \in StateType
  BY DEF MapInv, MapOK
<1>2. /\ failures' \in 0 .. MaxFailures
      /\ UNCHANGED <<state, governor, qualityRef, stored>>
  BY DEF StyleFails, ModelFails, MapInv
<1>3. CASE StyleFails
  <2>1. map' = [map EXCEPT !.fetching = Nil] /\ map.fetching # Nil
    BY <1>3 DEF StyleFails
  <2>2. /\ map' \in MapType /\ map'.ready = map.ready /\ map'.fetching = Nil
        /\ map'.layers = map.layers /\ map'.drawn = map.drawn /\ SameCamera(map, map')
    BY <1>1, <2>1 DEF MapType, SameCamera
  <2>3. ~map'.ready
    BY <1>1, <2>1, <2>2 DEF MapOK, OnItsWay
  <2>4. MapOK(map', state, qualityRef)
    BY <1>1, <2>2, <2>3 DEF MapOK, Whole, OnItsWay, NoThrow, TerrainFits, SameCamera
  <2>. QED
    BY <1>2, <2>4 DEF MapInv
<1>4. CASE ModelFails
  <2>1. map' = [map EXCEPT !.model = FALSE]
    BY <1>4 DEF ModelFails
  <2>2. map' \in MapType /\ SameStyle(map, map') /\ SameLayers(map, map') /\ SameCamera(map, map')
    BY <1>1, <2>1 DEF MapType, SameStyle, SameLayers, SameCamera
  <2>3. MapOK(map', state, qualityRef)
    BY <1>1, <2>2
    DEF MapOK, Whole, OnItsWay, NoThrow, TerrainFits, SameStyle, SameLayers, SameCamera
  <2>. QED
    BY <1>2, <2>3 DEF MapInv
<1>. QED
  BY <1>3, <1>4

LEMMA RenderStep ==
    ASSUME MapInv, SwitchTheme \/ FleetChanges \/ Select \/ QualityRenders
    PROVE  MapInv'
<1>1. state \in StateType /\ qualityRef \in Tier /\ GovernorOK(governor, qualityRef)
  BY DEF MapInv, MapOK
<1>2. ASSUME NEW s \in StateType, Render(s) PROVE MapInv'
  <2>1. /\ qualityRef' = qualityRef /\ stored' = stored /\ failures' = failures
        /\ Commit(map, s, map.ready, governor)
    BY <1>2 DEF Render
  <2>2. MapOK(map', state', qualityRef') /\ GovernorOK(governor', qualityRef')
    BY <1>1, <1>2, <2>1, CommitKeeps
  <2>. QED
    BY <2>1, <2>2 DEF MapInv
<1>3. CASE SwitchTheme
  <2>1. PICK th \in Themes : Render([state EXCEPT !.theme = th])
    BY <1>3 DEF SwitchTheme
  <2>2. [state EXCEPT !.theme = th] \in StateType
    BY <1>1 DEF StateType
  <2>. QED
    BY <1>2, <2>1, <2>2
<1>4. CASE FleetChanges
  <2>1. PICK f \in SUBSET Trucks : Render([state EXCEPT !.fleet = f])
    BY <1>4 DEF FleetChanges
  <2>2. [state EXCEPT !.fleet = f] \in StateType
    BY <1>1 DEF StateType
  <2>. QED
    BY <1>2, <2>1, <2>2
<1>5. CASE Select
  <2>1. PICK t \in Trucks \cup {Nil} : Render([state EXCEPT !.selected = t])
    BY <1>5 DEF Select
  <2>2. [state EXCEPT !.selected = t] \in StateType
    BY <1>1 DEF StateType
  <2>. QED
    BY <1>2, <2>1, <2>2
<1>6. CASE QualityRenders
  <2>1. [state EXCEPT !.quality = qualityRef] \in StateType
    BY <1>1 DEF StateType
  <2>. QED
    BY <1>2, <1>6, <2>1 DEF QualityRenders
<1>. QED
  BY <1>3, <1>4, <1>5, <1>6

\* The 3D button, and the way back to the dashboard.
LEMMA ButtonStep ==
    ASSUME MapInv, Press
    PROVE  MapInv'
<1>1. /\ state \in StateType /\ qualityRef \in Tier /\ GovernorOK(governor, qualityRef)
      /\ stored.tier = qualityRef /\ failures \in 0 .. MaxFailures
  BY DEF MapInv, MapOK
<1>. DEFINE on == ~state.dimensional
            tier == IF on THEN Buildings ELSE qualityRef
            next == [state EXCEPT !.dimensional = on,
                                  !.quality = IF on THEN Buildings ELSE state.quality]
            judge == IF on /\ governor # Nil THEN [NewGovernor(tier) EXCEPT !.armed = TRUE]
                    ELSE governor
<1>2. /\ qualityRef' = tier /\ failures' = failures
      /\ stored' = [dimensional |-> on, tier |-> IF on THEN tier ELSE stored.tier]
      /\ Commit(map, next, map.ready, judge)
  BY DEF Press
<1>3. state.dimensional \in BOOLEAN /\ on \in BOOLEAN /\ on # state.dimensional
  BY <1>1 DEF StateType
<1>4. tier \in Tier
  BY <1>1, TiersAreTiers
<1>5. next \in StateType /\ next.dimensional = on
  BY <1>1, <1>3, TiersAreTiers DEF StateType
<1>6. GovernorOK(judge, tier)
  <2>1. CASE on /\ governor # Nil
    <3>1. 0 \in 0 .. PromoteStreak - 1
      BY MapAssumption
    <3>2. judge = [NewGovernor(tier) EXCEPT !.armed = TRUE]
      BY <2>1
    <3>. HIDE DEF judge, tier
    <3>3. judge \in GovernorType /\ judge.tier = tier
      BY <1>4, <3>1, <3>2 DEF NewGovernor, GovernorType
    <3>. QED
      BY <3>3 DEF GovernorOK
  <2>2. CASE on /\ governor = Nil
    BY <2>2 DEF GovernorOK
  <2>3. CASE ~on
    BY <1>1, <2>3
  <2>. QED
    BY <2>1, <2>2, <2>3
<1>7. (IF on THEN tier ELSE stored.tier) = tier
  BY <1>1
<1>. HIDE DEF on, tier, next, judge
<1>8. MapOK(map', state', qualityRef') /\ GovernorOK(governor', qualityRef')
  BY <1>2, <1>3, <1>4, <1>5, <1>6, CommitKeeps
<1>9. stored' \in [tier : Tier, dimensional : BOOLEAN] /\ stored'.tier = qualityRef'
  BY <1>2, <1>3, <1>4, <1>7
<1>. QED
  BY <1>1, <1>2, <1>4, <1>8, <1>9 DEF MapInv

LEMMA RemountStep ==
    ASSUME MapInv, Remount
    PROVE  MapInv'
<1>1. state \in StateType /\ stored \in [tier : Tier, dimensional : BOOLEAN]
  BY DEF MapInv, MapOK
<1>2. /\ state' = [state EXCEPT !.dimensional = stored.dimensional, !.quality = stored.tier]
      /\ map' = Mounted(state.theme) /\ governor' = Nil /\ qualityRef' = stored.tier
      /\ stored' = stored /\ failures' = failures
  BY DEF Remount
<1>3. state' \in StateType /\ state'.theme = state.theme /\ state.theme \in Themes
  BY <1>1, <1>2 DEF StateType
<1>4. MapOK(map', state', qualityRef')
  BY <1>2, <1>3, MountIsOK
<1>. QED
  BY <1>1, <1>2, <1>4 DEF MapInv, GovernorOK

-----------------------------------------------------------------------------
\* The steps of the camera and of the governor.

\* What the hands may do to the map.
LEMMA MoveKeeps ==
    ASSUME MapInv, NEW m \in MapType, Move(m), SameStyle(map, m), SameLayers(map, m),
           NoThrow(m), TerrainFits(m, state, qualityRef)
    PROVE  MapInv'
<1>1. map' = m /\ UNCHANGED <<state, governor, qualityRef, stored, failures>>
  BY DEF Move
<1>2. MapOK(m, state, qualityRef)
  BY DEF MapInv, MapOK, Whole, OnItsWay, SameStyle, SameLayers
<1>. QED
  BY <1>1, <1>2 DEF MapInv

LEMMA EaseStep ==
    ASSUME MapInv, NEW m \in MapType, SameStyle(map, m), SameLayers(map, m),
           NEW zoom \in {"far", "mid", "near"}, NEW how \in {"ease", "frozen"},
           Move(Ease(m, zoom, how))
    PROVE  MapInv'
<1>1. PICK r : r = Ease(m, zoom, how)
  OBVIOUS
<1>2. /\ r \in MapType /\ SameStyle(m, r) /\ SameLayers(m, r) /\ r.move = how
      /\ how = "ease" /\ r.terrain => r.began
  BY <1>1, EaseDoes
<1>3. NoThrow(r) /\ TerrainFits(r, state, qualityRef)
  BY <1>2 DEF NoThrow, TerrainFits
<1>4. SameStyle(map, r) /\ SameLayers(map, r)
  BY <1>2 DEF SameStyle, SameLayers
<1>. QED
  BY <1>1, <1>2, <1>3, <1>4, MoveKeeps

LEMMA NearIsAZoom ==
    \A zoom \in {"far", "mid", "near"} : Near(zoom) \subseteq {"far", "mid", "near"}
BY DEF Near

LEMMA CameraStep ==
    ASSUME MapInv, Camera
    PROVE  MapInv'
<1>1. map \in MapType /\ state \in StateType
  BY DEF MapInv, MapOK
<1>2. map.zoom \in {"far", "mid", "near"}
  BY <1>1 DEF MapType
<1>3. SameStyle(map, map) /\ SameLayers(map, map)
  BY DEF SameStyle, SameLayers
<1>4. CASE Grab
  <2>1. (map.timer \/ map.move # "still") \in BOOLEAN
    BY Zenon
  <2>2. PICK m : m = [map EXCEPT !.move = "hand", !.began = FALSE,
                                 !.timer = map.timer \/ map.move # "still"]
    OBVIOUS
  <2>3. Move(m)
    BY <1>4, <2>2 DEF Grab
  <2>4. m \in MapType /\ SameStyle(map, m) /\ SameLayers(map, m) /\ m.move = "hand"
    BY <1>1, <2>1, <2>2, ZenonT(60) DEF MapType, SameStyle, SameLayers
  <2>5. NoThrow(m) /\ TerrainFits(m, state, qualityRef)
    BY <2>4 DEF NoThrow, TerrainFits
  <2>. QED
    BY <2>3, <2>4, <2>5, MoveKeeps
<1>5. CASE LetGo
  <2>1. PICK zoom \in Near(map.zoom) :
            \/ Move([map EXCEPT !.zoom = zoom, !.move = "still", !.timer = TRUE])
            \/ Move(Ease([map EXCEPT !.zoom = zoom], zoom, "ease"))
    BY <1>5 DEF LetGo
  <2>2. zoom \in {"far", "mid", "near"}
    BY <1>2, NearIsAZoom
  <2>3. CASE Move([map EXCEPT !.zoom = zoom, !.move = "still", !.timer = TRUE])
    <3>1. PICK m : m = [map EXCEPT !.zoom = zoom, !.move = "still", !.timer = TRUE]
      OBVIOUS
    <3>2. m \in MapType /\ SameStyle(map, m) /\ SameLayers(map, m) /\ m.move = "still" /\ m.timer
      BY <1>1, <2>2, <3>1 DEF MapType, SameStyle, SameLayers
    <3>3. NoThrow(m) /\ TerrainFits(m, state, qualityRef)
      BY <3>2 DEF NoThrow, TerrainFits
    <3>. QED
      BY <2>3, <3>1, <3>2, <3>3, MoveKeeps
  <2>4. CASE Move(Ease([map EXCEPT !.zoom = zoom], zoom, "ease"))
    <3>1. PICK m : m = [map EXCEPT !.zoom = zoom]
      OBVIOUS
    <3>2. m \in MapType /\ SameStyle(map, m) /\ SameLayers(map, m)
      BY <1>1, <2>2, <3>1 DEF MapType, SameStyle, SameLayers
    <3>. QED
      BY <2>2, <2>4, <3>1, <3>2, EaseStep
  <2>. QED
    BY <2>1, <2>3, <2>4
<1>6. CASE ZoomButton
  <2>1. PICK zoom \in Near(map.zoom) : Move(Ease(map, zoom, "ease"))
    BY <1>6 DEF ZoomButton
  <2>2. zoom \in {"far", "mid", "near"}
    BY <1>2, NearIsAZoom
  <2>. QED
    BY <1>1, <1>3, <2>1, <2>2, EaseStep
<1>7. CASE NorthButton
  BY <1>1, <1>2, <1>3, <1>7, EaseStep DEF NorthButton
<1>8. CASE FitAll
  BY <1>1, <1>3, <1>8, EaseStep DEF FitAll
<1>9. CASE EaseEnds
  <2>1. PICK m : m = [map EXCEPT !.move = "still", !.began = FALSE, !.timer = TRUE]
    OBVIOUS
  <2>2. Move(m)
    BY <1>9, <2>1 DEF EaseEnds
  <2>3. m \in MapType /\ SameStyle(map, m) /\ SameLayers(map, m) /\ m.move = "still" /\ m.timer
    BY <1>1, <2>1 DEF MapType, SameStyle, SameLayers
  <2>4. NoThrow(m) /\ TerrainFits(m, state, qualityRef)
    BY <2>3 DEF NoThrow, TerrainFits
  <2>. QED
    BY <2>2, <2>3, <2>4, MoveKeeps
<1>10. CASE SyncLater
  <2>. DEFINE on == state.dimensional /\ qualityRef >= Terrain
  <2>1. PICK y : y = IF map.move = "still" THEN SyncTerrain(map, on) ELSE map
    OBVIOUS
  <2>2. PICK m : m = [y EXCEPT !.timer = FALSE]
    OBVIOUS
  <2>3. Move(m)
    BY <1>10, <2>1, <2>2 DEF SyncLater
  <2>4. on \in BOOLEAN
    BY Zenon
  <2>5. /\ y \in MapType /\ SameStyle(map, y) /\ SameLayers(map, y) /\ y.move = map.move
        /\ y.move = "still" => /\ y.terrain => on /\ y.zoom # "near"
                               /\ on /\ y.zoom = "far" => y.terrain
        /\ y.move # "still" => y = map
    <3>1. CASE map.move = "still"
      <4>. HIDE DEF on
      <4>. QED
        BY <1>1, <2>1, <2>4, <3>1, SyncDoes
    <3>2. CASE map.move # "still"
      <4>. HIDE DEF on
      <4>. QED
        BY <1>1, <1>3, <2>1, <3>2
    <3>. QED
      BY <3>1, <3>2
  <2>6. /\ m \in MapType /\ SameStyle(y, m) /\ SameLayers(y, m) /\ m.move = y.move
        /\ m.terrain = y.terrain /\ m.zoom = y.zoom /\ m.began = y.began
    BY <2>2, <2>5 DEF MapType, SameStyle, SameLayers
  <2>7. NoThrow(m)
    BY <2>5, <2>6 DEF NoThrow, MapInv, MapOK
  <2>8. TerrainFits(m, state, qualityRef)
    BY <2>5, <2>6 DEF TerrainFits
  <2>9. SameStyle(map, m) /\ SameLayers(map, m)
    BY <2>5, <2>6 DEF SameStyle, SameLayers
  <2>. QED
    BY <2>3, <2>6, <2>7, <2>8, <2>9, MoveKeeps
<1>. QED
  BY <1>4, <1>5, <1>6, <1>7, <1>8, <1>9, <1>10 DEF Camera

LEMMA GovernorStep ==
    ASSUME MapInv, Arm \/ Judge
    PROVE  MapInv'
<1>1. /\ MapOK(map, state, qualityRef) /\ GovernorOK(governor, qualityRef)
      /\ stored \in [tier : Tier, dimensional : BOOLEAN] /\ stored.tier = qualityRef
      /\ qualityRef \in Tier
  BY DEF MapInv
<1>2. governor # Nil
  BY DEF Arm, Judge
<1>3. governor \in GovernorType /\ governor.tier = qualityRef
  BY <1>1, <1>2 DEF GovernorOK
<1>4. state' = state /\ map' = map /\ failures' = failures
  BY DEF Arm, Judge
<1>5. PromoteStreak \in Nat \ {0} /\ 0 \in 0 .. PromoteStreak - 1
  BY MapAssumption
<1>6. CASE Arm
  <2>1. governor' = [governor EXCEPT !.armed = TRUE] /\ qualityRef' = qualityRef /\ stored' = stored
    BY <1>6 DEF Arm
  <2>2. governor' \in GovernorType /\ governor'.tier = governor.tier
    BY <1>3, <2>1 DEF GovernorType
  <2>. QED
    BY <1>1, <1>3, <1>4, <2>1, <2>2 DEF MapInv, GovernorOK
<1>7. CASE Judge
  <2>1. ASSUME NEW tier \in Tier, Apply(tier) PROVE MapInv'
    <3>1. /\ governor' = [governor EXCEPT !.tier = tier, !.streak = 0] /\ qualityRef' = tier
          /\ stored' = [stored EXCEPT !.tier = tier]
      BY <2>1 DEF Apply
    <3>2. governor' \in GovernorType /\ governor'.tier = tier
      BY <1>3, <1>5, <2>1, <3>1 DEF GovernorType
    <3>3. stored' \in [tier : Tier, dimensional : BOOLEAN] /\ stored'.tier = tier
      BY <1>1, <2>1, <3>1
    <3>4. MapOK(map, state, tier)
      BY <1>1, <1>7 DEF MapOK, TerrainFits, Judge
    <3>. QED
      BY <1>4, <2>1, <3>1, <3>2, <3>3, <3>4 DEF MapInv, GovernorOK
  <2>2. ASSUME NEW n \in 0 .. PromoteStreak - 1, governor' = [governor EXCEPT !.streak = n],
               UNCHANGED <<qualityRef, stored>>
        PROVE  MapInv'
    <3>1. governor' \in GovernorType /\ governor'.tier = governor.tier
      BY <1>3, <2>2 DEF GovernorType
    <3>. QED
      BY <1>1, <1>3, <1>4, <2>2, <3>1 DEF MapInv, GovernorOK
  <2>3. governor.streak \in 0 .. PromoteStreak - 1 /\ governor.tier \in Tier
    BY <1>3 DEF GovernorType
  <2>4. CASE governor.tier > Flat /\ Apply(governor.tier - 1)
    BY <2>1, <2>3, <2>4, TiersAreTiers
  <2>5. CASE governor.tier < Terrain /\ Earned(governor) /\ Apply(governor.tier + 1)
    BY <2>1, <2>3, <2>5, TiersAreTiers
  <2>6. CASE /\ ~Earned(governor) /\ governor' = [governor EXCEPT !.streak = governor.streak + 1]
             /\ UNCHANGED <<qualityRef, stored>>
    <3>1. PICK n : n = governor.streak + 1
      OBVIOUS
    <3>2. n \in 0 .. PromoteStreak - 1
      BY <1>5, <2>3, <2>6, <3>1 DEF Earned
    <3>. QED
      BY <2>2, <2>6, <3>1, <3>2
  <2>7. CASE governor' = [governor EXCEPT !.streak = 0] /\ UNCHANGED <<qualityRef, stored>>
    BY <1>5, <2>2, <2>7
  <2>. QED
    BY <1>7, <2>4, <2>5, <2>6, <2>7 DEF Judge
<1>. QED
  BY <1>6, <1>7

LEMMA MapStep ==
    ASSUME MaxFailures \in Nat, MapInv, Next
    PROVE  MapInv'
<1>1. CASE StyleLoaded
  BY <1>1, StyleStep
<1>2. CASE StyleFails \/ ModelFails
  BY <1>2, FailureStep
<1>3. CASE OfAPage
  BY <1>3, RenderStep, ButtonStep, RemountStep DEF OfAPage
<1>4. CASE Camera
  BY <1>4, CameraStep
<1>5. CASE Arm \/ Judge
  BY <1>5, GovernorStep
<1>. QED
  BY <1>1, <1>2, <1>3, <1>4, <1>5 DEF Next

-----------------------------------------------------------------------------
(* The map of one shipment.                                                *)

\* Unless a switch was missed, the style on its way is that of the theme.
StyleIsOnItsWay == style.fetching # Nil /\ ~missed => style.fetching = theme

RouteInv ==
    /\ Route!TypeOK /\ StyleIsOnItsWay
    /\ Route!ReadyRouteIsWhole /\ Route!ThemeIsShown

StyleType == [ready : BOOLEAN, shown : Themes, fetching : Themes \cup {Nil}]
ViewType == [fitted : BOOLEAN, camera : {"home", "fitted", "hand"}]

LEMMA BlankIsVersions == Route!Blank \in Route!Versions
BY NumbersAssumption DEF Route!Blank, Route!Versions

LEMMA MountedIsSound ==
    ASSUME theme \in Themes
    PROVE  /\ Route!Mounted \in StyleType /\ ~Route!Mounted.ready
           /\ Route!Mounted.fetching = theme
BY DEF Route!Mounted, StyleType

LEMMA AtHomeIsSound == Route!AtHome \in ViewType /\ ~Route!AtHome.fitted
BY DEF Route!AtHome, ViewType

LEMMA RouteInitHolds == Route!Init => RouteInv
<1>. SUFFICES ASSUME Route!Init PROVE RouteInv
  OBVIOUS
<1>1. theme \in Themes /\ style = Route!Mounted /\ data = Route!Blank
      /\ drawn = Route!Blank /\ view = Route!AtHome /\ unfetched = 0
  BY DEF Route!Init
<1>2. missed \in BOOLEAN
  BY Zenon DEF Route!Init
<1>3. MaxFailures \in Nat
  BY NumbersAssumption
<1>. QED
  BY <1>1, <1>2, <1>3, BlankIsVersions, MountedIsSound, AtHomeIsSound
     DEF RouteInv, Route!TypeOK, StyleType, ViewType, StyleIsOnItsWay,
         Route!ReadyRouteIsWhole, Route!ThemeIsShown

\* Drawing shows every part that is there.
LEMMA DrawIsWhole ==
    ASSUME NEW from \in Route!Versions, NEW d \in Route!Versions
    PROVE  /\ Route!Draw(from, d) \in Route!Versions
           /\ \A p \in Route!Parts \ Route!Skipped(d) : Route!Draw(from, d)[p] = d[p]
BY DEF Route!Draw, Route!Versions

\* A journey that was framed is not framed again.
LEMMA FrameIsSound ==
    ASSUME view \in ViewType, NEW d \in Route!Versions
    PROVE  /\ Route!Frame(d) \in ViewType
           /\ view.fitted => Route!Frame(d) = view
BY DEF Route!Frame, ViewType

LEMMA VersionSet ==
    ASSUME NEW d \in Route!Versions, NEW p \in Route!Parts, NEW v \in 0 .. MaxData
    PROVE  [d EXCEPT ![p] = v] \in Route!Versions
BY DEF Route!Versions

LEMMA RouteStep ==
    ASSUME RouteInv, Route!Next
    PROVE  RouteInv' /\ Route!ViewIsKeptStep
<1>0. /\ theme \in Themes /\ style \in StyleType /\ (style.ready => style.fetching = Nil)
      /\ data \in Route!Versions /\ drawn \in Route!Versions
      /\ view \in ViewType /\ missed \in BOOLEAN /\ unfetched \in 0 .. MaxFailures
  BY DEF RouteInv, Route!TypeOK, StyleType, ViewType
<1>1. StyleIsOnItsWay /\ Route!ReadyRouteIsWhole /\ Route!ThemeIsShown
  BY DEF RouteInv
<1>. USE DEF StyleIsOnItsWay, Route!ReadyRouteIsWhole, Route!ThemeIsShown
<1>2. ASSUME theme' \in Themes, style' \in StyleType, style'.ready => style'.fetching = Nil,
             data' \in Route!Versions, drawn' \in Route!Versions, view' \in ViewType,
             missed' \in BOOLEAN, unfetched' \in 0 .. MaxFailures,
             StyleIsOnItsWay', Route!ReadyRouteIsWhole', Route!ThemeIsShown'
      PROVE  RouteInv'
  BY <1>2 DEF RouteInv, Route!TypeOK, StyleType, ViewType
<1>3. CASE Route!StyleLoaded
  <2>1. /\ style.fetching \in Themes /\ UNCHANGED <<theme, data, missed, unfetched>>
        /\ drawn' = Route!Draw(Route!Blank, data) /\ view' = Route!Frame(data)
        /\ style' = [ready |-> TRUE, shown |-> style.fetching, fetching |-> Nil]
    BY <1>0, <1>3 DEF Route!StyleLoaded, StyleType
  <2>2. /\ style' \in StyleType /\ style'.shown = style.fetching /\ style'.fetching = Nil
    BY <2>1 DEF StyleType
  <2>3. /\ drawn' \in Route!Versions
        /\ \A p \in Route!Parts \ Route!Skipped(data) : drawn'[p] = data[p]
    BY <1>0, <2>1, BlankIsVersions, DrawIsWhole
  <2>4. view' \in ViewType /\ Route!ViewIsKeptStep
    BY <1>0, <2>1, FrameIsSound DEF Route!ViewIsKeptStep
  <2>5. StyleIsOnItsWay' /\ Route!ReadyRouteIsWhole'
    BY <2>1, <2>2, <2>3 DEF Route!Skipped
  <2>6. Route!ThemeIsShown'
    BY <1>1, <1>3, <2>1, <2>2 DEF Route!StyleLoaded
  <2>. QED
    BY <1>0, <1>2, <2>1, <2>2, <2>3, <2>4, <2>5, <2>6
<1>4. CASE Route!StyleFails
  <2>1. /\ style.fetching # Nil /\ style' = [style EXCEPT !.fetching = Nil]
        /\ UNCHANGED <<theme, data, drawn, view, missed>>
    BY <1>4 DEF Route!StyleFails
  <2>2. unfetched' \in 0 .. MaxFailures
    BY <1>0, <1>4, NumbersAssumption DEF Route!StyleFails
  <2>3. style' \in StyleType /\ style'.fetching = Nil /\ ~style'.ready
    BY <1>0, <2>1 DEF StyleType
  <2>. QED
    BY <1>0, <1>2, <2>1, <2>2, <2>3 DEF Route!ViewIsKeptStep
<1>5. CASE Route!SwitchTheme
  <2>1. PICK to \in Themes : /\ theme' = to
                             /\ style' = IF style.ready THEN Route!Restyle(to) ELSE style
    BY <1>5 DEF Route!SwitchTheme
  <2>2. missed' \in BOOLEAN /\ UNCHANGED <<data, drawn, view, unfetched>>
        /\ (~missed' => style.ready)
    BY <1>5, Zenon DEF Route!SwitchTheme
  <2>3. CASE style.ready
    <3>1. style' \in StyleType /\ ~style'.ready /\ style'.fetching = to
      BY <1>0, <2>1, <2>3 DEF StyleType, Route!Restyle
    <3>. QED
      BY <1>0, <1>2, <2>1, <2>2, <3>1 DEF Route!ViewIsKeptStep
  <2>4. CASE ~style.ready
    BY <1>0, <1>1, <1>2, <2>1, <2>2, <2>4 DEF Route!ViewIsKeptStep
  <2>. QED
    BY <2>3, <2>4
<1>6. ASSUME NEW d \in Route!Versions, Route!Arrives(d)
      PROVE  RouteInv' /\ Route!ViewIsKeptStep
  <2>1. data' = d /\ UNCHANGED <<theme, style, missed, unfetched>>
    BY <1>6 DEF Route!Arrives
  <2>2. CASE style.ready
    <3>1. drawn' = Route!Draw(drawn, d) /\ view' = Route!Frame(d)
      BY <1>6, <2>2 DEF Route!Arrives
    <3>2. /\ drawn' \in Route!Versions
          /\ \A p \in Route!Parts \ Route!Skipped(d) : drawn'[p] = d[p]
      BY <1>0, <3>1, DrawIsWhole
    <3>3. view' \in ViewType /\ Route!ViewIsKeptStep
      BY <1>0, <3>1, FrameIsSound DEF Route!ViewIsKeptStep
    <3>4. Route!ReadyRouteIsWhole'
      BY <2>1, <3>2 DEF Route!Skipped
    <3>. QED
      BY <1>0, <1>1, <1>2, <2>1, <3>2, <3>3, <3>4
  <2>3. CASE ~style.ready
    <3>1. UNCHANGED <<drawn, view>>
      BY <1>6, <2>3 DEF Route!Arrives
    <3>. QED
      BY <1>0, <1>1, <1>2, <2>1, <2>3, <3>1 DEF Route!ViewIsKeptStep
  <2>. QED
    BY <2>2, <2>3
<1>7. MaxData \in Nat
  BY NumbersAssumption
<1>8. CASE Route!NewData
  <2>1. PICK p \in Route!Parts : /\ data[p] < MaxData
                                 /\ Route!Arrives([data EXCEPT ![p] = data[p] + 1])
    BY <1>8 DEF Route!NewData
  <2>2. [data EXCEPT ![p] = data[p] + 1] \in Route!Versions
    BY <1>0, <1>7, <2>1 DEF Route!Versions
  <2>. QED
    BY <1>6, <2>1, <2>2
<1>9. CASE Route!RouteForgotten
  <2>1. /\ [data EXCEPT !["route"] = 0] \in Route!Versions
        /\ [data EXCEPT !["route"] = 0, !["backfill"] = 0] \in Route!Versions
    <3>1. "route" \in Route!Parts /\ "backfill" \in Route!Parts /\ 0 \in 0 .. MaxData
      BY <1>7 DEF Route!Parts
    <3>2. [data EXCEPT !["route"] = 0] \in Route!Versions
      BY <1>0, <3>1, VersionSet
    <3>3. [[data EXCEPT !["route"] = 0] EXCEPT !["backfill"] = 0] \in Route!Versions
      BY <3>1, <3>2, VersionSet
    <3>. QED
      BY <3>2, <3>3
  <2>. QED
    BY <1>6, <1>9, <2>1 DEF Route!RouteForgotten
<1>10. CASE Route!RouteRead
  <2>1. PICK v \in 1 .. MaxData : Route!Arrives([data EXCEPT !["route"] = v])
    BY <1>10 DEF Route!RouteRead
  <2>2. [data EXCEPT !["route"] = v] \in Route!Versions
    <3>1. "route" \in Route!Parts /\ v \in 0 .. MaxData
      BY <1>7 DEF Route!Parts
    <3>. QED
      BY <1>0, <3>1, VersionSet
  <2>. QED
    BY <1>6, <2>1, <2>2
<1>11. CASE Route!Pan
  <2>1. view' \in ViewType /\ view'.camera = "hand"
        /\ UNCHANGED <<theme, style, data, drawn, missed, unfetched>>
    BY <1>0, <1>11 DEF Route!Pan, ViewType
  <2>. QED
    BY <1>0, <1>1, <1>2, <2>1 DEF Route!ViewIsKeptStep
<1>12. CASE Route!Remount
  <2>1. /\ style' = Route!Mounted /\ drawn' = Route!Blank /\ view' = Route!AtHome
        /\ UNCHANGED <<theme, data, unfetched>>
    BY <1>12 DEF Route!Remount
  <2>2. missed' \in BOOLEAN
    BY <1>12, Zenon DEF Route!Remount
  <2>. QED
    BY <1>0, <1>2, <2>1, <2>2, BlankIsVersions, MountedIsSound, AtHomeIsSound
       DEF Route!ViewIsKeptStep
<1>. QED
  BY <1>3, <1>4, <1>5, <1>8, <1>9, <1>10, <1>11, <1>12 DEF Route!Next

-----------------------------------------------------------------------------
(* The keyboard of the board.                                              *)

PaletteType == [open : BOOLEAN, query : Keys!Vehicles \cup {Nothing}, active : 0 .. N]

UiType == [page : {"map", "away"}, rail : BOOLEAN, filter : {"all", "silent", "paused"},
           search : Keys!Vehicles \cup {Nothing}, selected : Keys!Vehicles \cup {Nothing},
           focus : BOOLEAN, field : {"page", "search", "palette"}, palette : PaletteType]

\* The focus is where it can be.
UiOK(u) ==
    /\ u \in UiType
    /\ u.field = "palette" <=> u.palette.open
    /\ u.field = "search" => u.rail /\ ~u.focus /\ u.page = "map"

\* The row lit is one that is there.
Lit(f, u) ==
    u.palette.open /\ Keys!Flat(f, u.palette.query) # 0 =>
        u.palette.active < Keys!Flat(f, u.palette.query)

FleetType == [Keys!Vehicles -> Keys!States \cup {"gone"}]

BoardInv == fleet \in FleetType /\ UiOK(ui) /\ railSet \in {Nothing, TRUE, FALSE} /\ Lit(fleet, ui)

LEMMA BoardTypes ==
    BoardInv <=> Keys!TypeOK /\ Keys!LitIsListed
BY DEF BoardInv, FleetType, UiOK, UiType, PaletteType, Lit, Keys!TypeOK, Keys!LitIsListed

LEMMA FlatIsSmall ==
    ASSUME NEW f \in FleetType, NEW q \in Keys!Vehicles \cup {Nothing}
    PROVE  Keys!Flat(f, q) \in 0 .. N + 1 /\ Keys!Flat(f, Nothing) # 0
<1>1. \A S : Keys!Cardinality(S) = Cardinality(S)
  BY DEF Keys!Cardinality, Cardinality
<1>2. N \in Nat
  BY NumbersAssumption
<1>3. IsFiniteSet(Keys!Vehicles) /\ Cardinality(Keys!Vehicles) = N
  <2>1. /\ IsFiniteSet(1 .. N)
        /\ Cardinality(1 .. N) = IF 1 > N THEN 0 ELSE N - 1 + 1
    BY <1>2, FS_Interval
  <2>2. Cardinality(1 .. N) = N
    <3>. DEFINE c == Cardinality(1 .. N)
    <3>1. c = IF 1 > N THEN 0 ELSE N - 1 + 1
      BY <2>1
    <3>. HIDE DEF c
    <3>2. c = N
      BY <1>2, <3>1
    <3>. QED
      BY <3>2 DEF c
  <2>. QED
    BY <2>1, <2>2 DEF Keys!Vehicles
<1>. DEFINE all == Keys!Listed(f)
            some == Keys!Listed(f) \cap {q}
<1>4. all \in SUBSET Keys!Vehicles /\ some \in SUBSET Keys!Vehicles
  BY DEF Keys!Listed
<1>. HIDE DEF all, some
<1>5. /\ IsFiniteSet(all) /\ Cardinality(all) <= N
      /\ IsFiniteSet(some) /\ Cardinality(some) <= N
  BY <1>3, <1>4, FS_Subset
<1>6. Cardinality(all) \in Nat /\ Cardinality(some) \in Nat
  BY <1>5, FS_CardinalityType
<1>7. /\ Keys!Flat(f, Nothing) = Cardinality(all) + 1
      /\ q # Nothing => Keys!Flat(f, q) = Cardinality(some)
  BY <1>1 DEF Keys!Flat, all, some
<1>. QED
  BY <1>2, <1>5, <1>6, <1>7

-----------------------------------------------------------------------------
\* The rows.

LEMMA LeastOf ==
    ASSUME NEW S \in SUBSET Nat, S # {}
    PROVE  \E m \in S : \A k \in S : m <= k
<1>1. PICK m \in S : \A k \in S : <<k, m>> \notin OpToRel(<, Nat)
  BY NatLessThanWellFounded, WFMin, Zenon
<1>2. \A k \in S : ~(k < m)
  BY <1>1 DEF OpToRel
<1>. QED
  BY <1>2

LEMMA RanksAreNumbers ==
    \A s \in Keys!States : Keys!Rank[s] \in 0 .. 4
BY DEF Keys!States, Keys!Rank

\* Of some rows one comes first, and one last.
LEMMA ForemostIsARow ==
    ASSUME NEW f \in FleetType, NEW rows \in SUBSET Keys!Listed(f), rows # {}, NEW way
    PROVE  Keys!Foremost(f, rows, way) \in rows
<1>. DEFINE R(v) == Keys!Rank[f[v]]
            First1(v) == \A w \in rows \ {v} : Keys!Before(f, v, w)
            Last1(v) == \A w \in rows \ {v} : Keys!Before(f, w, v)
<1>0. N \in Nat
  BY NumbersAssumption
<1>1. ASSUME NEW v \in rows PROVE v \in Nat /\ v \in 1 .. N /\ f[v] \in Keys!States
  BY <1>0 DEF Keys!Listed, Keys!Vehicles, FleetType
<1>2. \A v \in rows : R(v) \in 0 .. 4
  BY <1>1, RanksAreNumbers
<1>. HIDE DEF R
<1>3. \A v, w \in rows : Keys!Before(f, v, w) <=> R(v) < R(w) \/ (R(v) = R(w) /\ v < w)
  BY DEF Keys!Before, R
<1>4. \E v \in rows : First1(v)
  <2>. DEFINE ranks == {R(v) : v \in rows}
  <2>1. ranks \in SUBSET Nat /\ ranks # {}
    BY <1>2
  <2>2. PICK r \in ranks : \A k \in ranks : r <= k
    BY <2>1, LeastOf
  <2>. DEFINE best == {v \in rows : R(v) = r}
  <2>3. best \in SUBSET Nat /\ best # {}
    BY <1>1, <2>2
  <2>4. PICK m \in best : \A v \in best : m <= v
    BY <2>3, LeastOf
  <2>5. ASSUME NEW w \in rows \ {m} PROVE R(m) < R(w) \/ (R(m) = R(w) /\ m < w)
    BY <1>1, <1>2, <2>2, <2>4
  <2>. QED
    BY <1>3, <2>4, <2>5
<1>5. \E v \in rows : Last1(v)
  <2>. DEFINE ranks == {4 - R(v) : v \in rows}
  <2>1. ranks \in SUBSET Nat /\ ranks # {}
    BY <1>2
  <2>2. PICK r \in ranks : \A k \in ranks : r <= k
    BY <2>1, LeastOf
  <2>. DEFINE best == {v \in rows : 4 - R(v) = r}
              far == {N - v : v \in best}
  <2>3. far \in SUBSET Nat /\ far # {}
    BY <1>0, <1>1, <2>2
  <2>4. PICK d \in far : \A k \in far : d <= k
    BY <2>3, LeastOf
  <2>5. PICK m \in best : d = N - m
    BY <2>4
  <2>6. ASSUME NEW w \in rows \ {m} PROVE R(w) < R(m) \/ (R(w) = R(m) /\ w < m)
    <3>0. w \in Nat /\ m \in Nat /\ R(w) \in 0 .. 4 /\ R(m) \in 0 .. 4 /\ 4 - R(m) = r
      BY <1>1, <1>2
    <3>1. CASE w \in best
      <4>1. N - w \in far /\ 4 - R(w) = r
        BY <3>1
      <4>2. N - m <= N - w
        BY <2>4, <2>5, <4>1
      <4>3. w <= m /\ w # m /\ R(w) = R(m)
        BY <1>0, <3>0, <4>1, <4>2
      <4>. QED
        BY <3>0, <4>3
    <3>2. CASE w \notin best
      <4>1. 4 - R(w) \in ranks /\ 4 - R(w) # r
        BY <3>2
      <4>2. r <= 4 - R(w)
        BY <2>2, <4>1
      <4>3. r \in Nat
        BY <2>1
      <4>. QED
        BY <3>0, <4>1, <4>2, <4>3
    <3>. QED
      BY <3>1, <3>2
  <2>. QED
    BY <1>3, <2>5, <2>6
<1>6. CASE way = "down"
  <2>1. Keys!Foremost(f, rows, way) = CHOOSE v \in rows : First1(v)
    BY <1>6 DEF Keys!Foremost
  <2>. HIDE DEF First1
  <2>. QED
    BY <1>4, <2>1
<1>7. CASE way # "down"
  <2>1. Keys!Foremost(f, rows, way) = CHOOSE v \in rows : Last1(v)
    BY <1>7 DEF Keys!Foremost
  <2>. HIDE DEF Last1
  <2>. QED
    BY <1>5, <2>1
<1>. QED
  BY <1>6, <1>7

\* What a binding may do: the palette stays as it is.
Sound(u, w) == UiOK(w) /\ w.palette = u.palette

LEMMA StepIsSound ==
    ASSUME NEW f \in FleetType, NEW u, UiOK(u), NEW way
    PROVE  /\ Sound(u, Keys!Step(f, u, way))
           /\ Keys!Step(f, u, way).field = u.field
<1>. DEFINE rows == Keys!Visible(f, u)
            ahead == {v \in rows : /\ u.selected \in rows
                                   /\ IF way = "down" THEN Keys!Before(f, u.selected, v)
                                                      ELSE Keys!Before(f, v, u.selected)}
            from == IF ahead = {} THEN rows ELSE ahead
            v == Keys!Foremost(f, from, way)
<1>1. CASE rows = {}
  <2>1. Keys!Step(f, u, way) = u
    BY <1>1 DEF Keys!Step
  <2>. QED
    BY <2>1 DEF Sound
<1>2. CASE rows # {}
  <2>1. Keys!Step(f, u, way) = [u EXCEPT !.selected = v, !.rail = TRUE]
    BY <1>2 DEF Keys!Step
  <2>2. from \in SUBSET Keys!Listed(f) /\ from # {}
    BY <1>2 DEF Keys!Visible
  <2>. HIDE DEF from
  <2>3. v \in Keys!Vehicles
    BY <2>2, ForemostIsARow DEF Keys!Listed
  <2>. HIDE DEF v
  <2>4. PICK w : w = [u EXCEPT !.selected = v, !.rail = TRUE]
    OBVIOUS
  <2>5. /\ w \in UiType /\ w.page = u.page /\ w.rail /\ w.focus = u.focus
        /\ w.field = u.field /\ w.palette = u.palette
    BY <2>3, <2>4 DEF UiOK, UiType
  <2>. QED
    BY <2>1, <2>4, <2>5 DEF Sound, UiOK
<1>. QED
  BY <1>1, <1>2

LEMMA BlurIsSound ==
    ASSUME NEW u \in UiType, u.field = "palette" <=> u.palette.open,
           u.field = "search" => u.page = "map"
    PROVE  Sound(u, Keys!Blur(u))
<1>1. CASE u.field = "search" /\ (~u.rail \/ u.focus)
  <2>1. PICK w : w = [u EXCEPT !.field = "page"]
    OBVIOUS
  <2>2. Keys!Blur(u) = w
    BY <1>1, <2>1 DEF Keys!Blur
  <2>3. w \in UiType /\ w.field = "page" /\ w.palette = u.palette
    BY <2>1 DEF UiType
  <2>. QED
    BY <1>1, <2>2, <2>3 DEF Sound, UiOK
<1>2. CASE ~(u.field = "search" /\ (~u.rail \/ u.focus))
  <2>1. Keys!Blur(u) = u
    BY <1>2 DEF Keys!Blur
  <2>. QED
    BY <1>2, <2>1 DEF Sound, UiOK
<1>. QED
  BY <1>1, <1>2

LEMMA RailIsSound ==
    ASSUME NEW u, UiOK(u), NEW shown \in BOOLEAN
    PROVE  Sound(u, Keys!SetRail(u, shown))
<1>1. PICK w : w = [u EXCEPT !.rail = shown]
  OBVIOUS
<1>2. /\ w \in UiType /\ w.field = u.field /\ w.palette = u.palette /\ w.page = u.page
  BY <1>1 DEF UiOK, UiType
<1>3. Sound(w, Keys!Blur(w))
  BY <1>2, BlurIsSound DEF UiOK
<1>. QED
  BY <1>1, <1>2, <1>3 DEF Sound, Keys!SetRail

LEMMA FocusIsSound ==
    ASSUME NEW u, UiOK(u)
    PROVE  Sound(u, Keys!Blur([u EXCEPT !.focus = ~u.focus]))
<1>1. PICK w : w = [u EXCEPT !.focus = ~u.focus]
  OBVIOUS
<1>2. /\ w \in UiType /\ w.field = u.field /\ w.palette = u.palette /\ w.page = u.page
  BY <1>1 DEF UiOK, UiType
<1>3. Sound(w, Keys!Blur(w))
  BY <1>2, BlurIsSound DEF UiOK
<1>. QED
  BY <1>1, <1>2, <1>3 DEF Sound

LEMMA PeelIsSound ==
    ASSUME NEW u, UiOK(u)
    PROVE  Sound(u, Keys!Peel(u))
<1>1. PICK w : w = Keys!Peel(u)
  OBVIOUS
<1>2. \/ w = u
      \/ w = [u EXCEPT !.selected = Nothing]
      \/ w = [u EXCEPT !.search = Nothing]
      \/ w = [u EXCEPT !.filter = "all"]
  BY <1>1 DEF Keys!Peel
<1>3. /\ w \in UiType /\ w.field = u.field /\ w.palette = u.palette /\ w.page = u.page
      /\ w.rail = u.rail /\ w.focus = u.focus
  BY <1>2 DEF UiOK, UiType
<1>. QED
  BY <1>1, <1>3 DEF Sound, UiOK

\* Closed and just opened.
LEMMA PalettesAreTyped ==
    /\ Keys!Closed \in PaletteType /\ ~Keys!Closed.open
    /\ [Keys!Closed EXCEPT !.open = TRUE] \in PaletteType
    /\ [Keys!Closed EXCEPT !.open = TRUE].open
    /\ [Keys!Closed EXCEPT !.open = TRUE].query = Nothing
    /\ [Keys!Closed EXCEPT !.open = TRUE].active = 0
<1>1. 0 \in 0 .. N
  BY NumbersAssumption
<1>. QED
  BY <1>1 DEF Keys!Closed, PaletteType

LEMMA LeavingIsSound ==
    ASSUME NEW f, NEW u, UiOK(u), NEW w, w = [u EXCEPT !.palette = Keys!Closed, !.field = "page"]
    PROVE  UiOK(w) /\ Lit(f, w)
<1>1. /\ w \in UiType /\ w.field = "page" /\ w.palette = Keys!Closed
  BY PalettesAreTyped DEF UiOK, UiType
<1>. QED
  BY <1>1, PalettesAreTyped DEF UiOK, Lit

LEMMA OpeningIsSound ==
    ASSUME NEW f \in FleetType, NEW u, UiOK(u)
    PROVE  UiOK(Keys!Opened(f, u)) /\ Lit(f, Keys!Opened(f, u))
<1>0. PICK w : w = Keys!Opened(f, u)
  OBVIOUS
<1>1. w \in UiType /\ w.field = "palette" /\ w.palette = [Keys!Closed EXCEPT !.open = TRUE]
  BY <1>0, PalettesAreTyped DEF Keys!Opened, UiOK, UiType
<1>2. w.palette.open /\ w.palette.query = Nothing /\ w.palette.active = 0
  BY <1>1, PalettesAreTyped
<1>3. Keys!Flat(f, Nothing) # 0 /\ Keys!Flat(f, Nothing) \in 0 .. N + 1
  BY FlatIsSmall
<1>4. 0 < Keys!Flat(f, Nothing)
  BY <1>3, NumbersAssumption
<1>. QED
  BY <1>0, <1>1, <1>2, <1>4 DEF UiOK, Lit

\* The palette with another row lit.
LEMMA LightingIsSound ==
    ASSUME NEW u, UiOK(u), NEW i \in 0 .. N
    PROVE  LET w == [u EXCEPT !.palette = [u.palette EXCEPT !.active = i]]
           IN  /\ UiOK(w)
               /\ w.palette.active = i /\ w.palette.query = u.palette.query
               /\ w.palette.open <=> u.palette.open
<1>1. PICK p : p = [u.palette EXCEPT !.active = i]
  OBVIOUS
<1>2. u.palette \in PaletteType
  BY DEF UiOK, UiType
<1>3. p \in PaletteType /\ p.active = i /\ p.query = u.palette.query /\ p.open = u.palette.open
  BY <1>1, <1>2 DEF PaletteType
<1>4. PICK w : w = [u EXCEPT !.palette = p]
  OBVIOUS
<1>5. /\ w \in UiType /\ w.palette = p /\ w.field = u.field /\ w.rail = u.rail
      /\ w.focus = u.focus /\ w.page = u.page
  BY <1>3, <1>4 DEF UiOK, UiType
<1>6. UiOK(w)
  BY <1>3, <1>5 DEF UiOK
<1>. QED
  BY <1>1, <1>3, <1>4, <1>5, <1>6

\* The lit row stays in a list that changes under it.
LEMMA ClampLights ==
    ASSUME NEW f \in FleetType, NEW u, UiOK(u)
    PROVE  UiOK(Keys!Clamp(f, u)) /\ Lit(f, Keys!Clamp(f, u))
<1>. DEFINE n == Keys!Flat(f, u.palette.query)
            i == IF n = 0 THEN 0 ELSE n - 1
            w == [u EXCEPT !.palette = [u.palette EXCEPT !.active = i]]
<1>1. u.palette.active \in 0 .. N /\ u.palette.query \in Keys!Vehicles \cup {Nothing}
  BY DEF UiOK, UiType, PaletteType
<1>2. n \in 0 .. N + 1
  BY <1>1, FlatIsSmall
<1>3. CASE u.palette.active < n
  BY <1>3 DEF Keys!Clamp, Lit
<1>4. CASE ~(u.palette.active < n)
  <2>1. Keys!Clamp(f, u) = w
    BY <1>4 DEF Keys!Clamp
  <2>2. n = Keys!Flat(f, u.palette.query)
    OBVIOUS
  <2>. HIDE DEF n
  <2>3. i \in 0 .. N /\ (n # 0 => i < n)
    BY <1>2, NumbersAssumption
  <2>. HIDE DEF i
  <2>4. UiOK(w) /\ w.palette.active = i /\ w.palette.query = u.palette.query
    BY <2>3, LightingIsSound
  <2>. HIDE DEF w
  <2>. QED
    BY <2>1, <2>2, <2>3, <2>4 DEF Lit
<1>. QED
  BY <1>3, <1>4

\* The bindings, as a key meets them.
LEMMA FieldKeyIsSound ==
    ASSUME NEW f \in FleetType, NEW u, UiOK(u), Lit(f, u), NEW key
    PROVE  LET w == Keys!FieldKey(f, u, key) IN UiOK(w) /\ Lit(f, w)
<1>. DEFINE w == Keys!FieldKey(f, u, key)
            n == Keys!Flat(f, u.palette.query)
<1>1. w = u => UiOK(w) /\ Lit(f, w)
  OBVIOUS
<1>2. CASE u.field = "search" /\ key = "arrowdown"
  <2>0. ~u.palette.open
    BY <1>2 DEF UiOK
  <2>1. w = Keys!Step(f, u, "down")
    BY <1>2, <2>0 DEF Keys!FieldKey
  <2>. QED
    BY <2>1, StepIsSound DEF Sound, Lit
<1>3. CASE u.field = "search" /\ key = "arrowup"
  <2>0. ~u.palette.open
    BY <1>3 DEF UiOK
  <2>1. w = Keys!Step(f, u, "up")
    BY <1>3, <2>0 DEF Keys!FieldKey
  <2>. QED
    BY <2>1, StepIsSound DEF Sound, Lit
<1>4. CASE u.palette.open /\ key = "escape"
  <2>1. w = [u EXCEPT !.palette = Keys!Closed, !.field = "page"]
    BY <1>4 DEF Keys!FieldKey
  <2>. QED
    BY <2>1, LeavingIsSound
<1>5. CASE u.palette.open /\ key \in {"arrowdown", "arrowup"} /\ n # 0
  <2>. DEFINE delta == IF key = "arrowdown" THEN 1 ELSE n - 1
              i == (u.palette.active + delta) % n
              v == [u EXCEPT !.palette = [u.palette EXCEPT !.active = i]]
  <2>1. u.field = "palette"
    BY <1>5 DEF UiOK
  <2>2. w = v
    BY <1>5, <2>1 DEF Keys!FieldKey
  <2>3. u.palette.active \in 0 .. N /\ u.palette.query \in Keys!Vehicles \cup {Nothing}
    BY DEF UiOK, UiType, PaletteType
  <2>4. n \in 0 .. N + 1
    BY <2>3, FlatIsSmall
  <2>5. n = Keys!Flat(f, u.palette.query)
    OBVIOUS
  <2>. HIDE DEF n
  <2>6. u.palette.active + delta \in Int /\ n \in Nat /\ n > 0
    BY <1>5, <2>3, <2>4, NumbersAssumption
  <2>7. i \in 0 .. n - 1
    <3>. HIDE DEF delta
    <3>. QED
      BY <2>6
  <2>8. i \in 0 .. N /\ i < n
    <3>. HIDE DEF i
    <3>. QED
      BY <2>4, <2>6, <2>7, NumbersAssumption
  <2>. HIDE DEF i
  <2>9. UiOK(v) /\ v.palette.active = i /\ v.palette.query = u.palette.query
    BY <2>8, LightingIsSound
  <2>. HIDE DEF v
  <2>. QED
    BY <2>2, <2>5, <2>8, <2>9 DEF Lit
<1>6. CASE /\ ~(u.field = "search" /\ key = "arrowdown")
           /\ ~(u.field = "search" /\ key = "arrowup")
           /\ ~(u.palette.open /\ key = "escape")
           /\ ~(u.palette.open /\ key \in {"arrowdown", "arrowup"} /\ n # 0)
  <2>1. w = u
    BY <1>6 DEF Keys!FieldKey
  <2>. QED
    BY <1>1, <2>1
<1>. QED
  BY <1>2, <1>3, <1>4, <1>5, <1>6

LEMMA PageKeyIsSound ==
    ASSUME NEW f \in FleetType, NEW u, UiOK(u), Lit(f, u), NEW key
    PROVE  LET w == Keys!PageKey(f, u, key) IN UiOK(w) /\ Lit(f, w)
<1>. DEFINE w == Keys!PageKey(f, u, key)
            heard == u.page = "map" /\ Keys!Heard(u, key)
<1>1. ASSUME Sound(u, w) PROVE UiOK(w) /\ Lit(f, w)
  BY <1>1 DEF Sound, Lit
<1>2. Sound(u, u)
  BY DEF Sound
<1>3. CASE ~heard
  BY <1>1, <1>2, <1>3 DEF Keys!PageKey
<1>4. CASE heard /\ key = "/"
  <2>1. PICK v : v = [u EXCEPT !.rail = TRUE, !.field = IF u.focus THEN u.field ELSE "search"]
    OBVIOUS
  <2>2. w = v
    BY <1>4, <2>1 DEF Keys!PageKey
  <2>3. ~Keys!Typing(u) /\ u.page = "map"
    BY <1>4 DEF Keys!Heard
  <2>4. /\ v \in UiType /\ v.rail /\ v.palette = u.palette /\ v.focus = u.focus
        /\ v.field = (IF u.focus THEN u.field ELSE "search") /\ v.page = u.page
    BY <2>1 DEF UiOK, UiType
  <2>5. Sound(u, v)
    BY <2>3, <2>4 DEF UiOK, Sound, Keys!Typing
  <2>. QED
    BY <1>1, <2>2, <2>5
<1>5. CASE heard /\ key = "mod+b"
  <2>1. w = Keys!SetRail(u, ~u.rail)
    BY <1>5 DEF Keys!PageKey
  <2>2. (~u.rail) \in BOOLEAN
    OBVIOUS
  <2>. QED
    BY <1>1, <2>1, <2>2, RailIsSound
<1>6. CASE heard /\ key = "arrowdown"
  <2>1. w = Keys!Step(f, u, "down")
    BY <1>6 DEF Keys!PageKey
  <2>. QED
    BY <1>1, <2>1, StepIsSound
<1>7. CASE heard /\ key = "arrowup"
  <2>1. w = Keys!Step(f, u, "up")
    BY <1>7 DEF Keys!PageKey
  <2>. QED
    BY <1>1, <2>1, StepIsSound
<1>8. CASE heard /\ key = "escape"
  <2>1. w = Keys!Peel(u)
    BY <1>8 DEF Keys!PageKey
  <2>. QED
    BY <1>1, <2>1, PeelIsSound
<1>9. CASE heard /\ key \notin {"/", "mod+b", "arrowdown", "arrowup", "escape"}
  <2>1. w = u
    BY <1>9 DEF Keys!PageKey
  <2>. QED
    BY <1>1, <1>2, <2>1
<1>. QED
  BY <1>3, <1>4, <1>5, <1>6, <1>7, <1>8, <1>9

LEMMA ShellKeyIsSound ==
    ASSUME NEW f \in FleetType, NEW u, UiOK(u), Lit(f, u), NEW key
    PROVE  LET w == Keys!ShellKey(f, u, key) IN UiOK(w) /\ Lit(f, w)
<1>. DEFINE w == Keys!ShellKey(f, u, key)
            heard == Keys!Heard(u, key)
<1>1. ASSUME Sound(u, w) PROVE UiOK(w) /\ Lit(f, w)
  BY <1>1 DEF Sound, Lit
<1>2. Sound(u, u)
  BY DEF Sound
<1>3. CASE ~heard
  BY <1>1, <1>2, <1>3 DEF Keys!ShellKey
<1>4. CASE heard /\ key = "mod+k"
  <2>1. w = IF u.palette.open THEN u ELSE Keys!Opened(f, u)
    BY <1>4 DEF Keys!ShellKey
  <2>. QED
    BY <2>1, OpeningIsSound
<1>5. CASE heard /\ key = "f"
  <2>1. w = IF u.page = "map" THEN Keys!Blur([u EXCEPT !.focus = ~u.focus]) ELSE u
    BY <1>5 DEF Keys!ShellKey
  <2>. QED
    BY <1>1, <1>2, <2>1, FocusIsSound
<1>6. CASE heard /\ key = "escape"
  <2>1. PICK v : v = [u EXCEPT !.focus = FALSE]
    OBVIOUS
  <2>2. w = IF ~u.palette.open THEN v ELSE u
    BY <1>6, <2>1 DEF Keys!ShellKey
  <2>3. /\ v \in UiType /\ v.rail = u.rail /\ v.palette = u.palette /\ ~v.focus
        /\ v.field = u.field /\ v.page = u.page
    BY <2>1 DEF UiOK, UiType
  <2>4. Sound(u, v)
    BY <2>3 DEF UiOK, Sound
  <2>. QED
    BY <1>1, <1>2, <2>2, <2>4
<1>7. CASE heard /\ key \notin {"mod+k", "f", "escape"}
  <2>1. w = u
    BY <1>7 DEF Keys!ShellKey
  <2>. QED
    BY <1>1, <1>2, <2>1
<1>. QED
  BY <1>3, <1>4, <1>5, <1>6, <1>7

LEMMA KeyIsSound ==
    ASSUME BoardInv, NEW key
    PROVE  UiOK(Keys!After(key)) /\ Lit(fleet, Keys!After(key))
<1>. DEFINE a == Keys!FieldKey(fleet, ui, key)
            heard == IF Keys!Heard(ui, key) THEN key ELSE ""
            b == Keys!PageKey(fleet, a, heard)
<1>1. fleet \in FleetType /\ UiOK(ui) /\ Lit(fleet, ui)
  BY DEF BoardInv
<1>2. UiOK(a) /\ Lit(fleet, a)
  BY <1>1, FieldKeyIsSound
<1>. HIDE DEF a, heard
<1>3. UiOK(b) /\ Lit(fleet, b)
  BY <1>1, <1>2, PageKeyIsSound
<1>. HIDE DEF b
<1>4. LET w == Keys!ShellKey(fleet, b, heard) IN UiOK(w) /\ Lit(fleet, w)
  BY <1>1, <1>3, ShellKeyIsSound
<1>5. Keys!After(key) = Keys!ShellKey(fleet, b, heard)
  BY DEF Keys!After, a, b, heard
<1>. QED
  BY <1>4, <1>5

-----------------------------------------------------------------------------
\* The steps.

LEMMA BoardInitHolds ==
    Keys!Init => BoardInv
<1>. SUFFICES ASSUME Keys!Init PROVE BoardInv
  OBVIOUS
<1>1. fleet \in FleetType /\ railSet \in {Nothing, TRUE, FALSE}
  BY DEF Keys!Init, FleetType
<1>2. PICK wide \in BOOLEAN : ui = Keys!Visit(wide)
  BY DEF Keys!Init
<1>3. (IF railSet = Nothing THEN wide ELSE railSet) \in BOOLEAN
  BY <1>1, Zenon
<1>4. ui \in UiType /\ ui.field = "page" /\ ui.palette = Keys!Closed
  BY <1>2, <1>3, PalettesAreTyped DEF Keys!Visit, UiType
<1>. QED
  BY <1>1, <1>4, PalettesAreTyped DEF BoardInv, UiOK, Lit

LEMMA RememberedIsTyped ==
    ASSUME railSet \in {Nothing, TRUE, FALSE}, UiOK(ui'), Keys!Remember
    PROVE  railSet' \in {Nothing, TRUE, FALSE}
<1>1. ui'.rail \in BOOLEAN
  BY DEF UiOK, UiType
<1>. QED
  BY <1>1, Zenon DEF Keys!Remember

\* What the mouse does with the palette left alone.
LEMMA PointIsSound ==
    ASSUME BoardInv, NEW w, UiOK(w), Lit(fleet, w), Keys!Point(w)
    PROVE  BoardInv'
<1>1. ui' = w /\ fleet' = fleet /\ Keys!Remember
  BY DEF Keys!Point
<1>2. UiOK(ui')
  BY <1>1
<1>3. railSet' \in {Nothing, TRUE, FALSE}
  BY <1>1, <1>2, RememberedIsTyped DEF BoardInv
<1>. QED
  BY <1>1, <1>3 DEF BoardInv

LEMMA SoundIsLit ==
    ASSUME BoardInv, NEW w, Sound(ui, w)
    PROVE  UiOK(w) /\ Lit(fleet, w)
BY DEF BoardInv, Sound, Lit

LEMMA PressStep ==
    ASSUME BoardInv, NEW key, Keys!Press(key)
    PROVE  BoardInv'
<1>1. UiOK(Keys!After(key)) /\ Lit(fleet, Keys!After(key))
  BY KeyIsSound
<1>2. Keys!Point(Keys!After(key))
  BY DEF Keys!Press, Keys!Point
<1>. QED
  BY <1>1, <1>2, PointIsSound

LEMMA PageMouseStep ==
    ASSUME BoardInv,
           \/ Keys!ClickVehicle \/ Keys!ClosePanel \/ Keys!ClearFilters
           \/ \E filter \in {"all", "silent", "paused"} : Keys!Chip(filter)
           \/ \E v \in Keys!Vehicles \cup {Nothing} : Keys!Type(v)
    PROVE  BoardInv'
<1>. DEFINE Ours(w) == /\ w \in UiType /\ w.palette = ui.palette /\ ~w.palette.open
                       /\ w.page = "map" /\ w.rail = ui.rail /\ w.focus = ui.focus
                       /\ \/ w.field = "page"
                          \/ w.field = "search" /\ w.rail /\ ~w.focus
<1>1. ASSUME NEW w, Ours(w), Keys!Point(w) PROVE BoardInv'
  <2>1. Sound(ui, w)
    BY <1>1 DEF Sound, UiOK
  <2>. QED
    BY <1>1, <2>1, SoundIsLit, PointIsSound
<1>2. UiOK(ui)
  BY DEF BoardInv
<1>. HIDE DEF Ours
<1>3. CASE Keys!ClickVehicle
  <2>1. PICK v \in Keys!Listed(fleet) : Keys!Point([ui EXCEPT !.selected = v, !.field = "page"])
    BY <1>3 DEF Keys!ClickVehicle
  <2>2. v \in Keys!Vehicles
    BY DEF Keys!Listed
  <2>3. Ours([ui EXCEPT !.selected = v, !.field = "page"])
    BY <1>2, <1>3, <2>2 DEF Ours, Keys!ClickVehicle, UiOK, UiType
  <2>. QED
    BY <1>1, <2>1, <2>3
<1>4. CASE Keys!ClosePanel
  <2>1. Keys!Point([ui EXCEPT !.selected = Nothing, !.field = "page"])
    BY <1>4 DEF Keys!ClosePanel
  <2>2. Ours([ui EXCEPT !.selected = Nothing, !.field = "page"])
    BY <1>2, <1>4 DEF Ours, Keys!ClosePanel, Keys!Chrome, UiOK, UiType
  <2>. QED
    BY <1>1, <2>1, <2>2
<1>5. CASE Keys!ClearFilters
  <2>1. Keys!Point([ui EXCEPT !.search = Nothing, !.filter = "all", !.field = "page"])
    BY <1>5 DEF Keys!ClearFilters
  <2>2. Ours([ui EXCEPT !.search = Nothing, !.filter = "all", !.field = "page"])
    BY <1>2, <1>5 DEF Ours, Keys!ClearFilters, Keys!Chrome, UiOK, UiType
  <2>. QED
    BY <1>1, <2>1, <2>2
<1>6. CASE \E filter \in {"all", "silent", "paused"} : Keys!Chip(filter)
  <2>1. PICK filter \in {"all", "silent", "paused"} : Keys!Chip(filter)
    BY <1>6
  <2>. DEFINE w == [ui EXCEPT !.filter = IF ui.filter = filter THEN "all" ELSE filter,
                              !.field = "page"]
  <2>2. Keys!Point(w)
    BY <2>1 DEF Keys!Chip
  <2>3. Ours(w)
    BY <1>2, <2>1 DEF Ours, Keys!Chip, Keys!Chrome, UiOK, UiType
  <2>. QED
    BY <1>1, <2>2, <2>3
<1>7. CASE \E v \in Keys!Vehicles \cup {Nothing} : Keys!Type(v)
  <2>1. PICK v \in Keys!Vehicles \cup {Nothing} : Keys!Type(v)
    BY <1>7
  <2>2. Keys!Point([ui EXCEPT !.search = v, !.field = "search"])
    BY <2>1 DEF Keys!Type
  <2>3. Ours([ui EXCEPT !.search = v, !.field = "search"])
    BY <1>2, <2>1 DEF Ours, Keys!Type, Keys!Chrome, UiOK, UiType
  <2>. QED
    BY <1>1, <2>2, <2>3
<1>. QED
  BY <1>3, <1>4, <1>5, <1>6, <1>7

LEMMA ShellMouseStep ==
    ASSUME BoardInv, Keys!ToggleRail \/ Keys!ToggleFocus
    PROVE  BoardInv'
<1>1. UiOK(ui)
  BY DEF BoardInv
<1>2. CASE Keys!ToggleRail
  <2>1. (~ui.rail) \in BOOLEAN
    OBVIOUS
  <2>2. Sound(ui, Keys!SetRail(ui, ~ui.rail))
    BY <1>1, <2>1, RailIsSound
  <2>3. Keys!Point(Keys!SetRail(ui, ~ui.rail))
    BY <1>2 DEF Keys!ToggleRail
  <2>. QED
    BY <2>2, <2>3, SoundIsLit, PointIsSound
<1>3. CASE Keys!ToggleFocus
  <2>1. Sound(ui, Keys!Blur([ui EXCEPT !.focus = ~ui.focus]))
    BY <1>1, FocusIsSound
  <2>2. Keys!Point(Keys!Blur([ui EXCEPT !.focus = ~ui.focus]))
    BY <1>3 DEF Keys!ToggleFocus
  <2>. QED
    BY <2>1, <2>2, SoundIsLit, PointIsSound
<1>. QED
  BY <1>2, <1>3

LEMMA PaletteStep ==
    ASSUME BoardInv,
           \/ Keys!OpenPalette \/ Keys!LeavePalette \/ Keys!PointInPalette
           \/ \E v \in Keys!Vehicles \cup {Nothing} : Keys!TypeInPalette(v)
    PROVE  BoardInv'
<1>1. UiOK(ui) /\ fleet \in FleetType
  BY DEF BoardInv
<1>2. CASE Keys!OpenPalette
  BY <1>1, <1>2, OpeningIsSound, PointIsSound DEF Keys!OpenPalette
<1>3. CASE Keys!LeavePalette
  <2>1. PICK w : w = [ui EXCEPT !.palette = Keys!Closed, !.field = "page"]
    OBVIOUS
  <2>2. Keys!Point(w)
    BY <1>3, <2>1 DEF Keys!LeavePalette
  <2>3. UiOK(w) /\ Lit(fleet, w)
    BY <1>1, <2>1, LeavingIsSound
  <2>. QED
    BY <2>2, <2>3, PointIsSound
<1>4. CASE Keys!PointInPalette
  <2>. DEFINE n == Keys!Flat(fleet, ui.palette.query)
  <2>1. PICK i \in 1 .. n :
            Keys!Point([ui EXCEPT !.palette = [ui.palette EXCEPT !.active = i - 1]])
    BY <1>4 DEF Keys!PointInPalette
  <2>2. ui.palette.query \in Keys!Vehicles \cup {Nothing}
    BY <1>1 DEF UiOK, UiType, PaletteType
  <2>3. n \in 0 .. N + 1
    BY <1>1, <2>2, FlatIsSmall
  <2>4. n = Keys!Flat(fleet, ui.palette.query)
    OBVIOUS
  <2>. HIDE DEF n
  <2>5. i - 1 \in 0 .. N /\ i - 1 < n
    BY <2>3, NumbersAssumption
  <2>6. PICK j : j = i - 1
    OBVIOUS
  <2>7. PICK w : w = [ui EXCEPT !.palette = [ui.palette EXCEPT !.active = j]]
    OBVIOUS
  <2>8. UiOK(w) /\ w.palette.active = j /\ w.palette.query = ui.palette.query
    BY <1>1, <2>5, <2>6, <2>7, LightingIsSound
  <2>9. Lit(fleet, w)
    BY <2>4, <2>5, <2>6, <2>8 DEF Lit
  <2>. QED
    BY <2>1, <2>6, <2>7, <2>8, <2>9, PointIsSound
<1>5. CASE \E v \in Keys!Vehicles \cup {Nothing} : Keys!TypeInPalette(v)
  <2>1. PICK v \in Keys!Vehicles \cup {Nothing} : Keys!TypeInPalette(v)
    BY <1>5
  <2>2. PICK p : p = [ui.palette EXCEPT !.query = v]
    OBVIOUS
  <2>3. ui.palette \in PaletteType
    BY <1>1 DEF UiOK, UiType
  <2>4. p \in PaletteType /\ p.open = ui.palette.open
    BY <2>2, <2>3 DEF PaletteType
  <2>5. PICK w : w = [ui EXCEPT !.palette = p]
    OBVIOUS
  <2>6. /\ w \in UiType /\ w.palette = p /\ w.field = ui.field /\ w.page = ui.page
        /\ w.rail = ui.rail /\ w.focus = ui.focus
    BY <1>1, <2>4, <2>5 DEF UiOK, UiType
  <2>7. UiOK(w)
    BY <1>1, <2>4, <2>6 DEF UiOK
  <2>8. UiOK(Keys!Clamp(fleet, w)) /\ Lit(fleet, Keys!Clamp(fleet, w))
    BY <1>1, <2>7, ClampLights
  <2>9. Keys!Point(Keys!Clamp(fleet, w))
    BY <2>1, <2>2, <2>5 DEF Keys!TypeInPalette
  <2>. QED
    BY <2>8, <2>9, PointIsSound
<1>. QED
  BY <1>2, <1>3, <1>4, <1>5

LEMMA VisitStep ==
    ASSUME BoardInv, Keys!Run \/ Keys!Return
    PROVE  BoardInv'
<1>1. railSet \in {Nothing, TRUE, FALSE} /\ fleet \in FleetType
  BY DEF BoardInv
<1>2. fleet' = fleet /\ railSet' = railSet
  BY DEF Keys!Run, Keys!Return
<1>3. ASSUME NEW wide \in BOOLEAN
      PROVE  (IF railSet = Nothing THEN wide ELSE railSet) \in BOOLEAN
  BY <1>1, Zenon
<1>4. ASSUME NEW wide \in BOOLEAN
      PROVE  LET u == Keys!Visit(wide)
             IN u \in UiType /\ u.field = "page" /\ u.palette = Keys!Closed
  BY <1>3, PalettesAreTyped DEF Keys!Visit, UiType
<1>5. Keys!Away \in UiType /\ Keys!Away.field = "page" /\ Keys!Away.palette = Keys!Closed
  BY <1>4 DEF Keys!Away, UiType
<1>6. ui' \in UiType /\ ui'.field = "page" /\ ui'.palette = Keys!Closed
  BY <1>4, <1>5 DEF Keys!Run, Keys!Return
<1>. QED
  BY <1>1, <1>2, <1>6, PalettesAreTyped DEF BoardInv, UiOK, Lit

LEMMA RefreshStep ==
    ASSUME BoardInv, Keys!Refresh
    PROVE  BoardInv'
<1>1. UiOK(ui) /\ fleet \in FleetType /\ railSet \in {Nothing, TRUE, FALSE}
  BY DEF BoardInv
<1>2. fleet' \in FleetType
  BY <1>1 DEF Keys!Refresh, FleetType
<1>3. ui' = Keys!Clamp(fleet', ui) /\ railSet' = railSet
  BY DEF Keys!Refresh
<1>4. UiOK(ui') /\ Lit(fleet', ui')
  BY <1>1, <1>2, <1>3, ClampLights
<1>. QED
  BY <1>1, <1>2, <1>3, <1>4 DEF BoardInv

LEMMA BoardStep ==
    ASSUME BoardInv, Keys!Next
    PROVE  BoardInv'
<1>1. CASE \E key \in Keys!Keys : Keys!Press(key)
  BY <1>1, PressStep
<1>2. CASE Keys!Mouse
  BY <1>2, PageMouseStep, ShellMouseStep, PaletteStep, VisitStep DEF Keys!Mouse
<1>3. CASE Keys!Refresh
  BY <1>3, RefreshStep
<1>. QED
  BY <1>1, <1>2, <1>3 DEF Keys!Next

-----------------------------------------------------------------------------
\* One key, one answer.

LEMMA EscapeTakesOneLayer ==
    BoardInv => Keys!EscapePeels
<1>. SUFFICES ASSUME BoardInv, ~ui.palette.open
              PROVE  Keys!Cardinality(Keys!Peeled(ui, Keys!After("escape"))) <= 1
  BY DEF Keys!EscapePeels
<1>. DEFINE u == Keys!Peel(ui)
            w == Keys!After("escape")
            layers == {"selected", "search", "filter", "focus", "palette"}
<1>1. UiOK(ui)
  BY DEF BoardInv
<1>2. Keys!FieldKey(fleet, ui, "escape") = ui
  BY DEF Keys!FieldKey
<1>3. Keys!Heard(ui, "escape")
  BY DEF Keys!Heard
<1>4. PICK b : b = Keys!PageKey(fleet, ui, "escape")
  OBVIOUS
<1>5. b = ui \/ b = u
  BY <1>4 DEF Keys!PageKey
<1>6. Keys!Heard(b, "escape")
  BY DEF Keys!Heard
<1>7. Sound(ui, b)
  BY <1>1, <1>5, PeelIsSound DEF Sound
<1>8. w = [b EXCEPT !.focus = FALSE]
  BY <1>2, <1>3, <1>4, <1>6, <1>7 DEF Keys!After, Keys!ShellKey, Sound
<1>9. \E one \in layers : \A layer \in layers \ {one} : ui[layer] = w[layer]
  <2>. HIDE DEF w
  <2>1. CASE ui.focus
    <3>1. b = ui
      BY <1>5, <2>1 DEF Keys!Peel
    <3>2. \A layer \in layers \ {"focus"} : ui[layer] = w[layer]
      BY <1>1, <1>8, <3>1 DEF UiOK, UiType
    <3>. QED
      BY <3>2
  <2>2. CASE ~ui.focus
    <3>1. w.focus = ui.focus
      <4>1. w.focus = FALSE
        BY <1>7, <1>8 DEF Sound, UiOK, UiType
      <4>2. ui.focus = FALSE
        BY <1>1, <2>2 DEF UiOK, UiType
      <4>. QED
        BY <4>1, <4>2
    <3>2. \A layer \in layers \ {"focus"} : w[layer] = b[layer]
      BY <1>7, <1>8 DEF Sound, UiOK, UiType
    <3>3. \E one \in layers \ {"focus"} : \A layer \in layers \ {"focus", one} : ui[layer] = b[layer]
      <4>1. \/ b = ui
            \/ b = [ui EXCEPT !.selected = Nothing]
            \/ b = [ui EXCEPT !.search = Nothing]
            \/ b = [ui EXCEPT !.filter = "all"]
        BY <1>5 DEF Keys!Peel
      <4>. QED
        BY <1>1, <4>1 DEF UiOK, UiType
    <3>. QED
      BY <3>1, <3>2, <3>3
  <2>. QED
    BY <2>1, <2>2
<1>10. PICK one \in layers : \A layer \in layers \ {one} : ui[layer] = w[layer]
  BY <1>9
<1>11. Keys!Peeled(ui, w) \subseteq {one}
  BY <1>10 DEF Keys!Peeled
<1>12. IsFiniteSet({one}) /\ Cardinality({one}) = 1
  BY FS_Singleton
<1>13. Cardinality(Keys!Peeled(ui, w)) <= 1
  BY <1>11, <1>12, FS_Subset
<1>14. \A S : Keys!Cardinality(S) = Cardinality(S)
  BY DEF Keys!Cardinality, Cardinality
<1>. QED
  BY <1>13, <1>14

LEMMA ArrowTakesOneStep ==
    BoardInv => Keys!ArrowStepsOne
<1>. SUFFICES ASSUME BoardInv, ui.page = "map", ~ui.palette.open,
                     NEW key \in {"arrowdown", "arrowup"},
                     NEW way, way = IF key = "arrowdown" THEN "down" ELSE "up"
              PROVE  Keys!After(key).selected = Keys!Step(fleet, ui, way).selected
  BY DEF Keys!ArrowStepsOne
<1>1. UiOK(ui) /\ fleet \in FleetType
  BY DEF BoardInv
<1>. DEFINE step == Keys!Step(fleet, ui, way)
<1>2. step.field = ui.field /\ step.palette = ui.palette
  BY <1>1, StepIsSound DEF Sound
<1>3. CASE ui.field = "search"
  <2>1. ~Keys!Heard(ui, key)
    BY <1>3 DEF Keys!Heard, Keys!Typing
  <2>2. Keys!FieldKey(fleet, ui, key) = step
    BY <1>3 DEF Keys!FieldKey
  <2>3. ~Keys!Heard(step, "")
    BY <1>2, <1>3 DEF Keys!Heard, Keys!Typing
  <2>4. Keys!PageKey(fleet, step, "") = step
    BY <2>3 DEF Keys!PageKey
  <2>5. Keys!ShellKey(fleet, step, "") = step
    BY <2>3 DEF Keys!ShellKey
  <2>6. Keys!After(key) = step
    BY <2>1, <2>2, <2>4, <2>5 DEF Keys!After
  <2>. QED
    BY <2>6
<1>4. CASE ui.field = "page"
  <2>1. Keys!Heard(ui, key)
    BY <1>4 DEF Keys!Heard, Keys!Typing
  <2>2. Keys!FieldKey(fleet, ui, key) = ui
    BY <1>4 DEF Keys!FieldKey
  <2>3. Keys!PageKey(fleet, ui, key) = step
    BY <2>1 DEF Keys!PageKey
  <2>4. Keys!ShellKey(fleet, step, key) = step
    BY DEF Keys!ShellKey
  <2>5. Keys!After(key) = step
    BY <2>1, <2>2, <2>3, <2>4 DEF Keys!After
  <2>. QED
    BY <2>5
<1>5. ui.field = "search" \/ ui.field = "page"
  BY <1>1 DEF UiOK, UiType
<1>. QED
  BY <1>3, <1>4, <1>5

-----------------------------------------------------------------------------
(* The order form.                                                         *)

OrderInv == Order!TypeOK /\ Order!InheritedIsTheirs

FormType == [customer : Customers \cup {Unknown}, location : Order!Point, inherited : BOOLEAN]

LEMMA OrderInitHolds == Order!Init => OrderInv
<1>. SUFFICES ASSUME Order!Init PROVE OrderInv
  OBVIOUS
<1>. USE NumbersAssumption DEF Order!Init
<1>1. form \in FormType /\ ~form.inherited
  BY DEF FormType, Order!Blank, Order!Point
<1>2. dialogs \in [{"mine", "other"} -> Order!Dialog]
  BY DEF Order!Shut, Order!Dialog, Order!Point
<1>3. Order!Cardinality(orders) <= MaxOrders
  <2>1. \A S : Order!Cardinality(S) = Cardinality(S)
    BY DEF Order!Cardinality, Cardinality
  <2>2. MaxOrders \in Nat
    OBVIOUS
  <2>. QED
    BY <2>1, <2>2, FS_EmptySet
<1>4. edits \in 0 .. MaxEdits
  <2>1. MaxEdits \in Nat
    OBVIOUS
  <2>. QED
    BY <2>1
<1>5. Order!TypeOK
  BY <1>1, <1>2, <1>3, <1>4 DEF Order!TypeOK, FormType
<1>. QED
  BY <1>1, <1>5 DEF OrderInv, Order!InheritedIsTheirs

\* A point is adopted, or taken away, or left: what the form calls inherited
\* is the point it was given, and a point set by hand stays.
LEMMA AdoptIsSound ==
    ASSUME NEW f \in FormType, f.inherited => f.location # NoPoint,
           NEW point \in Order!Point \cup {Unknown}, NEW g, g = Order!Adopt(f, point)
    PROVE  /\ g \in FormType /\ g.customer = f.customer
           /\ g.inherited => g.location # NoPoint
           /\ g.inherited /\ point # Unknown => g.location = point
           /\ f.location # NoPoint /\ ~f.inherited => g.location = f.location /\ ~g.inherited
<1>1. NoPoint \in Order!Point
  BY DEF Order!Point
<1>2. CASE point = Unknown \/ (f.location # NoPoint /\ ~f.inherited)
  <2>1. g = f
    BY <1>2 DEF Order!Adopt
  <2>. QED
    BY <1>2, <2>1
<1>3. CASE ~(point = Unknown \/ (f.location # NoPoint /\ ~f.inherited)) /\ point # NoPoint
  <2>1. g = [f EXCEPT !.location = point, !.inherited = TRUE]
    BY <1>3 DEF Order!Adopt
  <2>2. g \in FormType /\ g.customer = f.customer /\ g.location = point /\ g.inherited
    BY <1>3, <2>1 DEF FormType
  <2>. QED
    BY <1>3, <2>2
<1>4. CASE ~(point = Unknown \/ (f.location # NoPoint /\ ~f.inherited)) /\ point = NoPoint
  <2>1. CASE f.inherited
    <3>1. g = [f EXCEPT !.location = NoPoint, !.inherited = FALSE]
      BY <1>4, <2>1 DEF Order!Adopt
    <3>2. g \in FormType /\ g.customer = f.customer /\ g.location = NoPoint /\ ~g.inherited
      BY <1>1, <3>1 DEF FormType
    <3>. QED
      BY <1>4, <2>1, <3>2
  <2>2. CASE ~f.inherited
    <3>1. g = f
      BY <1>4, <2>2 DEF Order!Adopt
    <3>. QED
      BY <1>4, <2>2, <3>1
  <2>. QED
    BY <2>1, <2>2
<1>. QED
  BY <1>2, <1>3, <1>4

\* A render with the list it was given.
LEMMA RenderIsSound ==
    ASSUME OrderInv, NEW c \in Customers \cup {Unknown}, NEW file \in Order!File,
           Order!Render(c, file)
    PROVE  /\ form' \in FormType /\ form'.customer = c
           /\ form'.inherited => form'.location # NoPoint
           /\ form'.inherited /\ Order!Selected(file, c) # Unknown
                 => form'.location = file[c]
           /\ form.location # NoPoint /\ ~form.inherited
                 => form'.location = form.location /\ ~form'.inherited
<1>1. /\ form \in FormType /\ (form.inherited => form.location # NoPoint)
      /\ Order!InheritedIsTheirs
  BY DEF OrderInv, Order!TypeOK, FormType
<1>. DEFINE before == <<form.customer, Order!Selected(cache, form.customer)>>
            after  == <<c, Order!Selected(file, c)>>
            f      == [form EXCEPT !.customer = c]
<1>2. /\ f \in FormType /\ f.customer = c /\ f.location = form.location
      /\ f.inherited = form.inherited
  BY <1>1 DEF FormType
<1>3. Order!Selected(file, c) \in Order!Point \cup {Unknown}
  BY DEF Order!Selected, Order!File
<1>4. Order!Selected(file, c) # Unknown => Order!Selected(file, c) = file[c]
  BY DEF Order!Selected
<1>5. form' = IF before = after THEN f ELSE Order!Adopt(f, Order!Selected(file, c))
  BY DEF Order!Render
<1>. HIDE DEF f
<1>6. CASE before = after
  <2>1. form' = f /\ c = form.customer
        /\ Order!Selected(cache, form.customer) = Order!Selected(file, c)
    BY <1>5, <1>6
  <2>2. form.inherited /\ Order!Selected(file, c) # Unknown => form.location = file[c]
    BY <1>1, <1>4, <2>1 DEF Order!InheritedIsTheirs, Order!Selected
  <2>. QED
    BY <1>1, <1>2, <2>1, <2>2
<1>7. CASE before # after
  <2>1. form' = Order!Adopt(f, Order!Selected(file, c))
    BY <1>5, <1>7
  <2>2. f.inherited => f.location # NoPoint
    BY <1>1, <1>2
  <2>3. /\ form' \in FormType /\ form'.customer = f.customer
        /\ form'.inherited => form'.location # NoPoint
        /\ form'.inherited /\ Order!Selected(file, c) # Unknown
              => form'.location = Order!Selected(file, c)
        /\ f.location # NoPoint /\ ~f.inherited
              => form'.location = f.location /\ ~form'.inherited
    BY <1>2, <1>3, <2>1, <2>2, AdoptIsSound
  <2>. QED
    BY <1>2, <1>4, <2>3
<1>. QED
  BY <1>6, <1>7

\* What the form's steps keep of the form.
FormKept ==
    /\ form' \in FormType
    /\ form'.inherited => form'.location # NoPoint
    /\ Order!InheritedIsTheirs'
    /\ Order!PickedStaysStep

LEMMA FormStep ==
    ASSUME OrderInv, Order!Next
    PROVE  FormKept
<1>1. /\ form \in FormType /\ (form.inherited => form.location # NoPoint)
      /\ Order!InheritedIsTheirs /\ cache \in Order!File /\ customers \in Order!File
  BY DEF OrderInv, Order!TypeOK, FormType
<1>2. ASSUME UNCHANGED <<form, cache>> PROVE FormKept
  BY <1>1, <1>2 DEF FormKept, Order!InheritedIsTheirs, Order!PickedStaysStep, Order!Selected
<1>3. ASSUME NEW c \in Customers \cup {Unknown}, NEW file \in Order!File,
             cache' = file, Order!Render(c, file)
      PROVE  FormKept
  <2>1. /\ form' \in FormType /\ form'.customer = c
        /\ form'.inherited => form'.location # NoPoint
        /\ form'.inherited /\ Order!Selected(file, c) # Unknown => form'.location = file[c]
        /\ form.location # NoPoint /\ ~form.inherited
              => form'.location = form.location /\ ~form'.inherited
    BY <1>3, RenderIsSound
  <2>2. Order!InheritedIsTheirs'
    BY <1>3, <2>1 DEF Order!InheritedIsTheirs, Order!Selected
  <2>. QED
    BY <2>1, <2>2 DEF FormKept, Order!PickedStaysStep
<1>4. ASSUME NEW c \in Customers \cup {Unknown}, Order!Choose(c) PROVE FormKept
  BY <1>1, <1>3, <1>4 DEF Order!Choose
<1>5. ASSUME NEW p \in Order!Point, Order!Pick(p) PROVE FormKept
  <2>1. form' = [form EXCEPT !.location = p, !.inherited = FALSE]
    BY <1>5 DEF Order!Pick
  <2>2. form' \in FormType /\ ~form'.inherited
    BY <1>1, <2>1 DEF FormType
  <2>. QED
    BY <1>5, <2>2 DEF FormKept, Order!InheritedIsTheirs, Order!PickedStaysStep
<1>6. CASE Order!Submit
  <2>1. form' = Order!Blank
    BY <1>6 DEF Order!Submit
  <2>2. form' \in FormType /\ ~form'.inherited
    BY <2>1 DEF FormType, Order!Blank, Order!Point
  <2>. QED
    BY <2>1, <2>2 DEF FormKept, Order!InheritedIsTheirs, Order!PickedStaysStep
<1>7. CASE Order!Refetch
  BY <1>1, <1>3, <1>7 DEF Order!Refetch, FormType
<1>8. ASSUME NEW d \in {"mine", "other"}, Order!InDialog(d) PROVE FormKept
  <2>1. CASE Order!SaveNew(d) /\ d = "mine"
    BY <1>1, <1>3, <2>1 DEF Order!SaveNew
  <2>2. CASE ~(Order!SaveNew(d) /\ d = "mine")
    <3>1. UNCHANGED <<form, cache>>
      BY <1>8, <2>2 DEF Order!InDialog, Order!Open, Order!PickInDialog, Order!Cancel,
                        Order!SaveNew, Order!SaveEdit
    <3>. QED
      BY <1>2, <3>1
  <2>. QED
    BY <2>1, <2>2
<1>. QED
  BY <1>4, <1>5, <1>6, <1>7, <1>8 DEF Order!Next

LEMMA OrderStep ==
    ASSUME OrderInv, Order!Next
    PROVE  OrderInv' /\ Order!PickedStaysStep
<1>1. /\ customers \in Order!File /\ cache \in Order!File
      /\ dialogs \in [{"mine", "other"} -> Order!Dialog]
      /\ form \in FormType /\ stale \in BOOLEAN /\ edits \in 0 .. MaxEdits
  BY DEF OrderInv, Order!TypeOK, FormType
<1>2. FormKept
  BY FormStep
<1>3. orders' \subseteq [customer : Customers, location : Order!Point, own : BOOLEAN]
      /\ Order!Cardinality(orders') <= MaxOrders
  <2>1. CASE Order!Submit
    <3>1. form.customer \in Customers /\ form.location \in Order!Point
      BY <1>1, <2>1 DEF Order!Submit, FormType
    <3>. DEFINE c == form.customer
                mine == form.inherited => form.location \in {cache[c], customers[c]}
                row == [customer |-> c, location |-> form.location, own |-> mine]
    <3>2. orders' = orders \cup {row} /\ Order!Cardinality(orders') <= MaxOrders
      BY <2>1, Zenon DEF Order!Submit
    <3>3. mine \in BOOLEAN
      BY Zenon
    <3>. HIDE DEF mine
    <3>4. row \in [customer : Customers, location : Order!Point, own : BOOLEAN]
      BY <3>1, <3>3
    <3>. HIDE DEF row
    <3>. QED
      BY <3>2, <3>4 DEF OrderInv, Order!TypeOK
  <2>2. CASE ~Order!Submit
    <3>1. orders' = orders
      BY <2>2 DEF Order!Next, Order!Choose, Order!Pick, Order!Refetch, Order!InDialog,
                  Order!Open, Order!PickInDialog, Order!Cancel, Order!SaveNew,
                  Order!SaveEdit
    <3>. QED
      BY <3>1 DEF OrderInv, Order!TypeOK
  <2>. QED
    BY <2>1, <2>2
<1>4. stale' \in BOOLEAN
  BY <1>1, Zenon DEF Order!Next, Order!Choose, Order!Pick, Order!Submit, Order!Refetch, Order!InDialog,
         Order!Open, Order!PickInDialog, Order!Cancel, Order!SaveNew, Order!SaveEdit
<1>5. ASSUME NEW c \in Customers, NEW p \in Order!Point \cup {Unknown}, Order!PutOnFile(c, p)
      PROVE  customers' \in Order!File /\ edits' \in 0 .. MaxEdits
  BY <1>1, <1>5, NumbersAssumption DEF Order!PutOnFile, Order!File
<1>6. NoPoint \in Order!Point /\ Order!Shut \in Order!Dialog
  BY DEF Order!Point, Order!Shut, Order!Dialog
<1>7. customers' \in Order!File /\ edits' \in 0 .. MaxEdits
      /\ dialogs' \in [{"mine", "other"} -> Order!Dialog]
  <2>1. ASSUME NEW d \in {"mine", "other"}, Order!InDialog(d)
        PROVE  customers' \in Order!File /\ edits' \in 0 .. MaxEdits
               /\ dialogs' \in [{"mine", "other"} -> Order!Dialog]
    <3>1. dialogs[d].location \in Order!Point
      BY <1>1 DEF Order!Dialog
    <3>2. ASSUME NEW target \in {"new"} \cup Customers, Order!Open(d, target)
          PROVE  dialogs' \in [{"mine", "other"} -> Order!Dialog]
      <4>1. PICK l \in Order!Point :
                dialogs' = [dialogs EXCEPT ![d] = [open |-> target, location |-> l]]
        BY <1>1, <1>6, <3>2 DEF Order!Open, Order!File
      <4>2. [open |-> target, location |-> l] \in Order!Dialog
        BY <3>2 DEF Order!Dialog
      <4>. QED
        BY <1>1, <4>1, <4>2
    <3>3. ASSUME NEW target \in {"new"} \cup Customers, Order!Open(d, target)
          PROVE  UNCHANGED <<customers, edits>>
      BY <3>3 DEF Order!Open
    <3>4. ASSUME NEW p \in Order!Point, Order!PickInDialog(d, p)
          PROVE  UNCHANGED <<customers, edits>>
                 /\ dialogs' \in [{"mine", "other"} -> Order!Dialog]
      BY <1>1, <3>4 DEF Order!PickInDialog, Order!Dialog
    <3>5. CASE Order!Cancel(d)
      BY <1>1, <1>6, <3>5 DEF Order!Cancel
    <3>6. CASE Order!SaveNew(d)
      <4>1. PICK c \in Customers :
                Order!PutOnFile(c, IF customers[c] = Unknown THEN dialogs[d].location
                                   ELSE customers[c])
        BY <3>6 DEF Order!SaveNew
      <4>2. (IF customers[c] = Unknown THEN dialogs[d].location ELSE customers[c])
                \in Order!Point \cup {Unknown}
        BY <1>1, <3>1 DEF Order!File
      <4>3. dialogs' \in [{"mine", "other"} -> Order!Dialog]
        BY <1>1, <1>6, <3>6 DEF Order!SaveNew
      <4>. QED
        BY <1>5, <4>1, <4>2, <4>3
    <3>7. CASE Order!SaveEdit(d)
      <4>1. customers' \in Order!File /\ edits' \in 0 .. MaxEdits
        BY <1>5, <3>1, <3>7 DEF Order!SaveEdit
      <4>2. dialogs' \in [{"mine", "other"} -> Order!Dialog]
        BY <1>1, <1>6, <3>7 DEF Order!SaveEdit
      <4>. QED
        BY <4>1, <4>2
    <3>. QED
      BY <1>1, <2>1, <3>2, <3>3, <3>4, <3>5, <3>6, <3>7 DEF Order!InDialog
  <2>2. CASE \A d \in {"mine", "other"} : ~Order!InDialog(d)
    <3>1. UNCHANGED <<customers, edits, dialogs>>
      BY <2>2 DEF Order!Next, Order!Choose, Order!Pick, Order!Submit, Order!Refetch
    <3>. QED
      BY <1>1, <3>1
  <2>. QED
    BY <2>1, <2>2
<1>8. cache' \in Order!File
  BY <1>1 DEF Order!Next, Order!Choose, Order!Pick, Order!Submit, Order!Refetch, Order!InDialog,
         Order!Open, Order!PickInDialog, Order!Cancel, Order!SaveNew, Order!SaveEdit
<1>9. Order!TypeOK'
  BY <1>2, <1>3, <1>4, <1>7, <1>8 DEF Order!TypeOK, FormKept, FormType
<1>. QED
  BY <1>2, <1>9 DEF OrderInv, FormKept

-----------------------------------------------------------------------------
(* The place search.                                                       *)

\* A sequence without its i-th element.
Without(s, i) == SubSeq(s, 1, i - 1) \o SubSeq(s, i + 1, Len(s))

LEMMA WithoutOne ==
    ASSUME NEW S, NEW s \in Seq(S), NEW i \in 1 .. Len(s)
    PROVE  /\ Without(s, i) \in Seq(S) /\ Len(Without(s, i)) = Len(s) - 1
           /\ \A j \in 1 .. Len(s) - 1 : Without(s, i)[j] = s[IF j < i THEN j ELSE j + 1]
<1>. DEFINE n == Len(s)
            before == SubSeq(s, 1, i - 1)
            after == SubSeq(s, i + 1, n)
            rest == before \o after
<1>1. n \in Nat /\ i \in 1 .. n /\ s \in [1 .. n -> S]
  OBVIOUS
<1>2. Without(s, i) = rest
  BY DEF Without
<1>3. /\ before \in Seq(S) /\ Len(before) = i - 1
      /\ \A j \in 1 .. i - 1 : before[j] = s[j]
  <2>1. \A j \in 1 .. i - 1 : s[j] \in S
    BY <1>1
  <2>2. /\ before \in Seq(S) /\ Len(before) = IF 1 <= i - 1 THEN i - 1 - 1 + 1 ELSE 0
        /\ \A j \in 1 .. i - 1 - 1 + 1 : before[j] = s[1 + j - 1]
    BY <1>1, <2>1, SubSeqProperties
  <2>. QED
    BY <1>1, <2>2
<1>4. /\ after \in Seq(S) /\ Len(after) = n - i
      /\ \A j \in 1 .. n - i : after[j] = s[i + j]
  <2>1. \A j \in i + 1 .. n : s[j] \in S
    BY <1>1
  <2>2. /\ after \in Seq(S) /\ Len(after) = IF i + 1 <= n THEN n - (i + 1) + 1 ELSE 0
        /\ \A j \in 1 .. n - (i + 1) + 1 : after[j] = s[(i + 1) + j - 1]
    BY <1>1, <2>1, SubSeqProperties
  <2>. HIDE DEF after, before, n
  <2>3. Len(after) = n - i
    <3>1. CASE i + 1 <= n
      BY <1>1, <2>2, <3>1
    <3>2. CASE ~(i + 1 <= n)
      <4>1. i = n /\ Len(after) = 0
        BY <1>1, <2>2, <3>2
      <4>. QED
        BY <1>1, <4>1
    <3>. QED
      BY <3>1, <3>2
  <2>4. ASSUME NEW j \in 1 .. n - i PROVE after[j] = s[i + j]
    <3>1. j \in 1 .. n - (i + 1) + 1 /\ (i + 1) + j - 1 = i + j
      BY <1>1
    <3>2. after[j] = s[(i + 1) + j - 1]
      BY <2>2, <3>1
    <3>. QED
      BY <3>1, <3>2
  <2>. QED
    BY <2>2, <2>3, <2>4
<1>. HIDE DEF before, after
<1>5. /\ rest \in Seq(S) /\ Len(rest) = n - 1
      /\ \A j \in 1 .. n - 1 : rest[j] = s[IF j < i THEN j ELSE j + 1]
  <2>1. /\ rest \in Seq(S) /\ Len(rest) = Len(before) + Len(after)
        /\ \A j \in 1 .. Len(before) + Len(after) :
              rest[j] = IF j <= Len(before) THEN before[j] ELSE after[j - Len(before)]
    BY <1>3, <1>4, ConcatProperties
  <2>2. ASSUME NEW j \in 1 .. n - 1 PROVE rest[j] = s[IF j < i THEN j ELSE j + 1]
    <3>1. CASE j < i
      BY <1>1, <1>3, <1>4, <2>1, <3>1
    <3>2. CASE ~(j < i)
      <4>1. j - (i - 1) \in 1 .. n - i
        BY <1>1, <3>2
      <4>2. rest[j] = after[j - (i - 1)]
        BY <1>1, <1>3, <1>4, <2>1, <3>2
      <4>3. after[j - (i - 1)] = s[i + (j - (i - 1))]
        BY <1>4, <4>1
      <4>4. i + (j - (i - 1)) = j + 1
        BY <1>1
      <4>. QED
        BY <3>2, <4>2, <4>3, <4>4
    <3>. QED
      BY <3>1, <3>2
  <2>. QED
    BY <1>1, <1>3, <1>4, <2>1, <2>2
<1>. HIDE DEF rest
<1>. QED
  BY <1>2, <1>5

\* A search that is still wanted is for what the box holds.
Wanted(requests, q) ==
    \A i \in 1 .. Len(requests) :
        requests[i].live /\ requests[i].key \in Queries => requests[i].key = q

SearchesAreWanted ==
    /\ Wanted(wire, query) /\ Wanted(queue, query) /\ Wanted(busy, query)
    /\ timer => query # Short

PlacesInv == Places!TypeOK /\ SearchesAreWanted /\ Places!NameFitsPin

PinType == [at : Spots \cup Queries \cup {Nothing}, label : Places!Keys \cup {Nothing}]

\* The types, written out.
PlacesTypes ==
    /\ query \in Queries \cup {Short}
    /\ timer \in BOOLEAN
    /\ results \in Queries \cup {Nothing}
    /\ pin \in PinType
    /\ wire \in Seq(Places!Request) /\ queue \in Seq(Places!Request)
    /\ busy \in Seq(Places!Request)
    /\ Len(busy) <= 1 /\ Len(wire) + Len(queue) + Len(busy) <= MaxAsks
    /\ since \in 0 .. Gap
    /\ places \in Seq(Places!Entry) /\ Len(places) <= CacheLimit
    /\ lookups \in 0 .. MaxFailures

LEMMA PlacesTypeOK == Places!TypeOK <=> PlacesTypes
BY DEF Places!TypeOK, PlacesTypes, PinType, Places!Asked

LEMMA PlacesTypeOKNext == Places!TypeOK' <=> PlacesTypes'
BY DEF Places!TypeOK, PlacesTypes, PinType, Places!Asked

LEMMA PlacesInitHolds == Places!Init => PlacesInv
<1>. SUFFICES ASSUME Places!Init PROVE PlacesInv
  OBVIOUS
<1>1. /\ query = Short /\ results = Nothing /\ pin = Places!NoPin
      /\ wire = <<>> /\ queue = <<>> /\ busy = <<>>
      /\ since = Gap /\ places = <<>> /\ lookups = 0
  BY DEF Places!Init
<1>2. timer \in BOOLEAN /\ ~timer
  BY Zenon DEF Places!Init
<1>3. MaxAsks \in Nat /\ Gap \in Nat /\ CacheLimit \in Nat /\ MaxFailures \in Nat
  BY NumbersAssumption
<1>4. pin \in PinType /\ pin.label = Nothing
  BY <1>1 DEF Places!NoPin, PinType
<1>5. PlacesTypes
  BY <1>1, <1>2, <1>3, <1>4 DEF PlacesTypes
<1>6. SearchesAreWanted
  BY <1>1, <1>2 DEF SearchesAreWanted, Wanted
<1>. QED
  BY <1>4, <1>5, <1>6, PlacesTypeOK DEF PlacesInv, Places!NameFitsPin

-----------------------------------------------------------------------------
\* What becomes of a list of requests.

LEMMA WantedAppend ==
    ASSUME NEW s \in Seq(Places!Request), NEW q, Wanted(s, q), NEW r \in Places!Request,
           r.live /\ r.key \in Queries => r.key = q
    PROVE  /\ Append(s, r) \in Seq(Places!Request) /\ Len(Append(s, r)) = Len(s) + 1
           /\ Wanted(Append(s, r), q)
<1>. DEFINE t == Append(s, r)
<1>1. /\ t \in Seq(Places!Request) /\ Len(t) = Len(s) + 1 /\ Len(s) \in Nat
      /\ \A i \in 1 .. Len(s) : t[i] = s[i]
      /\ t[Len(s) + 1] = r
  BY AppendProperties
<1>. HIDE DEF t
<1>2. ASSUME NEW i \in 1 .. Len(s) + 1, t[i].live, t[i].key \in Queries
      PROVE  t[i].key = q
  <2>1. CASE i \in 1 .. Len(s)
    BY <1>1, <1>2, <2>1 DEF Wanted
  <2>2. CASE i = Len(s) + 1
    BY <1>1, <1>2, <2>2
  <2>. QED
    BY <1>1, <2>1, <2>2
<1>3. Wanted(t, q)
  BY <1>1, <1>2 DEF Wanted
<1>. QED
  BY <1>1, <1>3 DEF t

LEMMA WantedRemove ==
    ASSUME NEW s \in Seq(Places!Request), NEW q, Wanted(s, q), NEW i \in 1 .. Len(s)
    PROVE  /\ Places!RemoveAt(s, i) \in Seq(Places!Request)
           /\ Len(Places!RemoveAt(s, i)) = Len(s) - 1
           /\ Wanted(Places!RemoveAt(s, i), q)
<1>. DEFINE t == Without(s, i)
<1>1. Places!RemoveAt(s, i) = t
  BY DEF Places!RemoveAt, Without
<1>2. /\ t \in Seq(Places!Request) /\ Len(t) = Len(s) - 1 /\ Len(s) \in Nat
      /\ \A j \in 1 .. Len(s) - 1 : t[j] = s[IF j < i THEN j ELSE j + 1]
  BY WithoutOne
<1>. HIDE DEF t
<1>3. ASSUME NEW j \in 1 .. Len(s) - 1
      PROVE  \E k \in 1 .. Len(s) : t[j] = s[k]
  <2>1. (IF j < i THEN j ELSE j + 1) \in 1 .. Len(s)
    BY <1>2
  <2>. QED
    BY <1>2, <2>1
<1>4. Wanted(t, q)
  BY <1>2, <1>3, ZenonT(60) DEF Wanted
<1>. QED
  BY <1>1, <1>2, <1>4

LEMMA WantedTail ==
    ASSUME NEW s \in Seq(Places!Request), NEW q, Wanted(s, q), s # <<>>
    PROVE  /\ Head(s) \in Places!Request /\ Tail(s) \in Seq(Places!Request)
           /\ Len(Tail(s)) = Len(s) - 1
           /\ Wanted(Tail(s), q) /\ Wanted(<<Head(s)>>, q)
<1>. DEFINE t == Tail(s)
<1>1. /\ Head(s) \in Places!Request /\ t \in Seq(Places!Request) /\ Len(s) \in Nat \ {0}
      /\ Len(t) = Len(s) - 1 /\ Head(s) = s[1]
      /\ \A i \in 1 .. Len(s) - 1 : t[i] = s[i + 1]
  OBVIOUS
<1>. HIDE DEF t
<1>2. ASSUME NEW i \in 1 .. Len(s) - 1
      PROVE  i + 1 \in 1 .. Len(s) /\ t[i] = s[i + 1]
  BY <1>1
<1>3. Wanted(t, q)
  BY <1>1, <1>2 DEF Wanted
<1>4. Wanted(<<Head(s)>>, q)
  BY <1>1 DEF Wanted
<1>. QED
  BY <1>1, <1>3, <1>4 DEF t

\* A list whose searches were cancelled is wanted whatever the box holds.
LEMMA WantedCancelled ==
    ASSUME NEW s \in Seq(Places!Request), NEW q
    PROVE  /\ Places!Unwanted(s) \in Seq(Places!Request)
           /\ Len(Places!Unwanted(s)) = Len(s)
           /\ Wanted(Places!Unwanted(s), q)
<1>. DEFINE t == Places!Unwanted(s)
            Given(i) == IF s[i].key \in Queries THEN [s[i] EXCEPT !.live = FALSE] ELSE s[i]
<1>1. Len(s) \in Nat /\ s \in [1 .. Len(s) -> Places!Request] /\ DOMAIN s = 1 .. Len(s)
  OBVIOUS
<1>2. ASSUME NEW i \in 1 .. Len(s)
      PROVE  Given(i) \in Places!Request /\ (Given(i).live => Given(i).key \notin Queries)
  <2>1. s[i] \in Places!Request
    BY <1>1
  <2>. QED
    BY <2>1 DEF Places!Request
<1>3. t = [i \in 1 .. Len(s) |-> Given(i)]
  BY <1>1 DEF Places!Unwanted
<1>. HIDE DEF Given, t
<1>4. t \in [1 .. Len(s) -> Places!Request]
  BY <1>2, <1>3
<1>5. t \in Seq(Places!Request) /\ Len(t) = Len(s)
  BY <1>1, <1>3, <1>4
<1>6. Wanted(t, q)
  BY <1>2, <1>3, <1>5 DEF Wanted
<1>. QED
  BY <1>5, <1>6 DEF t

-----------------------------------------------------------------------------
\* The page's end of an answer.
LEMMA LandIsSound ==
    ASSUME PlacesTypes, Places!NameFitsPin, NEW a \in Places!Request, NEW found \in BOOLEAN,
           a.live /\ a.key \in Queries => a.key = query, query' = query,
           Places!Land(a, found)
    PROVE  /\ results' \in Queries \cup {Nothing} /\ Places!NoLateResultsStep
           /\ pin' \in PinType /\ Places!NameFitsPin'
<1>1. a.key \in Places!Keys
  BY DEF Places!Request
<1>2. results' \in Queries \cup {Nothing} /\ Places!NoLateResultsStep
  BY DEF PlacesTypes, Places!Land, Places!NoLateResultsStep
<1>3. CASE a.key \in Spots /\ found /\ pin.at = a.key
  <2>1. pin' = [pin EXCEPT !.label = a.key]
    BY <1>3 DEF Places!Land, Places!Named
  <2>2. pin' \in PinType /\ pin'.label = a.key /\ pin'.at = a.key
    BY <1>1, <1>3, <2>1 DEF PlacesTypes, PinType
  <2>. QED
    BY <1>2, <2>2 DEF Places!NameFitsPin
<1>4. CASE ~(a.key \in Spots /\ found /\ pin.at = a.key)
  <2>1. pin' = pin
    BY <1>4 DEF Places!Land, Places!Named
  <2>. QED
    BY <1>2, <2>1 DEF PlacesTypes, Places!NameFitsPin
<1>. QED
  BY <1>3, <1>4

\* What is found, or not, is remembered.
LEMMA RememberIsSound ==
    ASSUME PlacesTypes, NEW key \in Places!Keys, NEW found \in BOOLEAN,
           Places!Remember(key, found)
    PROVE  places' \in Seq(Places!Entry) /\ Len(places') <= CacheLimit
<1>. DEFINE e == [key |-> key, found |-> found]
            over == [i \in DOMAIN places |-> IF places[i].key = key THEN e ELSE places[i]]
            new == IF Places!Cached(key) = {} THEN Append(places, e) ELSE over
<1>1. e \in Places!Entry
  BY DEF Places!Entry
<1>2. places \in Seq(Places!Entry) /\ Len(places) <= CacheLimit /\ Len(places) \in Nat
      /\ CacheLimit \in Nat
  BY NumbersAssumption DEF PlacesTypes
<1>3. places' = IF Len(new) > CacheLimit THEN Tail(new) ELSE new
  BY DEF Places!Remember
<1>. HIDE DEF e
<1>4. over \in Seq(Places!Entry) /\ Len(over) = Len(places)
  <2>1. DOMAIN places = 1 .. Len(places) /\ places \in [1 .. Len(places) -> Places!Entry]
    BY <1>2
  <2>2. over \in [1 .. Len(places) -> Places!Entry]
    BY <1>1, <2>1
  <2>. QED
    BY <1>2, <2>2
<1>5. Append(places, e) \in Seq(Places!Entry) /\ Len(Append(places, e)) = Len(places) + 1
  BY <1>1, <1>2, AppendProperties
<1>. HIDE DEF over
<1>6. new \in Seq(Places!Entry) /\ Len(new) \in Nat /\ Len(new) <= CacheLimit + 1
  BY <1>2, <1>4, <1>5
<1>. HIDE DEF new
<1>7. CASE Len(new) > CacheLimit
  <2>1. new # <<>>
    BY <1>2, <1>7
  <2>2. Tail(new) \in Seq(Places!Entry) /\ Len(Tail(new)) = Len(new) - 1
    BY <1>6, <2>1
  <2>. QED
    BY <1>2, <1>3, <1>6, <1>7, <2>2
<1>8. CASE ~(Len(new) > CacheLimit)
  BY <1>2, <1>3, <1>6, <1>8
<1>. QED
  BY <1>7, <1>8

LEMMA PlacesStep ==
    ASSUME PlacesInv, Places!Next
    PROVE  PlacesInv' /\ Places!NoLateResultsStep
<1>0. PlacesTypes /\ Places!NameFitsPin /\ SearchesAreWanted
  BY PlacesTypeOK DEF PlacesInv
<1>. DEFINE Goal == PlacesTypes' /\ SearchesAreWanted' /\ Places!NameFitsPin'
                    /\ Places!NoLateResultsStep
<1>1. /\ Len(wire) \in Nat /\ Len(queue) \in Nat /\ Len(busy) \in Nat
      /\ MaxAsks \in Nat /\ Gap \in Nat /\ CacheLimit \in Nat /\ MaxFailures \in Nat
  <2>1. Len(wire) \in Nat /\ Len(queue) \in Nat /\ Len(busy) \in Nat
    BY <1>0 DEF PlacesTypes
  <2>2. MaxAsks \in Nat /\ Gap \in Nat /\ CacheLimit \in Nat /\ MaxFailures \in Nat
    BY NumbersAssumption
  <2>. QED
    BY <2>1, <2>2
<1>2. /\ Wanted(wire, query) /\ Wanted(queue, query) /\ Wanted(busy, query)
  BY <1>0 DEF SearchesAreWanted
<1>3. ASSUME Places!CancelSearches
      PROVE  /\ wire' \in Seq(Places!Request) /\ queue' \in Seq(Places!Request)
             /\ busy' \in Seq(Places!Request)
             /\ Len(busy') = Len(busy) /\ Len(wire') = Len(wire) /\ Len(queue') = Len(queue)
             /\ \A q : Wanted(wire', q) /\ Wanted(queue', q) /\ Wanted(busy', q)
  BY <1>0, <1>3, WantedCancelled DEF Places!CancelSearches, PlacesTypes
<1>4. ASSUME NEW q \in Queries \cup {Short}, Places!Type(q) PROVE Goal
  <2>1. /\ query' = q /\ results' \in {results, Nothing}
        /\ UNCHANGED <<pin, since, places, lookups>> /\ Places!CancelSearches
    BY <1>4 DEF Places!Type
  <2>2. timer' \in BOOLEAN /\ (timer' => q # Short)
    BY <1>4, Zenon DEF Places!Type
  <2>3. Places!NoLateResultsStep
    BY <2>1 DEF Places!NoLateResultsStep
  <2>4. SearchesAreWanted'
    BY <1>3, <2>1, <2>2 DEF SearchesAreWanted
  <2>. QED
    BY <1>0, <1>3, <2>1, <2>2, <2>3, <2>4 DEF PlacesTypes, Places!NameFitsPin
<1>5. ASSUME NEW key \in Places!Keys, Places!Ask(key), key \in Queries => key = query
      PROVE  /\ wire' \in Seq(Places!Request) /\ Len(wire') = Len(wire) + 1
             /\ Wanted(wire', query)
             /\ Len(wire') + Len(queue) + Len(busy) <= MaxAsks
  <2>. DEFINE r == [key |-> key, live |-> TRUE]
  <2>1. r \in Places!Request /\ r.key = key
    BY DEF Places!Request
  <2>2. wire' = Append(wire, r) /\ Len(wire) + Len(queue) + Len(busy) < MaxAsks
    BY <1>5 DEF Places!Ask, Places!Asked
  <2>. HIDE DEF r
  <2>3. /\ wire' \in Seq(Places!Request) /\ Len(wire') = Len(wire) + 1
        /\ Wanted(wire', query)
    BY <1>0, <1>2, <1>5, <2>1, <2>2, WantedAppend DEF PlacesTypes
  <2>. QED
    BY <1>1, <2>2, <2>3
<1>6. ASSUME Places!TimerFires PROVE Goal
  <2>1. /\ query \in Queries /\ query \in Places!Keys
        /\ Places!Ask(query) /\ UNCHANGED <<query, results, pin, queue, busy, since, places, lookups>>
    BY <1>0, <1>6 DEF Places!TimerFires, SearchesAreWanted, PlacesTypes, Places!Keys
  <2>2. timer' \in BOOLEAN /\ ~timer'
    BY <1>6, Zenon DEF Places!TimerFires
  <2>3. /\ wire' \in Seq(Places!Request) /\ Wanted(wire', query)
        /\ Len(wire') + Len(queue) + Len(busy) <= MaxAsks
    BY <1>5, <2>1
  <2>. QED
    BY <1>0, <1>2, <2>1, <2>2, <2>3
       DEF PlacesTypes, SearchesAreWanted, Places!NameFitsPin, Places!NoLateResultsStep
<1>7. ASSUME Places!Choose PROVE Goal
  <2>1. /\ results \in Queries /\ query' = Short /\ results' = Nothing
        /\ pin' = [at |-> results, label |-> results]
        /\ UNCHANGED <<since, places, lookups>> /\ Places!CancelSearches
    BY <1>0, <1>7 DEF Places!Choose, PlacesTypes
  <2>2. timer' \in BOOLEAN /\ ~timer'
    BY <1>7, Zenon DEF Places!Choose
  <2>3. pin' \in PinType /\ pin'.label = pin'.at
    BY <2>1 DEF PinType, Places!Keys
  <2>4. SearchesAreWanted'
    BY <1>3, <2>1, <2>2 DEF SearchesAreWanted
  <2>. QED
    BY <1>0, <1>3, <2>1, <2>2, <2>3, <2>4
       DEF PlacesTypes, Places!NameFitsPin, Places!NoLateResultsStep
<1>8. ASSUME NEW s \in Spots, Places!Drop(s) PROVE Goal
  <2>1. /\ pin' = [at |-> s, label |-> Nothing] /\ Places!Ask(s)
        /\ UNCHANGED <<query, timer, results, queue, busy, since, places, lookups>>
    BY <1>8 DEF Places!Drop
  <2>2. s \in Places!Keys /\ s \notin Queries
    BY PlacesAssumption DEF Places!Keys
  <2>3. pin' \in PinType /\ pin'.label = Nothing
    BY <2>1 DEF PinType
  <2>4. /\ wire' \in Seq(Places!Request) /\ Wanted(wire', query)
        /\ Len(wire') + Len(queue) + Len(busy) <= MaxAsks
    BY <1>5, <2>1, <2>2
  <2>. QED
    BY <1>0, <1>2, <2>1, <2>3, <2>4
       DEF PlacesTypes, SearchesAreWanted, Places!NameFitsPin, Places!NoLateResultsStep
<1>9. ASSUME Places!Unpin PROVE Goal
  <2>1. pin' \in PinType /\ pin'.label = Nothing
    BY <1>9 DEF Places!Unpin, Places!NoPin, PinType
  <2>. QED
    BY <1>0, <1>9, <2>1 DEF Places!Unpin, PlacesTypes, SearchesAreWanted,
                            Places!NameFitsPin, Places!NoLateResultsStep
<1>10. ASSUME NEW i \in DOMAIN wire, Places!Receive(i) PROVE Goal
  <2>1. /\ i \in 1 .. Len(wire) /\ wire[i] \in Places!Request
        /\ wire[i].live /\ wire[i].key \in Queries => wire[i].key = query
    BY <1>0, <1>2 DEF PlacesTypes, Wanted
  <2>2. wire' = Places!RemoveAt(wire, i) /\ UNCHANGED <<query, timer, busy, since, places, lookups>>
    BY <1>10 DEF Places!Receive
  <2>3. /\ wire' \in Seq(Places!Request) /\ Len(wire') = Len(wire) - 1
        /\ Wanted(wire', query)
    BY <1>0, <1>2, <2>1, <2>2, WantedRemove DEF PlacesTypes
  <2>4. CASE Places!Cached(wire[i].key) # {}
    <3>1. PICK e \in Places!Cached(wire[i].key) : Places!Land(wire[i], e.found)
      BY <1>10, <2>4 DEF Places!Receive
    <3>2. queue' = queue
      BY <1>10, <2>4 DEF Places!Receive
    <3>3. e.found \in BOOLEAN
      <4>1. e \in Places!Entry
        BY <1>0 DEF Places!Cached, Places!Range, PlacesTypes
      <4>. QED
        BY <4>1 DEF Places!Entry
    <3>4. /\ results' \in Queries \cup {Nothing} /\ Places!NoLateResultsStep
          /\ pin' \in PinType /\ Places!NameFitsPin'
      BY <1>0, <2>1, <2>2, <3>1, <3>3, LandIsSound
    <3>. QED
      BY <1>0, <1>1, <1>2, <2>2, <2>3, <3>2, <3>4 DEF PlacesTypes, SearchesAreWanted
  <2>5. CASE Places!Cached(wire[i].key) = {}
    <3>1. queue' = Append(queue, wire[i]) /\ UNCHANGED <<results, pin>>
      BY <1>10, <2>5 DEF Places!Receive
    <3>2. /\ queue' \in Seq(Places!Request) /\ Len(queue') = Len(queue) + 1
          /\ Wanted(queue', query)
      BY <1>0, <1>2, <2>1, <3>1, WantedAppend DEF PlacesTypes
    <3>. QED
      BY <1>0, <1>1, <1>2, <2>2, <2>3, <3>1, <3>2
         DEF PlacesTypes, SearchesAreWanted, Places!NameFitsPin, Places!NoLateResultsStep
  <2>. QED
    BY <2>4, <2>5
<1>11. ASSUME Places!Begin PROVE Goal
  <2>1. /\ queue # <<>> /\ busy = <<>> /\ busy' = <<Head(queue)>> /\ queue' = Tail(queue)
        /\ since' = 0 /\ UNCHANGED <<query, timer, results, pin, wire, places, lookups>>
    BY <1>11 DEF Places!Begin
  <2>2. /\ Head(queue) \in Places!Request /\ queue' \in Seq(Places!Request)
        /\ Len(queue') = Len(queue) - 1
        /\ Wanted(queue', query) /\ Wanted(busy', query)
    BY <1>0, <1>2, <2>1, WantedTail DEF PlacesTypes
  <2>3. busy' \in Seq(Places!Request) /\ Len(busy') = 1 /\ Len(busy) = 0
    BY <2>1, <2>2
  <2>. QED
    BY <1>0, <1>1, <1>2, <2>1, <2>2, <2>3
       DEF PlacesTypes, SearchesAreWanted, Places!NameFitsPin, Places!NoLateResultsStep
<1>12. ASSUME Places!Tick PROVE Goal
  BY <1>0, <1>1, <1>12 DEF Places!Tick, PlacesTypes, SearchesAreWanted, Places!NameFitsPin,
                           Places!NoLateResultsStep
<1>13. ASSUME NEW found \in BOOLEAN, Places!Finish(found) PROVE Goal
  <2>1. /\ busy # <<>> /\ busy' = <<>> /\ UNCHANGED <<query, timer, wire, queue, since>>
        /\ Places!Remember(busy[1].key, found) /\ Places!Land(busy[1], found)
    BY <1>13 DEF Places!Finish
  <2>2. lookups' \in 0 .. MaxFailures
    BY <1>0, <1>1, <1>13 DEF Places!Finish, PlacesTypes
  <2>3. 1 \in 1 .. Len(busy) /\ busy[1] \in Places!Request
    BY <1>0, <2>1 DEF PlacesTypes
  <2>4. busy[1].live /\ busy[1].key \in Queries => busy[1].key = query
    BY <1>2, <2>3 DEF Wanted
  <2>5. busy[1].key \in Places!Keys
    BY <2>3 DEF Places!Request
  <2>6. places' \in Seq(Places!Entry) /\ Len(places') <= CacheLimit
    BY <1>0, <2>1, <2>5, RememberIsSound
  <2>7. /\ results' \in Queries \cup {Nothing} /\ Places!NoLateResultsStep
        /\ pin' \in PinType /\ Places!NameFitsPin'
    BY <1>0, <2>1, <2>3, <2>4, LandIsSound
  <2>8. /\ busy' \in Seq(Places!Request) /\ Len(busy') = 0 /\ Wanted(busy', query)
    BY <2>1 DEF Wanted
  <2>. QED
    BY <1>0, <1>1, <1>2, <2>1, <2>2, <2>6, <2>7, <2>8 DEF PlacesTypes, SearchesAreWanted
<1>14. Goal
  BY <1>4, <1>6, <1>7, <1>8, <1>9, <1>10, <1>11, <1>12, <1>13 DEF Places!Next
<1>. QED
  BY <1>14, PlacesTypeOKNext DEF PlacesInv

-----------------------------------------------------------------------------
(* The terrain cache.                                                      *)

\* A tile is fetched once, and not while it is kept.
FetchedOnce ==
    /\ fetching \in [Tiles -> {0, 1}]
    /\ \A k \in Tiles : fetching[k] = 1 => ~Relief!Contains(kept, k)

TerrainInv == Relief!TypeOK /\ FetchedOnce /\ Relief!BytesAreExact

Heavy(S) == Cardinality(UNION {Relief!Body(k) : k \in S})

LEMMA SameCardinality == \A S : Relief!Cardinality(S) = Cardinality(S)
BY DEF Relief!Cardinality, Cardinality

LEMMA WeightIsHeavy == \A s : Relief!Weight(s) = Heavy(Relief!ToSet(s))
BY SameCardinality DEF Relief!Weight, Heavy

LEMMA BodyIsSize ==
    ASSUME NEW k \in Tiles
    PROVE  /\ IsFiniteSet(Relief!Body(k)) /\ Cardinality(Relief!Body(k)) = Size[k]
           /\ \A p \in Relief!Body(k) : p[1] = k
<1>1. Size[k] \in Nat
  BY TilesAssumption
<1>2. IsFiniteSet(1 .. Size[k]) /\ Cardinality(1 .. Size[k]) = Size[k]
  <2>1. 1 \in Int /\ Size[k] \in Int
    BY <1>1
  <2>2. /\ IsFiniteSet(1 .. Size[k])
        /\ Cardinality(1 .. Size[k]) = IF 1 > Size[k] THEN 0 ELSE Size[k] - 1 + 1
    BY ONLY <2>1, FS_Interval, Zenon
  <2>. QED
    BY <1>1, <2>2
<1>3. IsFiniteSet({k}) /\ Cardinality({k}) = 1
  BY FS_Singleton
<1>. DEFINE key == {k}
            offsets == 1 .. Size[k]
<1>. HIDE DEF key, offsets
<1>4. IsFiniteSet(key) /\ IsFiniteSet(offsets)
  BY <1>2, <1>3 DEF key, offsets
<1>5. IsFiniteSet(key \X offsets)
      /\ Cardinality(key \X offsets) = Cardinality(key) * Cardinality(offsets)
  BY ONLY <1>4, FS_Product, Zenon
<1>6. Cardinality(key) = 1 /\ Cardinality(offsets) = Size[k]
  BY <1>2, <1>3 DEF key, offsets
<1>7. IsFiniteSet(Relief!Body(k)) /\ Cardinality(Relief!Body(k)) = 1 * Size[k]
  BY <1>5, <1>6 DEF Relief!Body, key, offsets
<1>. QED
  BY <1>1, <1>7 DEF Relief!Body

LEMMA DisjointAdd ==
    ASSUME NEW A, NEW B, IsFiniteSet(A), IsFiniteSet(B), A \cap B = {}
    PROVE  /\ Cardinality(A) \in Nat /\ Cardinality(B) \in Nat
           /\ Cardinality(A \cup B) = Cardinality(A) + Cardinality(B)
<1>1. Cardinality(A) \in Nat /\ Cardinality(B) \in Nat
  BY FS_CardinalityType
<1>2. Cardinality(A \cup B) = Cardinality(A) + Cardinality(B) - Cardinality(A \cap B)
  BY FS_Union
<1>3. Cardinality(A \cap B) = 0
  BY FS_EmptySet
<1>. QED
  BY <1>1, <1>2, <1>3

\* The weights of tiles that are not the same add up.
LEMMA HeavyAdds ==
    ASSUME NEW S \in SUBSET Tiles, IsFiniteSet(S), NEW T \in SUBSET Tiles, IsFiniteSet(T),
           S \cap T = {}
    PROVE  /\ Heavy(S) \in Nat /\ Heavy(T) \in Nat
           /\ Heavy(S \cup T) = Heavy(S) + Heavy(T)
<1>. DEFINE All(U) == UNION {Relief!Body(k) : k \in U}
<1>1. ASSUME NEW U \in SUBSET Tiles, IsFiniteSet(U)
      PROVE  IsFiniteSet(All(U))
  <2>. DEFINE bodies == {Relief!Body(k) : k \in U}
              f == [k \in U |-> Relief!Body(k)]
  <2>1. f \in Surjection(U, bodies)
    BY DEF Surjection
  <2>2. IsFiniteSet(bodies)
    BY <1>1, <2>1, FS_Surjection
  <2>3. \A B \in bodies : IsFiniteSet(B)
    BY BodyIsSize
  <2>. QED
    BY <2>2, <2>3, FS_UNION
<1>2. All(S \cup T) = All(S) \cup All(T)
  OBVIOUS
<1>3. All(S) \cap All(T) = {}
  BY BodyIsSize
<1>4. IsFiniteSet(All(S)) /\ IsFiniteSet(All(T))
  BY <1>1
<1>5. /\ Cardinality(All(S)) \in Nat /\ Cardinality(All(T)) \in Nat
      /\ Cardinality(All(S) \cup All(T)) = Cardinality(All(S)) + Cardinality(All(T))
  BY <1>3, <1>4, DisjointAdd
<1>. QED
  BY <1>2, <1>5 DEF Heavy

LEMMA HeavyOfOne ==
    ASSUME NEW k \in Tiles
    PROVE  Heavy({k}) = Size[k]
<1>1. UNION {Relief!Body(j) : j \in {k}} = Relief!Body(k)
  OBVIOUS
<1>. QED
  BY <1>1, BodyIsSize DEF Heavy

\* The tiles of a list.
LEMMA ListedTiles ==
    ASSUME NEW s \in Seq(Tiles)
    PROVE  /\ Relief!ToSet(s) \in SUBSET Tiles /\ IsFiniteSet(Relief!ToSet(s))
           /\ Relief!ToSet(s) = {s[i] : i \in 1 .. Len(s)}
           /\ \A k : Relief!Contains(s, k) <=> k \in Relief!ToSet(s)
<1>1. s \in [1 .. Len(s) -> Tiles] /\ Len(s) \in Nat
  OBVIOUS
<1>2. Relief!ToSet(s) = {s[i] : i \in 1 .. Len(s)}
  BY <1>1 DEF Relief!ToSet
<1>3. IsFiniteSet(1 .. Len(s))
  BY <1>1, FS_Interval
<1>4. s \in Surjection(1 .. Len(s), Relief!ToSet(s))
  BY <1>1, <1>2 DEF Surjection
<1>. QED
  BY <1>1, <1>2, <1>3, <1>4, FS_Surjection DEF Relief!Contains

LEMMA TerrainInitHolds == Relief!Init => TerrainInv
<1>. SUFFICES ASSUME Relief!Init PROVE TerrainInv
  OBVIOUS
<1>. USE TilesAssumption DEF Relief!Init
<1>1. Relief!TypeOK
  BY DEF Relief!TypeOK
<1>2. FetchedOnce
  BY DEF FetchedOnce
<1>3. UNION {Relief!Body(k) : k \in Relief!ToSet(kept)} = {}
  BY DEF Relief!ToSet
<1>4. Relief!BytesAreExact
  BY <1>3, WeightIsHeavy, FS_EmptySet DEF Relief!BytesAreExact, Heavy, Relief!IsInjective
<1>. QED
  BY <1>1, <1>2, <1>4 DEF TerrainInv

\* Where the tile at place j was before the one at place i of n went to the end.
From(i, n, j) == IF j = n THEN i ELSE IF j < i THEN j ELSE j + 1

LEMMA FromIsABijection ==
    ASSUME NEW n \in Nat, NEW i \in 1 .. n
    PROVE  /\ \A j \in 1 .. n : From(i, n, j) \in 1 .. n
           /\ \A a, b \in 1 .. n : From(i, n, a) = From(i, n, b) => a = b
           /\ \A j \in 1 .. n : \E k \in 1 .. n : From(i, n, k) = j
<1>1. \A j \in 1 .. n : From(i, n, j) \in 1 .. n
  BY DEF From
<1>2. \A a, b \in 1 .. n : From(i, n, a) = From(i, n, b) => a = b
  BY DEF From
<1>3. ASSUME NEW j \in 1 .. n
      PROVE  \E k \in 1 .. n : From(i, n, k) = j
  <2>1. CASE j = i
    BY <2>1 DEF From
  <2>2. CASE j < i
    BY <2>2 DEF From
  <2>3. CASE j > i
    <3>1. j - 1 \in 1 .. n /\ From(i, n, j - 1) = j
      BY <2>3 DEF From
    <3>. QED
      BY <3>1
  <2>. QED
    BY <2>1, <2>2, <2>3
<1>. QED
  BY <1>1, <1>2, <1>3

\* A hit moves a tile to the young end: the same tiles, each once.
LEMMA HitKeepsTiles ==
    ASSUME TerrainInv, NEW i \in DOMAIN kept, Relief!Hit(i)
    PROVE  /\ kept' \in Seq(Tiles) /\ Relief!ToSet(kept') = Relief!ToSet(kept)
           /\ Relief!IsInjective(kept')
<1>. DEFINE n == Len(kept)
<1>1. kept \in Seq(Tiles) /\ n \in Nat /\ i \in 1 .. n /\ kept \in [1 .. n -> Tiles]
  BY DEF TerrainInv, Relief!TypeOK
<1>2. \A a, b \in 1 .. n : kept[a] = kept[b] => a = b
  BY <1>1, SMTT(40) DEF TerrainInv, Relief!BytesAreExact, Relief!IsInjective
<1>. DEFINE rest == Without(kept, i)
<1>5. /\ rest \in Seq(Tiles) /\ Len(rest) = n - 1
      /\ \A j \in 1 .. n - 1 : rest[j] = kept[IF j < i THEN j ELSE j + 1]
  BY <1>1, WithoutOne
<1>6. kept' = Append(rest, kept[i])
  BY DEF Relief!Hit, Relief!RemoveAt, Without
<1>. HIDE DEF rest
<1>7. /\ kept' \in Seq(Tiles) /\ Len(kept') = n
      /\ \A j \in 1 .. n - 1 : kept'[j] = rest[j]
      /\ kept'[n] = kept[i]
  <2>1. kept[i] \in Tiles
    BY <1>1
  <2>2. /\ kept' \in Seq(Tiles) /\ Len(kept') = Len(rest) + 1
        /\ \A j \in 1 .. Len(rest) : kept'[j] = rest[j]
        /\ kept'[Len(rest) + 1] = kept[i]
    BY <1>5, <1>6, <2>1, AppendProperties
  <2>. QED
    BY <1>1, <1>5, <2>2
<1>. HIDE DEF n
<1>8. \A j \in 1 .. n : kept'[j] = kept[From(i, n, j)]
  <2>. SUFFICES ASSUME NEW j \in 1 .. n PROVE kept'[j] = kept[From(i, n, j)]
    OBVIOUS
  <2>1. CASE j = n
    BY <1>7, <2>1 DEF From
  <2>2. CASE j # n
    <3>1. j \in 1 .. n - 1
      BY <1>1, <2>2
    <3>. QED
      BY <1>5, <1>7, <2>2, <3>1 DEF From
  <2>. QED
    BY <2>1, <2>2
<1>9. /\ \A j \in 1 .. n : From(i, n, j) \in 1 .. n
      /\ \A a, b \in 1 .. n : From(i, n, a) = From(i, n, b) => a = b
      /\ \A j \in 1 .. n : \E k \in 1 .. n : From(i, n, k) = j
  BY <1>1, FromIsABijection
<1>10. DOMAIN kept' = 1 .. n
  BY <1>7
<1>11. Relief!IsInjective(kept')
  BY <1>2, <1>8, <1>9, <1>10 DEF Relief!IsInjective
<1>12. {kept'[j] : j \in 1 .. n} = {kept[j] : j \in 1 .. n}
  BY <1>8, <1>9
<1>13. Relief!ToSet(kept') = Relief!ToSet(kept)
  BY <1>1, <1>7, <1>12, ListedTiles DEF n
<1>. QED
  BY <1>7, <1>11, <1>13

\* The first number of tiles to go with which the rest fits.
LEMMA EvictionStops ==
    ASSUME NEW F, NEW n \in Nat
    PROVE  \E m \in 0 .. n : /\ F[m] \/ m = n
                             /\ \A l \in 0 .. m - 1 : ~F[l]
<1>. DEFINE Good == {m \in 0 .. n : F[m] \/ m = n}
<1>1. n \in Good /\ Good \subseteq Nat
  OBVIOUS
<1>2. PICK m \in Good : \A l \in Good : <<l, m>> \notin OpToRel(<, Nat)
  BY <1>1, NatLessThanWellFounded, WFMin, Zenon
<1>3. \A l \in Good : ~(l < m)
  BY <1>1, <1>2 DEF OpToRel
<1>4. \A l \in 0 .. m - 1 : ~F[l]
  BY <1>1, <1>3
<1>. QED
  BY <1>2, <1>4

LEMMA EvictionFits ==
    ASSUME NEW s \in Seq(Tiles), Relief!IsInjective(s),
           NEW e, e = Relief!Evict(s, Relief!Weight(s))
    PROVE  /\ e.kept \in Seq(Tiles) /\ Relief!IsInjective(e.kept)
           /\ e.bytes = Relief!Weight(e.kept) /\ e.bytes \in 0 .. Limit
           /\ Relief!ToSet(e.kept) \subseteq Relief!ToSet(s)
<1>. DEFINE len == Len(s)
            Rest(m) == Relief!Weight(s) - Relief!Weight(SubSeq(s, 1, m))
            Cuts(m) == /\ Rest(m) <= Limit \/ m = len
                       /\ \A l \in 0 .. m - 1 : Rest(l) > Limit
<1>1. len \in Nat /\ s \in [1 .. len -> Tiles] /\ Limit \in Nat
  BY TilesAssumption
<1>2. ASSUME NEW m \in 0 .. len
      PROVE  /\ SubSeq(s, 1, m) \in Seq(Tiles) /\ SubSeq(s, m + 1, len) \in Seq(Tiles)
             /\ Relief!IsInjective(SubSeq(s, m + 1, len))
             /\ Relief!ToSet(SubSeq(s, m + 1, len)) \subseteq Relief!ToSet(s)
             /\ Relief!Weight(SubSeq(s, m + 1, len)) \in Nat
             /\ Rest(m) = Relief!Weight(SubSeq(s, m + 1, len))
  <2>. DEFINE old == SubSeq(s, 1, m)
              young == SubSeq(s, m + 1, len)
  <2>1. /\ old \in Seq(Tiles) /\ Len(old) = m /\ \A j \in 1 .. m : old[j] = s[j]
    <3>1. \A j \in 1 .. m : s[j] \in Tiles
      BY <1>1
    <3>2. /\ old \in Seq(Tiles) /\ Len(old) = IF 1 <= m THEN m - 1 + 1 ELSE 0
          /\ \A j \in 1 .. m - 1 + 1 : old[j] = s[1 + j - 1]
      BY <1>1, <3>1, SubSeqProperties
    <3>. QED
      BY <1>1, <3>2
  <2>2. /\ young \in Seq(Tiles) /\ Len(young) = len - m
        /\ \A j \in 1 .. len - m : young[j] = s[m + j]
    <3>1. \A j \in m + 1 .. len : s[j] \in Tiles
      BY <1>1
    <3>2. /\ young \in Seq(Tiles)
          /\ Len(young) = IF m + 1 <= len THEN len - (m + 1) + 1 ELSE 0
          /\ \A j \in 1 .. len - (m + 1) + 1 : young[j] = s[(m + 1) + j - 1]
      BY <1>1, <3>1, SubSeqProperties
    <3>. QED
      BY <1>1, <3>2
  <2>. HIDE DEF old, young
  <2>3. \A a, b \in 1 .. len : s[a] = s[b] => a = b
    BY <1>1 DEF Relief!IsInjective
  <2>4. Relief!IsInjective(young)
    <3>1. DOMAIN young = 1 .. len - m
      BY <2>2
    <3>2. ASSUME NEW a \in 1 .. len - m, NEW b \in 1 .. len - m, young[a] = young[b]
          PROVE  a = b
      <4>1. m + a \in 1 .. len /\ m + b \in 1 .. len
        BY <1>1
      <4>2. s[m + a] = s[m + b]
        BY <2>2, <3>2
      <4>3. m + a = m + b
        BY <2>3, <4>1, <4>2
      <4>. QED
        BY <1>1, <4>3
    <3>. QED
      BY <3>1, <3>2 DEF Relief!IsInjective
  <2>5. /\ Relief!ToSet(s) = Relief!ToSet(old) \cup Relief!ToSet(young)
        /\ Relief!ToSet(old) \cap Relief!ToSet(young) = {}
    <3>1. /\ Relief!ToSet(s) = {s[j] : j \in 1 .. len}
          /\ Relief!ToSet(old) = {old[j] : j \in 1 .. m}
          /\ Relief!ToSet(young) = {young[j] : j \in 1 .. len - m}
      BY <2>1, <2>2, ListedTiles
    <3>2. \A j \in 1 .. len : \/ j \in 1 .. m
                              \/ j - m \in 1 .. len - m /\ m + (j - m) = j
      BY <1>1
    <3>3. ASSUME NEW j \in 1 .. len
          PROVE  s[j] \in Relief!ToSet(old) \cup Relief!ToSet(young)
      <4>1. CASE j \in 1 .. m
        BY <2>1, <3>1, <4>1
      <4>2. CASE j - m \in 1 .. len - m /\ m + (j - m) = j
        <5>1. young[j - m] = s[j]
          BY <2>2, <4>2
        <5>. QED
          BY <3>1, <4>2, <5>1
      <4>. QED
        BY <3>2, <4>1, <4>2
    <3>4. ASSUME NEW j \in 1 .. m PROVE old[j] \in Relief!ToSet(s)
      <4>1. j \in 1 .. len
        BY <1>1
      <4>. QED
        BY <2>1, <3>1, <4>1
    <3>5. ASSUME NEW j \in 1 .. len - m PROVE young[j] \in Relief!ToSet(s)
      <4>1. m + j \in 1 .. len
        BY <1>1
      <4>. QED
        BY <2>2, <3>1, <4>1
    <3>6. ASSUME NEW a \in 1 .. m, NEW b \in 1 .. len - m PROVE old[a] # young[b]
      <4>1. a \in 1 .. len /\ m + b \in 1 .. len /\ a # m + b
        BY <1>1
      <4>. QED
        BY <2>1, <2>2, <2>3, <4>1
    <3>7. Relief!ToSet(old) \subseteq Relief!ToSet(s)
      BY <3>1, <3>4
    <3>8. Relief!ToSet(young) \subseteq Relief!ToSet(s)
      BY <3>1, <3>5
    <3>9. Relief!ToSet(s) \subseteq Relief!ToSet(old) \cup Relief!ToSet(young)
      <4>. HIDE DEF len
      <4>. QED
        BY <3>1, <3>3
    <3>10. Relief!ToSet(old) \cap Relief!ToSet(young) = {}
      BY <3>1, <3>6
    <3>. QED
      BY <3>7, <3>8, <3>9, <3>10
  <2>6. /\ Relief!Weight(old) \in Nat /\ Relief!Weight(young) \in Nat
        /\ Relief!Weight(s) = Relief!Weight(old) + Relief!Weight(young)
    BY <2>1, <2>2, <2>5, ListedTiles, HeavyAdds, WeightIsHeavy
  <2>. QED
    BY <2>1, <2>2, <2>4, <2>5, <2>6 DEF old, young
<1>. HIDE DEF len
<1>3. PICK n \in 0 .. len : /\ Rest(n) <= Limit \/ n = len
                            /\ e = [kept |-> SubSeq(s, n + 1, len), bytes |-> Rest(n)]
  <2>. DEFINE F == [m \in Nat |-> Rest(m) <= Limit]
              n == CHOOSE m \in 0 .. len : Cuts(m)
  <2>1. ASSUME NEW m \in 0 .. len PROVE F[m] <=> Rest(m) <= Limit
    <3>1. m \in Nat
      BY <1>1
    <3>. QED
      BY <3>1
  <2>. HIDE DEF F
  <2>2. PICK m \in 0 .. len : (F[m] \/ m = len) /\ \A l \in 0 .. m - 1 : ~F[l]
    BY <1>1, EvictionStops
  <2>3. Rest(m) <= Limit \/ m = len
    BY <2>1, <2>2
  <2>4. ASSUME NEW l \in 0 .. m - 1 PROVE Rest(l) > Limit
    <3>1. l \in 0 .. len /\ ~F[l]
      BY <1>1, <2>2
    <3>2. Rest(l) \in Nat /\ ~(Rest(l) <= Limit)
      BY <1>2, <2>1, <3>1
    <3>. QED
      BY <1>1, <3>2
  <2>5. n \in 0 .. len /\ Cuts(n)
    <3>1. Cuts(m)
      BY <2>3, <2>4
    <3>. HIDE DEF Cuts
    <3>. QED
      BY <3>1
  <2>6. e = [kept |-> SubSeq(s, n + 1, len), bytes |-> Rest(n)]
    BY DEF Relief!Evict, len
  <2>. QED
    BY <2>5, <2>6
<1>4. e.kept = SubSeq(s, n + 1, len) /\ e.bytes = Relief!Weight(SubSeq(s, n + 1, len))
      /\ Rest(n) = e.bytes
  BY <1>2, <1>3
<1>5. e.bytes <= Limit
  <2>1. CASE n = len
    <3>1. SubSeq(s, n + 1, len) = <<>>
      BY <1>1, <2>1, SubSeqEmpty
    <3>2. UNION {Relief!Body(k) : k \in Relief!ToSet(<<>>)} = {}
      BY DEF Relief!ToSet
    <3>3. Relief!Weight(<<>>) = 0
      BY <3>2, WeightIsHeavy, FS_EmptySet DEF Heavy
    <3>4. e.bytes = 0
      BY <1>4, <3>1, <3>3
    <3>. QED
      BY <1>1, <3>4
  <2>. QED
    BY <1>3, <1>4, <2>1
<1>6. /\ e.kept \in Seq(Tiles) /\ Relief!IsInjective(e.kept)
      /\ Relief!ToSet(e.kept) \subseteq Relief!ToSet(s)
      /\ Relief!Weight(e.kept) \in Nat
  BY <1>2, <1>4
<1>. QED
  BY <1>1, <1>4, <1>5, <1>6

LEMMA TerrainStep ==
    ASSUME TerrainInv, Relief!Next
    PROVE  TerrainInv'
<1>. USE TilesAssumption
<1>0. /\ kept \in Seq(Tiles) /\ bytes \in 0 .. Limit /\ fetching \in [Tiles -> {0, 1}]
      /\ bytes = Relief!Weight(kept) /\ Relief!IsInjective(kept)
      /\ \A k \in Tiles : fetching[k] = 1 => ~Relief!Contains(kept, k)
  BY DEF TerrainInv, Relief!TypeOK, FetchedOnce, Relief!BytesAreExact
<1>1. ASSUME kept' \in Seq(Tiles), bytes' \in 0 .. Limit, fetching' \in [Tiles -> {0, 1}],
             bytes' = Relief!Weight(kept'), Relief!IsInjective(kept'),
             \A k \in Tiles : fetching'[k] = 1 => ~Relief!Contains(kept', k)
      PROVE  TerrainInv'
  <2>1. fetching' \in [Tiles -> 0 .. MaxFetches]
    BY <1>1
  <2>. QED
    BY <1>1, <2>1 DEF TerrainInv, Relief!TypeOK, FetchedOnce, Relief!BytesAreExact
<1>2. ASSUME NEW i \in DOMAIN kept, Relief!Hit(i) PROVE TerrainInv'
  <2>1. /\ kept' \in Seq(Tiles) /\ Relief!ToSet(kept') = Relief!ToSet(kept)
        /\ Relief!IsInjective(kept')
    BY <1>2, HitKeepsTiles
  <2>2. bytes' = bytes /\ fetching' = fetching
    BY <1>2 DEF Relief!Hit
  <2>3. Relief!Weight(kept') = Relief!Weight(kept)
    BY <2>1, WeightIsHeavy
  <2>4. \A k : Relief!Contains(kept', k) <=> Relief!Contains(kept, k)
    BY <1>0, <2>1, ListedTiles
  <2>. QED
    BY <1>0, <1>1, <2>1, <2>2, <2>3, <2>4
<1>3. ASSUME NEW k \in Tiles, Relief!Miss(k) PROVE TerrainInv'
  BY <1>0, <1>1, <1>3 DEF Relief!Miss, Relief!FetchOnce
<1>4. ASSUME NEW k \in Tiles, Relief!Arrives(k) PROVE TerrainInv'
  <2>0. fetching[k] = 1 /\ fetching[k] - 1 = 0
    BY <1>0, <1>4 DEF Relief!Arrives
  <2>1. fetching[k] = 1 /\ fetching' = [fetching EXCEPT ![k] = 0]
    BY <1>4, <2>0 DEF Relief!Arrives
  <2>2. CASE ~(Size[k] <= Limit)
    BY <1>0, <1>1, <1>4, <2>1, <2>2 DEF Relief!Arrives
  <2>3. CASE Size[k] <= Limit
    <3>. DEFINE s == Append(kept, k)
    <3>1. ~Relief!Contains(kept, k) /\ k \notin Relief!ToSet(kept)
      BY <1>0, <2>1, ListedTiles
    <3>2. /\ s \in Seq(Tiles) /\ Len(s) = Len(kept) + 1 /\ Len(kept) \in Nat
          /\ \A j \in 1 .. Len(kept) : s[j] = kept[j]
          /\ s[Len(kept) + 1] = k
      BY <1>0, AppendProperties
    <3>3. PICK e : e = Relief!Evict(s, bytes + Size[k])
      OBVIOUS
    <3>4. kept' = e.kept /\ bytes' = e.bytes
      BY <1>4, <2>3, <3>1, <3>3 DEF Relief!Arrives, Relief!Remember
    <3>. HIDE DEF s
    <3>5. Relief!ToSet(s) = Relief!ToSet(kept) \cup {k}
      <4>1. Relief!ToSet(s) = {s[j] : j \in 1 .. Len(kept) + 1}
            /\ Relief!ToSet(kept) = {kept[j] : j \in 1 .. Len(kept)}
        BY <1>0, <3>2, ListedTiles
      <4>. QED
        BY <3>2, <4>1, SMTT(40)
    <3>6. Relief!IsInjective(s)
      <4>1. \A j \in 1 .. Len(kept) : kept[j] # k
        BY <3>1 DEF Relief!Contains
      <4>2. \A i, j \in 1 .. Len(kept) : kept[i] = kept[j] => i = j
        BY <1>0 DEF Relief!IsInjective
      <4>3. DOMAIN s = 1 .. Len(kept) + 1
        BY <3>2
      <4>. QED
        BY <3>2, <4>1, <4>2, <4>3 DEF Relief!IsInjective
    <3>7. Relief!Weight(s) = bytes + Size[k]
      <4>1. /\ Relief!ToSet(kept) \in SUBSET Tiles /\ IsFiniteSet(Relief!ToSet(kept))
            /\ {k} \in SUBSET Tiles /\ Relief!ToSet(kept) \cap {k} = {}
        BY <1>0, <3>1, ListedTiles
      <4>3. IsFiniteSet({k})
        BY FS_Singleton
      <4>2. Heavy(Relief!ToSet(kept) \cup {k}) = Heavy(Relief!ToSet(kept)) + Heavy({k})
        BY <4>1, <4>3, HeavyAdds
      <4>. QED
        BY <1>0, <3>5, <4>2, HeavyOfOne, WeightIsHeavy
    <3>8. /\ e.kept \in Seq(Tiles) /\ Relief!IsInjective(e.kept)
          /\ e.bytes = Relief!Weight(e.kept) /\ e.bytes \in 0 .. Limit
          /\ Relief!ToSet(e.kept) \subseteq Relief!ToSet(s)
      BY <3>2, <3>3, <3>6, <3>7, EvictionFits
    <3>9. ASSUME NEW j \in Tiles, fetching'[j] = 1 PROVE ~Relief!Contains(kept', j)
      <4>1. j # k /\ fetching[j] = 1
        BY <1>0, <2>1, <3>9
      <4>. QED
        BY <1>0, <3>4, <3>5, <3>8, <4>1, ListedTiles
    <3>. QED
      BY <1>0, <1>1, <2>1, <3>4, <3>8, <3>9
  <2>. QED
    BY <2>2, <2>3
<1>5. ASSUME NEW k \in Tiles, Relief!Missing(k) PROVE TerrainInv'
  <2>0. fetching[k] = 1 /\ fetching[k] - 1 = 0
    BY <1>0, <1>5 DEF Relief!Missing
  <2>1. fetching[k] = 1 /\ fetching' = [fetching EXCEPT ![k] = 0] /\ UNCHANGED <<kept, bytes>>
    BY <1>5, <2>0 DEF Relief!Missing
  <2>. QED
    BY <1>0, <1>1, <2>1
<1>. QED
  BY <1>2, <1>3, <1>4, <1>5 DEF Relief!Next

-----------------------------------------------------------------------------
(* The release.                                                            *)

\* Whoever is told of a build is told of one there is; a package lies under
\* its versionCode.
BuildsAreKnown ==
    /\ script.at # "rest" => script.build \in Release!Known
    /\ \A a \in Release!Announcing : panel[a].build \in Release!Known
    /\ \A c \in Release!Codes : packages[c] # Release!None => packages[c].code = c

\* A package of b's versionCode is the package of b.
Stands(b) == b # Release!None => packages[b.code] \in {b, Release!None}

\* How far a press is, and what it has done by then.
PressIsOrderly(a) ==
    LET at == panel[a].at
        b == panel[a].build
    IN  /\ at \in {"read", "unlinked"} => Stands(b)
        /\ at \in {"unlinked", "moved", "written"} => latest = Release!None
        /\ at \in {"moved", "written", "renamed"} => apk = b
        /\ at = "written" => scratch = b
        /\ at = "renamed" => latest = b

\* While no two presses and no two builds of one versionCode cross.
ReleaseIsOrderly ==
    /\ \A a, o \in Release!Announcing : a = o
    /\ Stands(staged)
    /\ script.at = "moved" => Stands(script.build)
    /\ \A a \in Release!Announcing : PressIsOrderly(a)
    /\ latest # Release!None => apk = latest

\* What the updater shows, remembers or installs is newer than what runs, and
\* the dialog's file is the build the driver accepted.
UpdatesGoForward ==
    /\ \A b \in {phone.manifest, phone.pending, phone.promise} :
          b # Release!None => b.code > installed.code
    /\ phone.job = "dialog" => phone.file.holds = phone.promise

ReleaseInv ==
    /\ Release!TypeOK
    /\ BuildsAreKnown
    /\ crossed \/ ReleaseIsOrderly
    /\ UpdatesGoForward

\* A build is not the absence of one; its bytes tell it from every other.
LEMMA BuildsAreBuilds ==
    /\ Release!None.code = 0 /\ Release!None.bytes = "nothing"
    /\ \A b \in Release!Known :
          /\ b.code \in Nat \ {0} /\ b.code \in Release!Codes
          /\ b # Release!None /\ b.bytes # "nothing"
          /\ \A c \in Release!Known : b.bytes = c.bytes => b = c
<1>1. Release!None.code = 0 /\ Release!None.bytes = "nothing"
  BY DEF Release!None
<1>2. ASSUME NEW b \in Release!Known
      PROVE  b.code \in Nat \ {0} /\ b.code \in Release!Codes
  BY BuildsAssumption DEF Release!Known, Release!Codes
<1>3. ASSUME NEW b \in Release!Known
      PROVE  b # Release!None
  BY <1>1, <1>2
<1>4. ASSUME NEW b \in Release!Known
      PROVE  b.bytes # "nothing" /\ \A c \in Release!Known : b.bytes = c.bytes => b = c
  BY BuildsAssumption DEF Release!Known
<1>. QED
  BY <1>1, <1>2, <1>3, <1>4

LEMMA ReleaseInitHolds == Release!Init => ReleaseInv
<1>. SUFFICES ASSUME Release!Init PROVE ReleaseInv
  OBVIOUS
<1>. USE BuildsAreBuilds, NumbersAssumption DEF Release!Init
<1>1. First \in Release!Known
  BY DEF Release!Known
<1>2. Release!Announcing = {}
  BY DEF Release!Announcing, Release!UnderWay
<1>3. Release!TypeOK
  <2>1. {latest, apk, staged, scratch} \subseteq Release!Known \cup {Release!None}
    BY <1>1
  <2>2. packages \in [Release!Codes -> Release!Known \cup {Release!None}]
    OBVIOUS
  <2>3. script \in [at : {"rest", "checked", "moved"}, build : Release!Known \cup {Release!None}]
    OBVIOUS
  <2>4. panel \in [Admins -> [at : Release!Shown \cup Release!UnderWay,
                              build : Release!Known \cup {Release!None}]]
    BY DEF Release!Shown
  <2>5. phone \in [state : {"idle", "available", "busy", "failed"},
                   manifest : Release!Known \cup {Release!None},
                   pending : Release!Known \cup {Release!None},
                   job : {"none", "downloading", "verifying", "dialog"},
                   promise : Release!Known \cup {Release!None}, file : Release!File]
    BY DEF Release!File, Release!NoFile
  <2>6. phone.state = "idle" /\ phone.manifest = Release!None
        /\ phone.job = "none" /\ phone.promise = Release!None
    OBVIOUS
  <2>7. MaxPresses \in Nat /\ MaxDeaths \in Nat
    OBVIOUS
  <2>8. presses \in 0 .. MaxPresses /\ deaths \in 0 .. MaxDeaths
    BY <2>7
  <2>9. installed \in Release!Known /\ crossed \in BOOLEAN
    BY <1>1, Zenon
  <2>. HIDE DEF Release!Init
  <2>. QED
    BY <2>1, <2>2, <2>3, <2>4, <2>5, <2>6, <2>8, <2>9 DEF Release!TypeOK
<1>4. BuildsAreKnown
  BY <1>2 DEF BuildsAreKnown
<1>5. ReleaseIsOrderly
  BY <1>2 DEF ReleaseIsOrderly, Stands
<1>6. UpdatesGoForward
  BY DEF UpdatesGoForward
<1>. QED
  BY <1>3, <1>4, <1>5, <1>6 DEF ReleaseInv

\* The types of what the server keeps, and of what the phone does.
Row == [at : Release!Shown \cup Release!UnderWay, build : Release!Known \cup {Release!None}]

ServerTypes ==
    /\ {latest, apk, staged, scratch} \subseteq Release!Known \cup {Release!None}
    /\ packages \in [Release!Codes -> Release!Known \cup {Release!None}]
    /\ script \in [at : {"rest", "checked", "moved"}, build : Release!Known \cup {Release!None}]
    /\ panel \in [Admins -> Row]
    /\ presses \in 0 .. MaxPresses /\ deaths \in 0 .. MaxDeaths
    /\ crossed \in BOOLEAN

Updater == [state : {"idle", "available", "busy", "failed"},
            manifest : Release!Known \cup {Release!None},
            pending : Release!Known \cup {Release!None},
            job : {"none", "downloading", "verifying", "dialog"},
            promise : Release!Known \cup {Release!None}, file : Release!File]

PhoneTypes ==
    /\ phone \in Updater
    /\ phone.state = "idle" <=> phone.manifest = Release!None
    /\ phone.job = "none" <=> phone.promise = Release!None
    /\ installed \in Release!Known

LEMMA ReleaseTypes == Release!TypeOK <=> ServerTypes /\ PhoneTypes
BY DEF Release!TypeOK, ServerTypes, PhoneTypes, Row, Updater

LEMMA ReleaseTypesNext == Release!TypeOK' <=> ServerTypes' /\ PhoneTypes'
BY DEF Release!TypeOK, ServerTypes, PhoneTypes, Row, Updater

\* One panel changes, and no other.
LEMMA PanelSet ==
    ASSUME ServerTypes, NEW a \in Admins, NEW at \in Release!Shown \cup Release!UnderWay,
           NEW b \in Release!Known \cup {Release!None}, Release!Set(a, at, b)
    PROVE  /\ panel' \in [Admins -> Row]
           /\ panel'[a].at = at /\ panel'[a].build = b
           /\ \A e \in Admins \ {a} : panel'[e] = panel[e]
<1>. DEFINE r == [at |-> at, build |-> b]
<1>1. r \in Row /\ r.at = at /\ r.build = b
  BY DEF Row
<1>2. panel' = [panel EXCEPT ![a] = r]
  BY DEF Release!Set
<1>3. panel \in [Admins -> Row]
  BY DEF ServerTypes
<1>. HIDE DEF r
<1>. QED
  BY <1>1, <1>2, <1>3

ReleaseServer ==
    /\ ServerTypes
    /\ BuildsAreKnown
    /\ crossed \/ ReleaseIsOrderly

ScriptMoves ==
    \/ \E b \in Builds : Release!Check(b)
    \/ Release!StagePackage \/ Release!StageManifest \/ Release!ScriptStops

\* The script: nothing a press relies on is touched, but a crossing is noted.
LEMMA ScriptStep ==
    ASSUME ReleaseServer, ScriptMoves
    PROVE  ReleaseServer'
<1>. USE BuildsAreBuilds DEF ReleaseServer
<1>0. Release!Announcing' = Release!Announcing
  BY DEF ScriptMoves, Release!Check, Release!StagePackage, Release!StageManifest,
         Release!ScriptStops, Release!Announcing
<1>1. ASSUME NEW b \in Builds, Release!Check(b) PROVE ReleaseServer'
  <2>1. b \in Release!Known
    BY DEF Release!Known
  <2>2. ServerTypes'
    BY <1>1, <2>1 DEF Release!Check, Release!files, ServerTypes
  <2>3. script'.at = "checked" /\ script'.build = b
    BY <1>1 DEF Release!Check
  <2>4. BuildsAreKnown'
    BY <1>0, <1>1, <2>1, <2>3 DEF Release!Check, Release!files, BuildsAreKnown
  <2>5. crossed' \/ ReleaseIsOrderly'
    BY <1>0, <1>1, <2>3 DEF Release!Check, Release!files, ReleaseIsOrderly, Stands, PressIsOrderly
  <2>. QED
    BY <2>2, <2>4, <2>5
<1>2. CASE Release!StagePackage
  <2>. DEFINE b == script.build
  <2>1. /\ script.at = "checked" /\ b \in Release!Known
        /\ script' = [script EXCEPT !.at = "moved"]
        /\ packages' = [packages EXCEPT ![b.code] = b]
        /\ UNCHANGED <<latest, apk, staged, scratch, panel, presses, deaths>>
    BY <1>2 DEF Release!StagePackage, BuildsAreKnown
  <2>2. crossed' \/ (~crossed /\ \A o \in ({packages[b.code], staged} \cup Release!Releasing) \ {b} :
                                    o.code # b.code)
    BY <1>2 DEF Release!StagePackage, ServerTypes
  <2>3. crossed' \in BOOLEAN
    BY <1>2, Zenon DEF Release!StagePackage, ServerTypes
  <2>4. /\ script' \in [at : {"rest", "checked", "moved"},
                        build : Release!Known \cup {Release!None}]
        /\ script'.at = "moved" /\ script'.build = b
    BY <2>1 DEF ServerTypes
  <2>. HIDE DEF b
  <2>5. packages' \in [Release!Codes -> Release!Known \cup {Release!None}]
    BY <2>1 DEF ServerTypes
  <2>6. ServerTypes'
    BY <2>1, <2>3, <2>4, <2>5 DEF ServerTypes
  <2>7. BuildsAreKnown'
    BY <1>0, <2>1, <2>4 DEF BuildsAreKnown, ServerTypes
  <2>8. ASSUME ~crossed' PROVE ReleaseIsOrderly'
    <3>1. ReleaseIsOrderly
      BY <2>2, <2>8
    <3>2. ASSUME NEW o \in Release!Known \cup {Release!None},
                 o \in {staged} \cup Release!Releasing, Stands(o)
          PROVE  o # Release!None => packages'[o.code] \in {o, Release!None}
      BY <2>1, <2>2, <2>8, <3>2 DEF Stands, ServerTypes
    <3>3. Stands(staged)'
      BY <2>1, <3>1, <3>2 DEF ReleaseIsOrderly, ServerTypes, Stands
    <3>4. ASSUME NEW a \in Release!Announcing
          PROVE  PressIsOrderly(a)'
      <4>1. panel[a].build \in Release!Releasing /\ panel[a].build \in Release!Known
        BY DEF Release!Releasing, BuildsAreKnown
      <4>. QED
        BY <2>1, <3>1, <3>2, <4>1 DEF ReleaseIsOrderly, PressIsOrderly, Stands
    <3>. QED
      BY <1>0, <2>1, <2>4, <3>1, <3>3, <3>4 DEF ReleaseIsOrderly, Stands, ServerTypes
  <2>. QED
    BY <2>6, <2>7, <2>8
<1>3. CASE Release!StageManifest
  <2>1. ServerTypes'
    BY <1>3 DEF Release!StageManifest, ServerTypes
  <2>2. script'.at = "rest"
    BY <1>3 DEF Release!StageManifest
  <2>3. BuildsAreKnown'
    BY <1>0, <1>3, <2>2 DEF Release!StageManifest, BuildsAreKnown
  <2>4. crossed' \/ ReleaseIsOrderly'
    BY <1>0, <1>3, <2>2
       DEF Release!StageManifest, ReleaseIsOrderly, Stands, PressIsOrderly
  <2>. QED
    BY <2>1, <2>3, <2>4
<1>4. CASE Release!ScriptStops
  <2>1. ServerTypes'
    BY <1>4 DEF Release!ScriptStops, Release!files, ServerTypes
  <2>2. script'.at = "rest"
    BY <1>4 DEF Release!ScriptStops
  <2>3. BuildsAreKnown'
    BY <1>0, <1>4, <2>2 DEF Release!ScriptStops, Release!files, BuildsAreKnown
  <2>4. crossed' \/ ReleaseIsOrderly'
    BY <1>0, <1>4, <2>2
       DEF Release!ScriptStops, Release!files, ReleaseIsOrderly, Stands, PressIsOrderly
  <2>. QED
    BY <2>1, <2>3, <2>4
<1>. QED
  BY <1>1, <1>2, <1>3, <1>4 DEF ScriptMoves

PanelMoves(a) ==
    \/ Release!OpenPanel(a) \/ Release!Press(a) \/ Release!Unlink(a) \/ Release!MovePackage(a)
    \/ Release!WriteScratch(a) \/ Release!RenameScratch(a) \/ Release!Unstage(a)

\* A panel that ends where no press is under way.
LEMMA PressEnds ==
    ASSUME ReleaseServer, NEW a \in Admins, NEW at \in Release!Shown,
           Release!Set(a, at, Release!None)
    PROVE  /\ panel' \in [Admins -> Row]
           /\ Release!Announcing' = Release!Announcing \ {a}
           /\ \A e \in Admins \ {a} : panel'[e] = panel[e]
<1>1. /\ panel' \in [Admins -> Row] /\ panel'[a].at = at
      /\ \A e \in Admins \ {a} : panel'[e] = panel[e]
  BY PanelSet DEF ReleaseServer
<1>2. at \notin Release!UnderWay
  BY DEF Release!Shown, Release!UnderWay
<1>. QED
  BY <1>1, <1>2 DEF Release!Announcing

\* A press that goes on with its build.
LEMMA PressGoes ==
    ASSUME ReleaseServer, NEW a \in Release!Announcing, NEW at \in Release!UnderWay,
           Release!Set(a, at, panel[a].build)
    PROVE  /\ a \in Admins /\ panel[a].build \in Release!Known
           /\ panel' \in [Admins -> Row]
           /\ panel'[a].at = at /\ panel'[a].build = panel[a].build
           /\ Release!Announcing' = Release!Announcing
           /\ \A e \in Admins \ {a} : panel'[e] = panel[e]
<1>1. a \in Admins /\ panel[a].build \in Release!Known
  BY DEF Release!Announcing, ReleaseServer, BuildsAreKnown
<1>2. /\ panel' \in [Admins -> Row]
      /\ panel'[a].at = at /\ panel'[a].build = panel[a].build
      /\ \A e \in Admins \ {a} : panel'[e] = panel[e]
  BY <1>1, PanelSet DEF ReleaseServer
<1>3. Release!Announcing' = Release!Announcing
  BY <1>1, <1>2 DEF Release!Announcing
<1>. QED
  BY <1>1, <1>2, <1>3

\* Nobody else's press is under way.
LEMMA AloneAtWork ==
    ASSUME ReleaseIsOrderly, NEW a \in Release!Announcing, NEW e \in Release!Announcing
    PROVE  e = a
BY DEF ReleaseIsOrderly

LEMMA PanelStep ==
    ASSUME ReleaseServer, NEW a \in Admins, PanelMoves(a)
    PROVE  ReleaseServer'
<1>. USE BuildsAreBuilds DEF ReleaseServer
<1>1. CASE Release!OpenPanel(a)
  <2>1. PICK at \in Release!Shown : Release!Set(a, at, Release!None)
    BY <1>1 DEF Release!OpenPanel, Release!Shown
  <2>2. /\ panel' \in [Admins -> Row]
        /\ Release!Announcing' = Release!Announcing
        /\ \A e \in Admins \ {a} : panel'[e] = panel[e]
    <3>1. a \notin Release!Announcing
      BY <1>1 DEF Release!OpenPanel, Release!Announcing, Release!Shown, Release!UnderWay
    <3>2. Release!Announcing' = Release!Announcing \ {a}
      BY <2>1, PressEnds
    <3>. QED
      BY <2>1, <3>1, <3>2, PressEnds
  <2>3. a \notin Release!Announcing
    BY <1>1 DEF Release!OpenPanel, Release!Announcing, Release!Shown, Release!UnderWay
  <2>4. ServerTypes'
    BY <1>1, <2>2 DEF Release!OpenPanel, Release!files, ServerTypes
  <2>5. BuildsAreKnown'
    BY <1>1, <2>2, <2>3 DEF Release!OpenPanel, Release!files, BuildsAreKnown, Release!Announcing
  <2>6. \A e \in Release!Announcing : panel'[e] = panel[e]
    BY <2>2, <2>3 DEF Release!Announcing
  <2>7. crossed' \/ ReleaseIsOrderly'
    BY <1>1, <2>2, <2>6
       DEF Release!OpenPanel, Release!files, ReleaseIsOrderly, Stands, PressIsOrderly
  <2>. QED
    BY <2>4, <2>5, <2>7
<1>2. CASE Release!Press(a)
  <2>1. a \notin Release!Announcing
    BY <1>2 DEF Release!Press, Release!Announcing, Release!UnderWay
  <2>2. presses' \in 0 .. MaxPresses /\ UNCHANGED <<Release!files, script, deaths>>
    BY <1>2, NumbersAssumption DEF Release!Press, ServerTypes
  <2>3. crossed' \in BOOLEAN /\ (crossed' \/ (~crossed /\ Release!Announcing = {}))
    BY <1>2, Zenon DEF Release!Press, ServerTypes
  <2>4. CASE staged = Release!None
    <3>1. Release!Set(a, "failed", Release!None)
      BY <1>2, <2>4 DEF Release!Press
    <3>0. /\ panel' \in [Admins -> Row]
          /\ Release!Announcing' = Release!Announcing \ {a}
          /\ \A e \in Admins \ {a} : panel'[e] = panel[e]
      BY <3>1, PressEnds DEF Release!Shown
    <3>2. /\ panel' \in [Admins -> Row]
          /\ Release!Announcing' = Release!Announcing
          /\ \A e \in Admins \ {a} : panel'[e] = panel[e]
      BY <2>1, <3>0
    <3>3. ServerTypes'
      BY <2>2, <2>3, <3>2 DEF Release!files, ServerTypes
    <3>4. BuildsAreKnown'
      BY <2>1, <2>2, <3>2 DEF Release!files, BuildsAreKnown, Release!Announcing
    <3>5. crossed' \/ ReleaseIsOrderly'
      BY <2>2, <2>3, <3>2 DEF Release!files, ReleaseIsOrderly, Stands
    <3>. QED
      BY <3>3, <3>4, <3>5
  <2>5. CASE staged # Release!None
    <3>1. Release!Set(a, "read", staged) /\ staged \in Release!Known
      BY <1>2, <2>5 DEF Release!Press, ServerTypes
    <3>2. /\ panel' \in [Admins -> Row]
          /\ panel'[a].at = "read" /\ panel'[a].build = staged
          /\ \A e \in Admins \ {a} : panel'[e] = panel[e]
      BY <3>1, PanelSet DEF Release!UnderWay
    <3>3. Release!Announcing' = Release!Announcing \cup {a}
      BY <3>2 DEF Release!Announcing, Release!UnderWay
    <3>4. ServerTypes'
      BY <2>2, <2>3, <3>2 DEF Release!files, ServerTypes
    <3>5. BuildsAreKnown'
      BY <2>1, <2>2, <3>1, <3>2, <3>3 DEF Release!files, BuildsAreKnown, Release!Announcing
    <3>6. crossed' \/ ReleaseIsOrderly'
      BY <2>2, <2>3, <3>2, <3>3 DEF Release!files, ReleaseIsOrderly, Stands, PressIsOrderly
    <3>. QED
      BY <3>4, <3>5, <3>6
  <2>. QED
    BY <2>4, <2>5
<1>3. CASE Release!Unlink(a)
  <2>1. a \in Release!Announcing
    BY <1>3 DEF Release!Unlink, Release!Announcing, Release!UnderWay
  <2>2. Release!Set(a, "unlinked", panel[a].build)
    BY <1>3 DEF Release!Unlink
  <2>3. /\ panel[a].build \in Release!Known
        /\ panel' \in [Admins -> Row]
        /\ panel'[a].at = "unlinked" /\ panel'[a].build = panel[a].build
        /\ Release!Announcing' = Release!Announcing
        /\ \A e \in Admins \ {a} : panel'[e] = panel[e]
    BY <2>1, <2>2, PressGoes DEF Release!UnderWay
  <2>4. ServerTypes'
    BY <1>3, <2>3 DEF Release!Unlink, ServerTypes
  <2>5. BuildsAreKnown'
    BY <1>3, <2>3 DEF Release!Unlink, BuildsAreKnown, Release!Announcing
  <2>6. ASSUME ReleaseIsOrderly, ~crossed' PROVE ReleaseIsOrderly'
    <3>1. \A e \in Release!Announcing : e = a
      BY <2>1, <2>6, AloneAtWork
    <3>2. PressIsOrderly(a)'
      BY <1>3, <2>1, <2>3, <2>6 DEF Release!Unlink, ReleaseIsOrderly, PressIsOrderly, Stands
    <3>. QED
      BY <1>3, <2>3, <2>6, <3>1, <3>2 DEF Release!Unlink, ReleaseIsOrderly, Stands
  <2>. QED
    BY <1>3, <2>4, <2>5, <2>6 DEF Release!Unlink
<1>4. CASE Release!MovePackage(a)
  <2>. DEFINE b == panel[a].build
  <2>1. a \in Release!Announcing /\ b \in Release!Known
    BY <1>4 DEF Release!MovePackage, Release!Announcing, Release!UnderWay, BuildsAreKnown
  <2>2. UNCHANGED <<latest, staged, scratch, script, presses, deaths, crossed>>
    BY <1>4 DEF Release!MovePackage
  <2>3. CASE packages[b.code] = Release!None
    <3>1. Release!Set(a, "failed", Release!None) /\ UNCHANGED <<apk, packages>>
      BY <1>4, <2>3 DEF Release!MovePackage
    <3>2. /\ panel' \in [Admins -> Row]
          /\ Release!Announcing' = Release!Announcing \ {a}
          /\ \A e \in Admins \ {a} : panel'[e] = panel[e]
      BY <3>1, PressEnds DEF Release!Shown
    <3>3. ServerTypes'
      BY <2>2, <3>1, <3>2 DEF ServerTypes
    <3>4. BuildsAreKnown'
      BY <2>2, <3>1, <3>2 DEF BuildsAreKnown, Release!Announcing
    <3>5. ASSUME ReleaseIsOrderly PROVE ReleaseIsOrderly'
      <4>1. Release!Announcing' = {}
        BY <2>1, <3>2, <3>5, AloneAtWork
      <4>. QED
        BY <2>2, <3>1, <3>5, <4>1 DEF ReleaseIsOrderly, Stands
    <3>. QED
      BY <2>2, <3>3, <3>4, <3>5
  <2>4. CASE packages[b.code] # Release!None
    <3>1. /\ Release!Set(a, "moved", b) /\ apk' = packages[b.code]
          /\ packages' = [packages EXCEPT ![b.code] = Release!None]
      BY <1>4, <2>4 DEF Release!MovePackage
    <3>2. /\ panel' \in [Admins -> Row]
          /\ panel'[a].at = "moved" /\ panel'[a].build = b
          /\ Release!Announcing' = Release!Announcing
          /\ \A e \in Admins \ {a} : panel'[e] = panel[e]
      BY <2>1, <3>1, PressGoes DEF Release!UnderWay
    <3>. HIDE DEF b
    <3>3. packages[b.code] \in Release!Known
      BY <2>1, <2>4 DEF ServerTypes
    <3>4. ServerTypes'
      BY <2>1, <2>2, <3>1, <3>2, <3>3 DEF ServerTypes
    <3>5. BuildsAreKnown'
      BY <2>1, <2>2, <3>1, <3>2 DEF BuildsAreKnown, Release!Announcing, ServerTypes
    <3>6. ASSUME ReleaseIsOrderly PROVE ReleaseIsOrderly'
      <4>1. \A e \in Release!Announcing : e = a
        BY <2>1, <3>6, AloneAtWork
      <4>2. latest = Release!None /\ packages[b.code] = b
        BY <1>4, <2>1, <2>4, <3>6
           DEF b, Release!MovePackage, ReleaseIsOrderly, PressIsOrderly, Stands
      <4>3. PressIsOrderly(a)'
        BY <2>2, <3>1, <3>2, <4>2 DEF PressIsOrderly
      <4>. QED
        BY <2>1, <2>2, <3>1, <3>2, <3>6, <4>1, <4>2, <4>3
           DEF ReleaseIsOrderly, Stands, ServerTypes
    <3>. QED
      BY <2>2, <3>4, <3>5, <3>6
  <2>. QED
    BY <2>3, <2>4
<1>5. CASE Release!WriteScratch(a)
  <2>1. a \in Release!Announcing
    BY <1>5 DEF Release!WriteScratch, Release!Announcing, Release!UnderWay
  <2>2. Release!Set(a, "written", panel[a].build)
    BY <1>5 DEF Release!WriteScratch
  <2>3. /\ panel[a].build \in Release!Known
        /\ panel' \in [Admins -> Row]
        /\ panel'[a].at = "written" /\ panel'[a].build = panel[a].build
        /\ Release!Announcing' = Release!Announcing
        /\ \A e \in Admins \ {a} : panel'[e] = panel[e]
    BY <2>1, <2>2, PressGoes DEF Release!UnderWay
  <2>4. ServerTypes'
    BY <1>5, <2>3 DEF Release!WriteScratch, ServerTypes
  <2>5. BuildsAreKnown'
    BY <1>5, <2>3 DEF Release!WriteScratch, BuildsAreKnown, Release!Announcing
  <2>6. ASSUME ReleaseIsOrderly, ~crossed' PROVE ReleaseIsOrderly'
    <3>1. \A e \in Release!Announcing : e = a
      BY <2>1, <2>6, AloneAtWork
    <3>2. PressIsOrderly(a)'
      BY <1>5, <2>1, <2>3, <2>6 DEF Release!WriteScratch, ReleaseIsOrderly, PressIsOrderly
    <3>. QED
      BY <1>5, <2>3, <2>6, <3>1, <3>2 DEF Release!WriteScratch, ReleaseIsOrderly, Stands
  <2>. QED
    BY <1>5, <2>4, <2>5, <2>6 DEF Release!WriteScratch
<1>6. CASE Release!RenameScratch(a)
  <2>1. a \in Release!Announcing
    BY <1>6 DEF Release!RenameScratch, Release!Announcing, Release!UnderWay
  <2>2. UNCHANGED <<apk, staged, packages, script, presses, deaths, crossed>>
    BY <1>6 DEF Release!RenameScratch
  <2>3. CASE scratch = Release!None
    <3>1. Release!Set(a, "failed", Release!None) /\ UNCHANGED <<latest, scratch>>
      BY <1>6, <2>3 DEF Release!RenameScratch
    <3>2. /\ panel' \in [Admins -> Row]
          /\ Release!Announcing' = Release!Announcing \ {a}
          /\ \A e \in Admins \ {a} : panel'[e] = panel[e]
      BY <3>1, PressEnds DEF Release!Shown
    <3>3. ServerTypes'
      BY <2>2, <3>1, <3>2 DEF ServerTypes
    <3>4. BuildsAreKnown'
      BY <2>2, <3>1, <3>2 DEF BuildsAreKnown, Release!Announcing
    <3>5. ASSUME ReleaseIsOrderly PROVE ReleaseIsOrderly'
      <4>1. Release!Announcing' = {}
        BY <2>1, <3>2, <3>5, AloneAtWork
      <4>. QED
        BY <2>2, <3>1, <3>5, <4>1 DEF ReleaseIsOrderly, Stands
    <3>. QED
      BY <2>2, <3>3, <3>4, <3>5
  <2>4. CASE scratch # Release!None
    <3>1. /\ Release!Set(a, "renamed", panel[a].build)
          /\ latest' = scratch /\ scratch' = Release!None
      BY <1>6, <2>4 DEF Release!RenameScratch
    <3>2. /\ panel[a].build \in Release!Known
          /\ panel' \in [Admins -> Row]
          /\ panel'[a].at = "renamed" /\ panel'[a].build = panel[a].build
          /\ Release!Announcing' = Release!Announcing
          /\ \A e \in Admins \ {a} : panel'[e] = panel[e]
      BY <2>1, <3>1, PressGoes DEF Release!UnderWay
    <3>3. ServerTypes'
      BY <2>2, <3>1, <3>2 DEF ServerTypes
    <3>4. BuildsAreKnown'
      BY <2>2, <3>2 DEF BuildsAreKnown, Release!Announcing
    <3>5. ASSUME ReleaseIsOrderly PROVE ReleaseIsOrderly'
      <4>1. \A e \in Release!Announcing : e = a
        BY <2>1, <3>5, AloneAtWork
      <4>2. scratch = panel[a].build /\ apk = panel[a].build
        BY <1>6, <2>1, <3>5 DEF Release!RenameScratch, ReleaseIsOrderly, PressIsOrderly
      <4>3. PressIsOrderly(a)'
        BY <2>2, <3>1, <3>2, <4>2 DEF PressIsOrderly
      <4>. QED
        BY <2>2, <3>1, <3>2, <3>5, <4>1, <4>2, <4>3 DEF ReleaseIsOrderly, Stands
    <3>. QED
      BY <2>2, <3>3, <3>4, <3>5
  <2>. QED
    BY <2>3, <2>4
<1>7. CASE Release!Unstage(a)
  <2>1. Release!Set(a, "done", Release!None) /\ staged' = Release!None
        /\ UNCHANGED <<latest, apk, packages, scratch, script, presses, deaths, crossed>>
    BY <1>7 DEF Release!Unstage
  <2>2. a \in Release!Announcing
    BY <1>7 DEF Release!Unstage, Release!Announcing, Release!UnderWay
  <2>3. /\ panel' \in [Admins -> Row]
        /\ Release!Announcing' = Release!Announcing \ {a}
        /\ \A e \in Admins \ {a} : panel'[e] = panel[e]
    BY <2>1, PressEnds DEF Release!Shown
  <2>4. ServerTypes'
    BY <2>1, <2>3 DEF ServerTypes
  <2>5. BuildsAreKnown'
    BY <2>1, <2>3 DEF BuildsAreKnown, Release!Announcing
  <2>6. ASSUME ReleaseIsOrderly PROVE ReleaseIsOrderly'
    <3>1. Release!Announcing' = {}
      BY <2>2, <2>3, <2>6, AloneAtWork
    <3>. QED
      BY <2>1, <2>6, <3>1 DEF ReleaseIsOrderly, Stands
  <2>. QED
    BY <2>1, <2>4, <2>5, <2>6
<1>. QED
  BY <1>1, <1>2, <1>3, <1>4, <1>5, <1>6, <1>7 DEF PanelMoves

\* A death: every press that was under way is over.
LEMMA DeathStep ==
    ASSUME ReleaseServer, Release!Die
    PROVE  ReleaseServer'
<1>. USE BuildsAreBuilds DEF ReleaseServer
<1>. DEFINE lost == [at |-> "failed", build |-> Release!None]
<1>1. lost \in Row /\ lost.at \notin Release!UnderWay
  BY DEF Row, Release!Shown, Release!UnderWay
<1>2. /\ panel' = [a \in Admins |-> IF panel[a].at \in Release!UnderWay THEN lost ELSE panel[a]]
      /\ UNCHANGED <<Release!files, script, presses, crossed>>
      /\ deaths' \in 0 .. MaxDeaths
  BY NumbersAssumption DEF Release!Die, ServerTypes
<1>. HIDE DEF lost
<1>3. panel' \in [Admins -> Row] /\ Release!Announcing' = {}
  BY <1>1, <1>2 DEF Release!Announcing, ServerTypes
<1>4. ServerTypes'
  BY <1>2, <1>3 DEF Release!files, ServerTypes
<1>5. BuildsAreKnown'
  BY <1>2, <1>3 DEF Release!files, BuildsAreKnown
<1>6. crossed' \/ ReleaseIsOrderly'
  BY <1>2, <1>3 DEF Release!files, ReleaseIsOrderly, Stands
<1>. QED
  BY <1>4, <1>5, <1>6

UpdaterMoves ==
    \/ Release!CheckForUpdate \/ Release!Start \/ Release!NotAllowed \/ Release!Granted
    \/ Release!Download \/ Release!DownloadFails \/ Release!Verify
    \/ Release!Accept \/ Release!Dismiss \/ Release!InstallByHand \/ Release!PhoneDies

\* What the phone knows in a new process is newer than what it runs.
LEMMA RestartedIsSound ==
    ASSUME PhoneTypes, UpdatesGoForward, NEW b \in Release!Known,
           NEW r, r = Release!Restarted(b)
    PROVE  /\ r \in Updater /\ r.job = "none" /\ r.promise = Release!None
           /\ r.state = "idle" <=> r.manifest = Release!None
           /\ \A m \in {r.manifest, r.pending, r.promise} : m # Release!None => m.code > b.code
<1>. DEFINE note == IF phone.pending.code > b.code THEN phone.pending ELSE Release!None
            status == IF note = Release!None THEN "idle" ELSE "available"
<1>1. note \in Release!Known \cup {Release!None} /\ (note # Release!None => note.code > b.code)
  BY DEF PhoneTypes, Updater
<1>2. status \in {"idle", "available"} /\ (status = "idle" <=> note = Release!None)
  OBVIOUS
<1>3. r = [state |-> status, manifest |-> note, pending |-> note, job |-> "none",
           promise |-> Release!None, file |-> phone.file]
  BY DEF Release!Restarted
<1>4. phone.file \in Release!File
  BY DEF PhoneTypes, Updater
<1>. HIDE DEF note, status
<1>5. r \in Updater
  BY <1>1, <1>2, <1>3, <1>4 DEF Updater
<1>6. r.state = status /\ r.manifest = note /\ r.pending = note
      /\ r.job = "none" /\ r.promise = Release!None
  BY <1>3
<1>. QED
  BY <1>1, <1>2, <1>5, <1>6

LEMMA UpdaterStep ==
    ASSUME ServerTypes, PhoneTypes, UpdatesGoForward, UpdaterMoves
    PROVE  PhoneTypes' /\ UpdatesGoForward'
<1>. USE BuildsAreBuilds
<1>0. /\ phone \in Updater /\ installed \in Release!Known
      /\ latest \in Release!Known \cup {Release!None}
      /\ apk \in Release!Known \cup {Release!None}
  BY DEF PhoneTypes, ServerTypes
<1>1. CASE Release!CheckForUpdate
  <2>1. latest # Release!None /\ installed' = installed
    BY <1>1 DEF Release!CheckForUpdate
  <2>2. CASE latest.code <= installed.code
    <3>1. phone' = [phone EXCEPT !.state = "idle", !.manifest = Release!None,
                                 !.pending = Release!None]
      BY <1>1, <2>2 DEF Release!CheckForUpdate
    <3>2. /\ phone' \in Updater /\ phone'.state = "idle" /\ phone'.manifest = Release!None
          /\ phone'.pending = Release!None /\ phone'.job = phone.job
          /\ phone'.promise = phone.promise /\ phone'.file = phone.file
      BY <1>0, <3>1 DEF Updater
    <3>. QED
      BY <1>0, <2>1, <3>2 DEF PhoneTypes, UpdatesGoForward
  <2>3. CASE ~(latest.code <= installed.code) /\ phone.state = "busy"
    <3>1. phone' = phone
      BY <1>1, <2>3 DEF Release!CheckForUpdate
    <3>. QED
      BY <1>0, <2>1, <3>1 DEF PhoneTypes, UpdatesGoForward
  <2>4. CASE ~(latest.code <= installed.code) /\ phone.state # "busy"
    <3>1. phone' = [phone EXCEPT !.state = "available", !.manifest = latest, !.pending = latest]
      BY <1>1, <2>4 DEF Release!CheckForUpdate
    <3>2. /\ phone' \in Updater /\ phone'.state = "available" /\ phone'.manifest = latest
          /\ phone'.pending = latest /\ phone'.job = phone.job
          /\ phone'.promise = phone.promise /\ phone'.file = phone.file
      BY <1>0, <3>1 DEF Updater
    <3>3. latest.code > installed.code
      BY <1>0, <2>1, <2>4
    <3>. QED
      BY <1>0, <2>1, <3>2, <3>3 DEF PhoneTypes, UpdatesGoForward
  <2>. QED
    BY <2>2, <2>3, <2>4
<1>2. CASE Release!Start
  <2>1. /\ phone.state \in {"available", "failed"} /\ installed' = installed
        /\ phone' = [phone EXCEPT !.state = "busy", !.job = "downloading",
                                  !.promise = phone.manifest]
    BY <1>2 DEF Release!Start
  <2>2. /\ phone' \in Updater /\ phone'.state = "busy" /\ phone'.manifest = phone.manifest
        /\ phone'.pending = phone.pending /\ phone'.job = "downloading"
        /\ phone'.promise = phone.manifest
    BY <1>0, <2>1 DEF Updater
  <2>. QED
    BY <1>0, <2>1, <2>2 DEF PhoneTypes, UpdatesGoForward
<1>3. CASE Release!NotAllowed \/ Release!Granted
  <2>1. PICK s \in {"available", "failed"} : /\ phone' = [phone EXCEPT !.state = s]
                                             /\ phone.state # "idle" /\ installed' = installed
    BY <1>3 DEF Release!NotAllowed, Release!Granted
  <2>2. /\ phone' \in Updater /\ phone'.state = s /\ phone'.manifest = phone.manifest
        /\ phone'.pending = phone.pending /\ phone'.job = phone.job
        /\ phone'.promise = phone.promise /\ phone'.file = phone.file
    BY <1>0, <2>1 DEF Updater
  <2>. QED
    BY <1>0, <2>1, <2>2 DEF PhoneTypes, UpdatesGoForward
<1>4. ASSUME NEW job \in {"verifying", "dialog"}, NEW file \in Release!File,
             phone.promise # Release!None, installed' = installed,
             job = "dialog" => file.holds = phone.promise, Release!Goes(job, file)
      PROVE  PhoneTypes' /\ UpdatesGoForward'
  <2>1. phone' = [phone EXCEPT !.state = "busy", !.manifest = phone.promise, !.job = job,
                               !.file = file]
    BY <1>4 DEF Release!Goes
  <2>2. /\ phone' \in Updater /\ phone'.state = "busy" /\ phone'.manifest = phone.promise
        /\ phone'.pending = phone.pending /\ phone'.job = job
        /\ phone'.promise = phone.promise /\ phone'.file = file
    BY <1>0, <1>4, <2>1 DEF Updater
  <2>. QED
    BY <1>0, <1>4, <2>2 DEF PhoneTypes, UpdatesGoForward
<1>5. ASSUME phone.promise # Release!None, installed' = installed,
             Release!Fails(Release!NoFile)
      PROVE  PhoneTypes' /\ UpdatesGoForward'
  <2>. DEFINE file == Release!NoFile
  <2>1. file \in Release!File
    BY DEF Release!File, Release!NoFile
  <2>2. phone' = [phone EXCEPT !.state = "failed", !.manifest = phone.promise, !.job = "none",
                               !.promise = Release!None, !.file = file]
    BY <1>5 DEF Release!Fails
  <2>. HIDE DEF file
  <2>3. /\ phone' \in Updater /\ phone'.state = "failed" /\ phone'.manifest = phone.promise
        /\ phone'.pending = phone.pending /\ phone'.job = "none"
        /\ phone'.promise = Release!None
    BY <1>0, <2>1, <2>2 DEF Updater
  <2>. QED
    BY <1>0, <1>5, <2>3 DEF PhoneTypes, UpdatesGoForward
<1>6. phone.job # "none" => phone.promise \in Release!Known
  BY <1>0 DEF PhoneTypes, Updater
<1>7. CASE Release!Download
  <2>1. PICK file : /\ file = (IF Release!HasFile THEN phone.file
                               ELSE [name |-> phone.promise.code, holds |-> apk])
                    /\ Release!Goes("verifying", file)
    BY <1>7 DEF Release!Download
  <2>2. phone.job = "downloading" /\ installed' = installed
    BY <1>7 DEF Release!Download
  <2>3. file \in Release!File
    BY <1>0, <1>6, <2>1, <2>2 DEF Release!File, Updater
  <2>. QED
    BY <1>4, <1>6, <2>1, <2>2, <2>3
<1>8. CASE Release!DownloadFails
  BY <1>5, <1>6, <1>8 DEF Release!DownloadFails
<1>9. CASE Release!Verify
  <2>1. phone.job = "verifying" /\ installed' = installed
    BY <1>9 DEF Release!Verify
  <2>2. CASE phone.file.holds.bytes = phone.promise.bytes
    <3>1. phone.file \in Release!File /\ phone.file.holds \in Release!Known \cup {Release!None}
      BY <1>0 DEF Updater, Release!File
    <3>2. phone.file.holds = phone.promise
      BY <1>6, <2>1, <2>2, <3>1
    <3>3. Release!Goes("dialog", phone.file)
      BY <1>9, <2>2 DEF Release!Verify
    <3>. QED
      BY <1>4, <1>6, <2>1, <3>1, <3>2, <3>3
  <2>3. CASE phone.file.holds.bytes # phone.promise.bytes
    BY <1>5, <1>6, <1>9, <2>1, <2>3 DEF Release!Verify
  <2>. QED
    BY <2>2, <2>3
<1>10. ASSUME NEW b \in Release!Known, installed' = b, phone' = Release!Restarted(b)
       PROVE  PhoneTypes' /\ UpdatesGoForward'
  <2>1. /\ phone' \in Updater /\ phone'.job = "none" /\ phone'.promise = Release!None
        /\ phone'.state = "idle" <=> phone'.manifest = Release!None
        /\ \A m \in {phone'.manifest, phone'.pending, phone'.promise} :
              m # Release!None => m.code > b.code
    BY <1>10, RestartedIsSound
  <2>. QED
    BY <1>10, <2>1 DEF PhoneTypes, UpdatesGoForward
<1>11. CASE Release!Accept
  <2>1. phone.job = "dialog" /\ phone.file.holds = phone.promise /\ phone.promise \in Release!Known
    BY <1>6, <1>11 DEF Release!Accept, UpdatesGoForward
  <2>2. installed' = phone.promise /\ phone' = Release!Restarted(phone.promise)
    BY <1>11, <2>1 DEF Release!Accept
  <2>. QED
    BY <1>10, <2>1, <2>2
<1>12. CASE Release!Dismiss
  <2>1. /\ installed' = installed /\ phone.job = "dialog"
        /\ phone' = [phone EXCEPT !.job = "none", !.promise = Release!None]
    BY <1>12 DEF Release!Dismiss
  <2>2. /\ phone' \in Updater /\ phone'.state = phone.state /\ phone'.manifest = phone.manifest
        /\ phone'.pending = phone.pending /\ phone'.job = "none"
        /\ phone'.promise = Release!None
    BY <1>0, <2>1 DEF Updater
  <2>. QED
    BY <1>0, <2>1, <2>2 DEF PhoneTypes, UpdatesGoForward
<1>13. CASE Release!InstallByHand
  <2>1. apk.code > installed.code /\ installed' = apk /\ phone' = Release!Restarted(apk)
    BY <1>13 DEF Release!InstallByHand
  <2>2. apk \in Release!Known
    BY <1>0, <2>1
  <2>. QED
    BY <1>10, <2>1, <2>2
<1>14. CASE Release!PhoneDies
  BY <1>0, <1>10, <1>14 DEF Release!PhoneDies
<1>. QED
  BY <1>1, <1>2, <1>3, <1>7, <1>8, <1>9, <1>11, <1>12, <1>13, <1>14 DEF UpdaterMoves

\* The whole of the release.
LEMMA ReleaseStep ==
    ASSUME ReleaseInv, Release!Next
    PROVE  ReleaseInv'
<1>1. ReleaseServer /\ PhoneTypes /\ UpdatesGoForward
  BY ReleaseTypes DEF ReleaseInv, ReleaseServer
<1>2. \/ ScriptMoves \/ (\E a \in Admins : PanelMoves(a)) \/ Release!Die
      \/ UpdaterMoves
  BY DEF Release!Next, ScriptMoves, PanelMoves, UpdaterMoves
<1>3. CASE ScriptMoves \/ (\E a \in Admins : PanelMoves(a)) \/ Release!Die
  <2>1. ReleaseServer'
    BY <1>1, <1>3, ScriptStep, PanelStep, DeathStep
  <2>2. UNCHANGED <<phone, installed>>
    BY <1>3 DEF ScriptMoves, PanelMoves, Release!Die, Release!Check, Release!StagePackage,
                Release!StageManifest, Release!ScriptStops, Release!OpenPanel, Release!Press,
                Release!Unlink, Release!MovePackage, Release!WriteScratch,
                Release!RenameScratch, Release!Unstage
  <2>3. PhoneTypes' /\ UpdatesGoForward'
    BY <1>1, <2>2 DEF PhoneTypes, UpdatesGoForward
  <2>. QED
    BY <2>1, <2>3, ReleaseTypesNext DEF ReleaseInv, ReleaseServer
<1>4. CASE UpdaterMoves
  <2>1. PhoneTypes' /\ UpdatesGoForward'
    BY <1>1, <1>4, UpdaterStep DEF ReleaseServer
  <2>2. Release!Quiet
    BY <1>4 DEF UpdaterMoves, Release!CheckForUpdate, Release!Start, Release!NotAllowed,
                Release!Granted, Release!Download, Release!DownloadFails, Release!Verify,
                Release!Accept, Release!Dismiss, Release!InstallByHand, Release!PhoneDies
  <2>3. ServerTypes'
    BY <1>1, <2>2 DEF ReleaseServer, Release!Quiet, Release!files, ServerTypes
  <2>4. BuildsAreKnown' /\ (crossed' \/ ReleaseIsOrderly')
    BY <1>1, <2>2
       DEF ReleaseServer, Release!Quiet, Release!files, BuildsAreKnown, ReleaseIsOrderly,
           Stands, PressIsOrderly, Release!Announcing
  <2>. QED
    BY <2>1, <2>3, <2>4, ReleaseTypesNext DEF ReleaseInv
<1>. QED
  BY <1>2, <1>3, <1>4

\* The manifest promises what the download has.
LEMMA ReleaseIsExact == ReleaseInv => Release!PromiseMatchesPackage
BY DEF ReleaseInv, ReleaseIsOrderly, Release!PromiseMatchesPackage

\* A new build runs because the driver accepted it: it is that one, and newer.
LEMMA AcceptedIsInstalled ==
    ASSUME ReleaseInv, Release!Next
    PROVE  Release!InstalledAsPromisedStep
<1>. SUFFICES ASSUME phone.job = "dialog", installed' # installed
              PROVE  installed' = phone.promise /\ installed'.code > installed.code
  BY DEF Release!InstalledAsPromisedStep
<1>1. Release!Accept
  BY DEF Release!Next, Release!Die, Release!Check, Release!StagePackage,
         Release!StageManifest, Release!ScriptStops, Release!OpenPanel, Release!Press,
         Release!Unlink, Release!MovePackage, Release!WriteScratch,
         Release!RenameScratch, Release!Unstage, Release!CheckForUpdate, Release!Start,
         Release!NotAllowed, Release!Granted, Release!Download, Release!DownloadFails,
         Release!Verify, Release!Accept, Release!Dismiss, Release!InstallByHand,
         Release!PhoneDies
<1>2. phone.promise # Release!None /\ phone.file.holds = phone.promise
  BY ReleaseTypes DEF ReleaseInv, PhoneTypes, UpdatesGoForward
<1>. QED
  BY <1>1, <1>2 DEF Release!Accept, ReleaseInv, UpdatesGoForward

-----------------------------------------------------------------------------
(* The sign-in.                                                            *)

\* Passwords submitted and not judged yet, and of them those not let through.
Ahead == {d \in Desks : request[d].at \in {"ip", "subject", "read", "verify"}}
Unpassed == {d \in Desks : request[d].at \in {"ip", "subject"}}

\* What is counted was submitted.
Submitted ==
    /\ failed + Cardinality(Ahead) <= tries /\ wrong + Cardinality(Ahead) <= tries
    /\ passed + Cardinality(Unpassed) <= tries
    /\ \A d \in Desks : request[d].at = "verify" =>
          request[d].failed + Cardinality(Ahead) <= tries

\* Without an outage a password let through was counted.
Windowed == open \/ (passed <= perAccount /\ passed <= PerSubject)

\* Without an overlap whoever has read the row has read it as it is.
ReadAsItIs ==
    overlapped \/ \A d \in Desks : request[d].at = "verify" =>
                     request[d].failed = failed /\ (request[d].locked <=> locked)

LoginInv == /\ Login!TypeOK /\ Submitted /\ Windowed /\ ReadAsItIs
            /\ Login!EveryFailureCounts

LEMMA LoginInitHolds == Login!Init => LoginInv
<1>. SUFFICES ASSUME Login!Init PROVE LoginInv
  OBVIOUS
<1>. USE NumbersAssumption DEF Login!Init
<1>1. redis \in BOOLEAN /\ locked \in BOOLEAN /\ open \in BOOLEAN /\ overlapped \in BOOLEAN
  BY Zenon
<1>2. Login!TypeOK
  BY <1>1 DEF Login!TypeOK
<1>3. \A d \in Desks : request[d].at = "idle"
  BY DEF Login!Idle
<1>4. Ahead = {} /\ Unpassed = {}
  BY <1>3 DEF Ahead, Unpassed
<1>. QED
  BY <1>1, <1>2, <1>3, <1>4, FS_EmptySet
     DEF LoginInv, Submitted, Windowed, ReadAsItIs, Login!EveryFailureCounts

\* A request moves on, or is answered; every other stays as it is.
RequestGoes(d, to) ==
    /\ request' \in [Desks -> {Login!Idle} \cup Login!Request]
    /\ request'[d].at = to
    /\ request'[d].failed = request[d].failed
    /\ request'[d].locked = request[d].locked
    /\ \A e \in Desks \ {d} : request'[e] = request[e]

LEMMA RequestMoves ==
    ASSUME Login!TypeOK, NEW d \in Desks, request[d] # Login!Idle,
           NEW to \in Login!Stages, Login!Goes(d, to)
    PROVE  RequestGoes(d, to)
<1>. DEFINE moved == [request[d] EXCEPT !.at = to]
<1>1. request[d] \in Login!Request /\ request \in [Desks -> {Login!Idle} \cup Login!Request]
  BY DEF Login!TypeOK
<1>2. /\ moved \in Login!Request
      /\ moved.at = to /\ moved.failed = request[d].failed /\ moved.locked = request[d].locked
  BY <1>1 DEF Login!Request
<1>3. request' = [request EXCEPT ![d] = moved]
  BY DEF Login!Goes
<1>. HIDE DEF moved
<1>. QED
  BY <1>1, <1>2, <1>3 DEF RequestGoes

LEMMA RequestAnswered ==
    ASSUME Login!TypeOK, NEW d \in Desks, request[d] # Login!Idle,
           NEW status \in Login!Answers, Login!Replies(d, status)
    PROVE  RequestGoes(d, "answer") /\ request'[d].status = status
<1>. DEFINE told == [request[d] EXCEPT !.at = "answer", !.status = status]
<1>1. request[d] \in Login!Request /\ request \in [Desks -> {Login!Idle} \cup Login!Request]
  BY DEF Login!TypeOK
<1>2. request' = [request EXCEPT ![d] = told]
  BY DEF Login!Replies
<1>3. "answer" \in Login!Stages
  BY DEF Login!Stages
<1>4. /\ told \in Login!Request /\ told.at = "answer" /\ told.status = status
      /\ told.failed = request[d].failed /\ told.locked = request[d].locked
  BY <1>1, <1>3 DEF Login!Request
<1>. HIDE DEF told
<1>. QED
  BY <1>1, <1>2, <1>4 DEF RequestGoes

\* One request of the sets less or more.
One(b) == IF b THEN 1 ELSE 0

LEMMA OneDesk ==
    ASSUME NEW S \in SUBSET Desks, NEW T \in SUBSET Desks, NEW d \in Desks,
           S \ {d} = T \ {d}
    PROVE  /\ Cardinality(S) \in Nat /\ Cardinality(T) \in Nat
           /\ Cardinality(T) + One(d \in S) = Cardinality(S) + One(d \in T)
<1>1. IsFiniteSet(S) /\ IsFiniteSet(T)
  BY NumbersAssumption, FS_Subset
<1>2. CASE (d \in S) <=> (d \in T)
  <2>1. S = T
    BY <1>2
  <2>. QED
    BY <1>1, <2>1, FS_CardinalityType DEF One
<1>3. CASE d \in S /\ d \notin T
  <2>1. T = S \ {d}
    BY <1>3
  <2>. QED
    BY <1>1, <1>3, <2>1, FS_CardinalityType, FS_RemoveElement DEF One
<1>4. CASE d \notin S /\ d \in T
  <2>1. S = T \ {d}
    BY <1>4
  <2>. QED
    BY <1>1, <1>4, <2>1, FS_CardinalityType, FS_RemoveElement DEF One
<1>. QED
  BY <1>2, <1>3, <1>4

Judgeable == {"ip", "subject", "read", "verify"}
Countable == {"ip", "subject"}

\* A desk's request moves from one stage to another, and no other does.
LEMMA DeskMoves ==
    ASSUME NEW d \in Desks, \A e \in Desks \ {d} : request'[e].at = request[e].at
    PROVE  /\ Cardinality(Ahead) \in Nat /\ Cardinality(Ahead') \in Nat
           /\ Cardinality(Unpassed) \in Nat /\ Cardinality(Unpassed') \in Nat
           /\ Cardinality(Ahead') + One(request[d].at \in Judgeable)
                  = Cardinality(Ahead) + One(request'[d].at \in Judgeable)
           /\ Cardinality(Unpassed') + One(request[d].at \in Countable)
                  = Cardinality(Unpassed) + One(request'[d].at \in Countable)
<1>1. /\ Ahead \in SUBSET Desks /\ Ahead' \in SUBSET Desks
      /\ Unpassed \in SUBSET Desks /\ Unpassed' \in SUBSET Desks
  BY DEF Ahead, Unpassed
<1>2. Ahead \ {d} = Ahead' \ {d} /\ Unpassed \ {d} = Unpassed' \ {d}
  BY DEF Ahead, Unpassed
<1>3. /\ (d \in Ahead) <=> (request[d].at \in Judgeable)
      /\ (d \in Ahead') <=> (request'[d].at \in Judgeable)
      /\ (d \in Unpassed) <=> (request[d].at \in Countable)
      /\ (d \in Unpassed') <=> (request'[d].at \in Countable)
  BY DEF Ahead, Unpassed, Judgeable, Countable
<1>4. /\ Cardinality(Ahead) \in Nat /\ Cardinality(Ahead') \in Nat
      /\ Cardinality(Ahead') + One(d \in Ahead) = Cardinality(Ahead) + One(d \in Ahead')
  BY <1>1, <1>2, OneDesk
<1>5. /\ Cardinality(Unpassed) \in Nat /\ Cardinality(Unpassed') \in Nat
      /\ Cardinality(Unpassed') + One(d \in Unpassed)
             = Cardinality(Unpassed) + One(d \in Unpassed')
  BY <1>1, <1>2, OneDesk
<1>. QED
  BY <1>3, <1>4, <1>5 DEF One

\* The types but those of the counts, which Submitted bounds.
LoginShape ==
    /\ redis \in BOOLEAN
    /\ perAddress \in [Login!Addresses -> 0 .. PerIp + 1]
    /\ perAccount \in 0 .. PerSubject + 1
    /\ failed \in Nat /\ locked \in BOOLEAN
    /\ request \in [Desks -> {Login!Idle} \cup Login!Request]
    /\ page \in [Desks -> {"form", "busy", "told", "reloaded", "in"}]
    /\ tries \in 0 .. MaxTries /\ trouble \in 0 .. MaxTrouble
    /\ passed \in Nat /\ open \in BOOLEAN
    /\ wrong \in Nat /\ overlapped \in BOOLEAN

LoginCore == LoginShape /\ Submitted /\ Windowed /\ ReadAsItIs /\ Login!EveryFailureCounts

LEMMA LoginCoreIsAll == LoginCore' => LoginInv'
<1>. SUFFICES ASSUME LoginCore' PROVE Login!TypeOK'
  BY DEF LoginCore, LoginInv
<1>1. IsFiniteSet(Ahead') /\ IsFiniteSet(Unpassed')
  BY NumbersAssumption, FS_Subset DEF Ahead, Unpassed
<1>2. Cardinality(Ahead') \in Nat /\ Cardinality(Unpassed') \in Nat
  BY <1>1, FS_CardinalityType
<1>3. failed' \in 0 .. MaxTries /\ wrong' \in 0 .. MaxTries /\ passed' \in 0 .. MaxTries
  BY <1>2, NumbersAssumption DEF LoginCore, LoginShape, Submitted
<1>. QED
  BY <1>3 DEF LoginCore, LoginShape, Login!TypeOK

\* What every step of the guard and the handler starts from.
LEMMA Under ==
    ASSUME LoginInv, NEW d \in Desks, request[d].at \in Login!Stages
    PROVE  /\ request[d] # Login!Idle /\ request[d] \in Login!Request
           /\ request[d].failed \in 0 .. MaxTries /\ request[d].locked \in BOOLEAN
<1>1. request[d] # Login!Idle /\ request[d] \in Login!Request
  BY DEF LoginInv, Login!TypeOK, Login!Idle, Login!Stages
<1>. QED
  BY <1>1 DEF Login!Request

\* A count of wrong passwords that was read leaves room for those ahead.
LEMMA ReadLeavesRoom ==
    ASSUME LoginInv, NEW d \in Desks, request'[d].at # "verify",
           \A e \in Desks \ {d} : request'[e] = request[e],
           Cardinality(Ahead) \in Nat, Cardinality(Ahead') \in Nat, tries' \in Nat,
           Cardinality(Ahead') + tries <= Cardinality(Ahead) + tries'
    PROVE  (\A e \in Desks : request[e].at = "verify" =>
                request[e].failed + Cardinality(Ahead) <= tries)'
<1>. SUFFICES ASSUME NEW e \in Desks, request'[e].at = "verify"
              PROVE  request'[e].failed + Cardinality(Ahead') <= tries'
  OBVIOUS
<1>1. e # d /\ request'[e] = request[e] /\ request[e].at = "verify"
  OBVIOUS
<1>2. request[e].failed \in Nat
  BY <1>1, Under, NumbersAssumption DEF Login!Stages
<1>3. request[e].failed + Cardinality(Ahead) <= tries /\ tries \in Nat
  BY <1>1, NumbersAssumption DEF LoginInv, Submitted, Login!TypeOK
<1>. QED
  BY <1>1, <1>2, <1>3

LEMMA SubmitHolds ==
    ASSUME LoginInv, NEW d \in Desks, NEW right \in BOOLEAN, Login!Submit(d, right)
    PROVE  LoginCore'
<1>. DEFINE r == [at |-> "ip", right |-> right, failed |-> 0, locked |-> FALSE, status |-> 0]
<1>1. Login!TypeOK /\ Submitted
  BY DEF LoginInv
<1>2. r \in Login!Request
  BY NumbersAssumption DEF Login!Request, Login!Stages, Login!Answers
<1>3. request' = [request EXCEPT ![d] = r] /\ r.at = "ip"
  BY DEF Login!Submit
<1>. HIDE DEF r
<1>4. /\ request' \in [Desks -> {Login!Idle} \cup Login!Request] /\ request'[d].at = "ip"
      /\ \A e \in Desks \ {d} : request'[e] = request[e]
  BY <1>1, <1>2, <1>3 DEF Login!TypeOK
<1>5. request[d].at = "idle"
  BY DEF Login!Submit, Login!Idle
<1>6. LoginShape'
  BY <1>1, <1>4, NumbersAssumption DEF Login!TypeOK, LoginShape, Login!Submit,
     Login!limiter, Login!account, Login!history
<1>7. Submitted'
  <2>1. /\ Cardinality(Ahead) \in Nat /\ Cardinality(Ahead') = Cardinality(Ahead) + 1
        /\ Cardinality(Unpassed) \in Nat
        /\ Cardinality(Unpassed') = Cardinality(Unpassed) + 1
    BY <1>4, <1>5, DeskMoves DEF One, Judgeable, Countable
  <2>2. tries' = tries + 1 /\ tries \in Nat /\ UNCHANGED <<failed, wrong, passed>>
    BY <1>1, NumbersAssumption DEF Login!TypeOK, Login!Submit, Login!account, Login!history
  <2>. QED
    BY <1>1, <1>4, <2>1, <2>2, ReadLeavesRoom DEF Submitted, Login!TypeOK
<1>8. (Windowed /\ ReadAsItIs /\ Login!EveryFailureCounts)'
  BY <1>4 DEF LoginInv, Windowed, ReadAsItIs, Login!EveryFailureCounts, Login!Submit,
     Login!limiter, Login!account, Login!history
<1>. QED
  BY <1>6, <1>7, <1>8 DEF LoginCore

LEMMA CountIpHolds ==
    ASSUME LoginInv, NEW d \in Desks, Login!CountIp(d)
    PROVE  LoginCore'
<1>. DEFINE a == AddressOf[d]
            n == Login!Counted(perAddress[a], PerIp)
<1>1. Login!TypeOK /\ Submitted /\ request[d].at = "ip" /\ request[d] # Login!Idle
  BY Under DEF LoginInv, Login!CountIp, Login!Stages
<1>2. PICK to \in {"subject", "answer"} : RequestGoes(d, to)
  BY <1>1, RequestMoves, RequestAnswered DEF Login!CountIp, Login!Stages, Login!Answers
<1>3. a \in Login!Addresses /\ n \in 0 .. PerIp + 1
  BY <1>1, NumbersAssumption DEF Login!TypeOK, Login!Addresses, Login!Counted
<1>4. LoginShape'
  BY <1>1, <1>2, <1>3 DEF Login!TypeOK, LoginShape, Login!CountIp, RequestGoes,
     Login!account, Login!bounds, Login!history
<1>5. Submitted'
  <2>1. /\ Cardinality(Ahead) \in Nat /\ Cardinality(Ahead') <= Cardinality(Ahead)
        /\ Cardinality(Unpassed) \in Nat /\ Cardinality(Unpassed') <= Cardinality(Unpassed)
        /\ Cardinality(Ahead') \in Nat /\ Cardinality(Unpassed') \in Nat
    BY <1>1, <1>2, DeskMoves DEF One, Judgeable, Countable, RequestGoes
  <2>2. tries \in Nat /\ UNCHANGED <<failed, wrong, passed, tries>>
    BY <1>1, NumbersAssumption DEF Login!TypeOK, Login!CountIp, Login!account, Login!bounds,
       Login!history
  <2>. QED
    BY <1>1, <1>2, <2>1, <2>2, ReadLeavesRoom DEF Submitted, Login!TypeOK, RequestGoes
<1>6. (Windowed /\ ReadAsItIs /\ Login!EveryFailureCounts)'
  BY <1>2 DEF LoginInv, Windowed, ReadAsItIs, Login!EveryFailureCounts, Login!CountIp,
     RequestGoes, Login!account, Login!history
<1>. QED
  BY <1>4, <1>5, <1>6 DEF LoginCore

LEMMA CountSubjectHolds ==
    ASSUME LoginInv, NEW d \in Desks, Login!CountSubject(d)
    PROVE  LoginCore'
<1>. DEFINE n == Login!Counted(perAccount, PerSubject)
<1>1. Login!TypeOK /\ Submitted /\ request[d].at = "subject" /\ request[d] # Login!Idle
  BY Under DEF LoginInv, Login!CountSubject, Login!Stages
<1>2. PICK to \in {"read", "answer"} : RequestGoes(d, to)
  BY <1>1, RequestMoves, RequestAnswered DEF Login!CountSubject, Login!Stages, Login!Answers
<1>3. /\ perAccount' = n /\ n \in 0 .. PerSubject + 1
      /\ perAccount <= n /\ (n <= PerSubject => n = perAccount + 1)
      /\ passed' = passed \/ (passed' = passed + 1 /\ n <= PerSubject)
  BY <1>1, NumbersAssumption DEF Login!TypeOK, Login!Counted, Login!CountSubject, Login!Allowed
<1>. HIDE DEF n
<1>4. LoginShape'
  BY <1>1, <1>2, <1>3, NumbersAssumption DEF Login!TypeOK, LoginShape, Login!CountSubject,
     RequestGoes, Login!account, Login!bounds
<1>5. Submitted'
  <2>1. /\ Cardinality(Ahead) \in Nat /\ Cardinality(Ahead') <= Cardinality(Ahead)
        /\ Cardinality(Unpassed) \in Nat
        /\ Cardinality(Unpassed') = Cardinality(Unpassed) - 1
        /\ Cardinality(Ahead') \in Nat /\ Cardinality(Unpassed') \in Nat
    BY <1>1, <1>2, DeskMoves DEF One, Judgeable, Countable, RequestGoes
  <2>2. tries \in Nat /\ UNCHANGED <<failed, wrong, tries>>
    BY <1>1, NumbersAssumption DEF Login!TypeOK, Login!CountSubject, Login!account, Login!bounds
  <2>. QED
    BY <1>1, <1>2, <1>3, <2>1, <2>2, ReadLeavesRoom DEF Submitted, Login!TypeOK, RequestGoes
<1>6. Windowed'
  BY <1>1, <1>3, NumbersAssumption DEF LoginInv, Login!TypeOK, Windowed, Login!CountSubject
<1>7. (ReadAsItIs /\ Login!EveryFailureCounts)'
  BY <1>2 DEF LoginInv, ReadAsItIs, Login!EveryFailureCounts, Login!CountSubject,
     RequestGoes, Login!account
<1>. QED
  BY <1>4, <1>5, <1>6, <1>7 DEF LoginCore

LEMMA FailOpenHolds ==
    ASSUME LoginInv, NEW d \in Desks, Login!FailOpen(d)
    PROVE  LoginCore'
<1>1. /\ Login!TypeOK /\ Submitted /\ request[d].at \in {"ip", "subject"}
      /\ request[d] # Login!Idle
  BY Under DEF LoginInv, Login!FailOpen, Login!Stages
<1>2. RequestGoes(d, "read")
  BY <1>1, RequestMoves DEF Login!FailOpen, Login!Stages
<1>3. LoginShape'
  BY <1>1, <1>2, NumbersAssumption DEF Login!TypeOK, LoginShape, Login!FailOpen, RequestGoes,
     Login!limiter, Login!account, Login!bounds
<1>4. Submitted'
  <2>1. /\ Cardinality(Ahead) \in Nat /\ Cardinality(Ahead') <= Cardinality(Ahead)
        /\ Cardinality(Unpassed) \in Nat
        /\ Cardinality(Unpassed') = Cardinality(Unpassed) - 1
        /\ Cardinality(Ahead') \in Nat /\ Cardinality(Unpassed') \in Nat
    BY <1>1, <1>2, DeskMoves DEF One, Judgeable, Countable, RequestGoes
  <2>2. tries \in Nat /\ passed' = passed + 1 /\ UNCHANGED <<failed, wrong, tries>>
    BY <1>1, NumbersAssumption DEF Login!TypeOK, Login!FailOpen, Login!account, Login!bounds
  <2>. QED
    BY <1>1, <1>2, <2>1, <2>2, ReadLeavesRoom DEF Submitted, Login!TypeOK, RequestGoes
<1>5. (Windowed /\ ReadAsItIs /\ Login!EveryFailureCounts)'
  BY <1>2 DEF LoginInv, Windowed, ReadAsItIs, Login!EveryFailureCounts, Login!FailOpen,
     RequestGoes, Login!account
<1>. QED
  BY <1>3, <1>4, <1>5 DEF LoginCore

LEMMA ReadUserHolds ==
    ASSUME LoginInv, NEW d \in Desks, Login!ReadUser(d)
    PROVE  LoginCore'
<1>. DEFINE r == [request[d] EXCEPT !.at = "verify", !.failed = failed, !.locked = locked]
<1>1. Login!TypeOK /\ Submitted /\ request[d].at = "read" /\ request[d] \in Login!Request
  BY Under DEF LoginInv, Login!ReadUser, Login!Stages
<1>2. r \in Login!Request /\ r.at = "verify" /\ r.failed = failed /\ r.locked = locked
  <2>1. "verify" \in Login!Stages
    BY DEF Login!Stages
  <2>. QED
    BY <1>1, <2>1 DEF Login!Request, Login!TypeOK
<1>3. request' = [request EXCEPT ![d] = r]
  BY DEF Login!ReadUser
<1>. HIDE DEF r
<1>4. /\ request' \in [Desks -> {Login!Idle} \cup Login!Request]
      /\ request'[d].at = "verify" /\ request'[d].failed = failed /\ request'[d].locked = locked
      /\ \A e \in Desks \ {d} : request'[e] = request[e]
  BY <1>1, <1>2, <1>3 DEF Login!TypeOK
<1>5. UNCHANGED <<failed, locked, wrong, passed, tries, overlapped, open, perAccount>>
  BY DEF Login!ReadUser, Login!limiter, Login!account, Login!bounds, Login!history
<1>6. LoginShape'
  BY <1>1, <1>4, NumbersAssumption DEF Login!TypeOK, LoginShape, Login!ReadUser,
     Login!limiter, Login!account, Login!bounds, Login!history
<1>7. Submitted'
  <2>1. /\ Cardinality(Ahead) \in Nat /\ Cardinality(Ahead') = Cardinality(Ahead)
        /\ Cardinality(Unpassed) \in Nat
        /\ Cardinality(Unpassed') = Cardinality(Unpassed)
    BY <1>1, <1>4, DeskMoves DEF One, Judgeable, Countable
  <2>. QED
    BY <1>1, <1>4, <1>5, <2>1 DEF Submitted
<1>8. (Windowed /\ ReadAsItIs /\ Login!EveryFailureCounts)'
  BY <1>4, <1>5 DEF LoginInv, Windowed, ReadAsItIs, Login!EveryFailureCounts
<1>. QED
  BY <1>6, <1>7, <1>8 DEF LoginCore

LEMMA JudgeHolds ==
    ASSUME LoginInv, NEW d \in Desks, Login!Judge(d)
    PROVE  LoginCore'
<1>. DEFINE r == request[d]
<1>1. /\ Login!TypeOK /\ Submitted /\ r.at = "verify" /\ r # Login!Idle
      /\ r.failed \in 0 .. MaxTries
  BY Under DEF LoginInv, Login!Judge, Login!Stages
<1>2. RequestGoes(d, "answer")
  BY <1>1, RequestAnswered DEF Login!Judge, Login!Answers
<1>3. UNCHANGED <<passed, open, perAccount, redis, perAddress, page, tries, trouble>>
  BY DEF Login!Judge, Login!limiter, Login!bounds
<1>4. \/ UNCHANGED <<failed, locked, wrong, overlapped>>
      \/ failed' = 0 /\ locked' = FALSE /\ wrong' = 0 /\ overlapped' = Login!Others(d)
      \/ /\ failed' = r.failed + 1 /\ locked' = (r.failed + 1 >= MaxFailed)
         /\ wrong' = wrong + 1 /\ overlapped' = (overlapped \/ Login!Others(d))
  BY DEF Login!Judge, Login!CountUp, Login!account
<1>5. failed' \in Nat /\ wrong' \in Nat /\ locked' \in BOOLEAN /\ overlapped' \in BOOLEAN
  <2>1. failed' \in Nat /\ wrong' \in Nat
    BY <1>1, <1>4, NumbersAssumption DEF Login!TypeOK
  <2>2. Login!Others(d) \in BOOLEAN /\ (r.failed + 1 >= MaxFailed) \in BOOLEAN
    BY DEF Login!Others
  <2>3. locked' \in BOOLEAN /\ overlapped' \in BOOLEAN
    BY <1>1, <1>4, <2>2 DEF Login!TypeOK
  <2>. QED
    BY <2>1, <2>3
<1>6. LoginShape'
  BY <1>1, <1>2, <1>3, <1>5, NumbersAssumption DEF Login!TypeOK, LoginShape, RequestGoes
<1>7. Submitted'
  <2>1. /\ Cardinality(Ahead) \in Nat /\ Cardinality(Ahead') = Cardinality(Ahead) - 1
        /\ Cardinality(Unpassed) \in Nat /\ Cardinality(Ahead') \in Nat
        /\ Cardinality(Unpassed') = Cardinality(Unpassed)
    BY <1>1, <1>2, DeskMoves DEF One, Judgeable, Countable, RequestGoes
  <2>2. tries \in Nat /\ failed \in Nat /\ wrong \in Nat /\ r.failed \in Nat
    BY <1>1, NumbersAssumption DEF Login!TypeOK
  <2>3. r.failed + Cardinality(Ahead) <= tries
    BY <1>1 DEF Submitted
  <2>4. failed' + Cardinality(Ahead') <= tries /\ wrong' + Cardinality(Ahead') <= tries
    BY <1>1, <1>4, <2>1, <2>2, <2>3 DEF Submitted
  <2>5. (\A e \in Desks : request[e].at = "verify" =>
              request[e].failed + Cardinality(Ahead) <= tries)'
    BY <1>2, <1>3, <2>1, <2>2, ReadLeavesRoom DEF RequestGoes
  <2>. QED
    BY <1>1, <1>3, <2>1, <2>4, <2>5 DEF Submitted
<1>8. Windowed'
  BY <1>3 DEF LoginInv, Windowed
<1>9. (ReadAsItIs /\ Login!EveryFailureCounts)'
  <2>1. ~Login!Others(d) => \A e \in Desks : request'[e].at # "verify"
    BY <1>2 DEF Login!Others, RequestGoes
  <2>2. CASE UNCHANGED <<failed, locked, wrong, overlapped>>
    BY <1>2, <2>2 DEF LoginInv, ReadAsItIs, Login!EveryFailureCounts, RequestGoes
  <2>3. CASE failed' = 0 /\ locked' = FALSE /\ wrong' = 0 /\ overlapped' = Login!Others(d)
    BY <2>1, <2>3 DEF ReadAsItIs, Login!EveryFailureCounts
  <2>4. CASE /\ failed' = r.failed + 1 /\ locked' = (r.failed + 1 >= MaxFailed)
             /\ wrong' = wrong + 1 /\ overlapped' = (overlapped \/ Login!Others(d))
    <3>1. overlapped \/ (r.failed = failed /\ failed = wrong)
      BY <1>1 DEF LoginInv, ReadAsItIs, Login!EveryFailureCounts
    <3>2. overlapped' \/ ~Login!Others(d)
      BY <2>4
    <3>3. ReadAsItIs'
      BY <2>1, <3>2 DEF ReadAsItIs
    <3>4. overlapped' \/ (failed' = wrong' /\ (locked' => wrong' >= MaxFailed))
      BY <2>4, <3>1
    <3>. QED
      BY <3>3, <3>4 DEF Login!EveryFailureCounts
  <2>. QED
    BY <1>4, <2>2, <2>3, <2>4
<1>. QED
  BY <1>6, <1>7, <1>8, <1>9 DEF LoginCore

\* An answer is shown, or lost.
LEMMA OverHolds ==
    ASSUME LoginInv, NEW d \in Desks, Login!Land(d) \/ Login!Lose(d)
    PROVE  LoginCore'
<1>1. /\ Login!TypeOK /\ Submitted /\ request[d].at \in {"ip", "answer"}
      /\ request' = [request EXCEPT ![d] = Login!Idle]
      /\ trouble' \in 0 .. MaxTrouble
      /\ page' \in [Desks -> {"form", "busy", "told", "reloaded", "in"}]
  BY NumbersAssumption DEF LoginInv, Login!Land, Login!Lose, Login!TypeOK, Login!bounds,
     Login!Trouble
<1>2. /\ request' \in [Desks -> {Login!Idle} \cup Login!Request] /\ request'[d].at = "idle"
      /\ \A e \in Desks \ {d} : request'[e] = request[e]
  BY <1>1 DEF Login!TypeOK, Login!Idle
<1>3. UNCHANGED <<redis, perAddress, perAccount, failed, locked, passed, open, wrong, overlapped,
                  tries>>
  BY DEF Login!Land, Login!Lose, Login!limiter, Login!account, Login!bounds, Login!history
<1>4. LoginShape'
  BY <1>1, <1>2, <1>3, NumbersAssumption DEF Login!TypeOK, LoginShape
<1>5. Submitted'
  <2>1. /\ Cardinality(Ahead) \in Nat /\ Cardinality(Ahead') <= Cardinality(Ahead)
        /\ Cardinality(Unpassed) \in Nat /\ Cardinality(Unpassed') <= Cardinality(Unpassed)
        /\ Cardinality(Ahead') \in Nat /\ Cardinality(Unpassed') \in Nat
    BY <1>1, <1>2, DeskMoves DEF One, Judgeable, Countable
  <2>2. tries \in Nat
    BY <1>1, NumbersAssumption DEF Login!TypeOK
  <2>. QED
    BY <1>1, <1>2, <1>3, <2>1, <2>2, ReadLeavesRoom DEF Submitted, Login!TypeOK
<1>6. (Windowed /\ ReadAsItIs /\ Login!EveryFailureCounts)'
  BY <1>2, <1>3 DEF LoginInv, Windowed, ReadAsItIs, Login!EveryFailureCounts
<1>. QED
  BY <1>4, <1>5, <1>6 DEF LoginCore

\* The windows and Redis come and go.
LEMMA LimiterHolds ==
    ASSUME LoginInv,
           \/ \E a \in Login!Addresses : Login!WindowEnds(a)
           \/ Login!AccountWindowEnds \/ Login!RedisFails \/ Login!RedisReturns
    PROVE  LoginCore'
<1>1. Login!TypeOK /\ Submitted
  BY DEF LoginInv
<1>. USE DEF Login!WindowEnds, Login!AccountWindowEnds, Login!RedisFails, Login!RedisReturns,
             Login!Trouble, Login!account, Login!bounds, Login!history
<1>2. UNCHANGED <<failed, locked, request, page, tries, wrong, overlapped>>
  OBVIOUS
<1>9. UNCHANGED <<perAccount, passed, open>> \/ (perAccount' = 0 /\ passed' = 0 /\ open' = FALSE)
  OBVIOUS
<1>10. trouble' \in 0 .. MaxTrouble /\ perAddress' \in [Login!Addresses -> 0 .. PerIp + 1]
  BY <1>1, NumbersAssumption DEF Login!TypeOK
<1>11. redis' \in BOOLEAN
  <2>1. redis' \in {redis, TRUE, FALSE}
    BY Zenon
  <2>. QED
    BY <1>1, <2>1 DEF Login!TypeOK
<1>12. open' \in BOOLEAN
  <2>1. open' \in {open, FALSE}
    BY <1>9
  <2>. QED
    BY <1>1, <2>1 DEF Login!TypeOK
<1>3. LoginShape'
  BY <1>1, <1>2, <1>9, <1>10, <1>11, <1>12, NumbersAssumption DEF Login!TypeOK, LoginShape
<1>4. Ahead' = Ahead /\ Unpassed' = Unpassed /\ Cardinality(Unpassed) \in Nat
  <2>1. Unpassed \in SUBSET Desks
    BY DEF Unpassed
  <2>. QED
    BY <1>2, <2>1, NumbersAssumption, FS_Subset, FS_CardinalityType DEF Ahead, Unpassed
<1>5. Submitted'
  BY <1>1, <1>2, <1>4, <1>9, NumbersAssumption DEF Submitted, Login!TypeOK
<1>6. (Windowed /\ ReadAsItIs /\ Login!EveryFailureCounts)'
  BY <1>2, <1>9, NumbersAssumption DEF LoginInv, Windowed, ReadAsItIs, Login!EveryFailureCounts
<1>. QED
  BY <1>3, <1>5, <1>6 DEF LoginCore

LEMMA LockEndsHolds ==
    ASSUME LoginInv, Login!LockEnds
    PROVE  LoginCore'
<1>1. Login!TypeOK /\ Submitted
  BY DEF LoginInv
<1>2. ASSUME NEW e \in Desks
      PROVE  /\ request'[e] \in {Login!Idle} \cup Login!Request
             /\ request'[e].at = request[e].at
             /\ request[e].at = "verify" =>
                   request'[e].failed = request[e].failed /\ request'[e].locked = FALSE
  <2>1. CASE request[e].at = "verify"
    <3>. DEFINE r == [request[e] EXCEPT !.locked = FALSE]
    <3>1. request[e] \in Login!Request
      BY <1>1, <2>1, Under DEF Login!Stages
    <3>2. /\ r \in Login!Request /\ r.at = request[e].at /\ r.failed = request[e].failed
          /\ r.locked = FALSE
      BY <3>1 DEF Login!Request
    <3>3. request'[e] = r
      BY <2>1 DEF Login!LockEnds
    <3>. QED
      BY <3>2, <3>3
  <2>2. CASE request[e].at # "verify"
    BY <1>1, <2>2 DEF Login!LockEnds, Login!TypeOK
  <2>. QED
    BY <2>1, <2>2
<1>3. request' \in [Desks -> {Login!Idle} \cup Login!Request]
  BY <1>2 DEF Login!LockEnds
<1>4. /\ UNCHANGED <<redis, perAddress, perAccount, failed, page, tries, trouble, passed, open,
                     wrong, overlapped>>
      /\ locked' = FALSE
  BY DEF Login!LockEnds, Login!limiter, Login!bounds, Login!history
<1>9. locked' \in BOOLEAN /\ overlapped' \in BOOLEAN /\ open' \in BOOLEAN /\ redis' \in BOOLEAN
  BY <1>1, <1>4 DEF Login!TypeOK
<1>5. LoginShape'
  BY <1>1, <1>3, <1>4, <1>9, NumbersAssumption DEF Login!TypeOK, LoginShape
<1>6. Ahead' = Ahead /\ Unpassed' = Unpassed
  BY <1>2 DEF Ahead, Unpassed
<1>7. Submitted'
  BY <1>1, <1>2, <1>4, <1>6 DEF Submitted
<1>8. (Windowed /\ ReadAsItIs /\ Login!EveryFailureCounts)'
  BY <1>2, <1>4 DEF LoginInv, Windowed, ReadAsItIs, Login!EveryFailureCounts
<1>. QED
  BY <1>5, <1>7, <1>8 DEF LoginCore

LEMMA LoginStep == LoginInv /\ [Login!Next]_(loginVars) => LoginInv'
<1>. SUFFICES ASSUME LoginInv, [Login!Next]_(loginVars) PROVE LoginInv'
  OBVIOUS
<1>1. CASE Login!Next
  BY <1>1, LoginCoreIsAll, SubmitHolds, CountIpHolds, CountSubjectHolds, FailOpenHolds,
     ReadUserHolds, JudgeHolds, OverHolds, LimiterHolds, LockEndsHolds DEF Login!Next
<1>2. CASE UNCHANGED loginVars
  BY <1>2 DEF loginVars, LoginInv, Login!TypeOK, Submitted, Ahead, Unpassed, Windowed, ReadAsItIs,
     Login!EveryFailureCounts
<1>. QED
  BY <1>1, <1>2

LEMMA LockHoldsInStep == LoginInv /\ Login!Next => Login!LockHoldsStep
<1>. SUFFICES ASSUME LoginInv, Login!Next, NEW d \in Desks,
                     request[d].at = "verify", request'[d].at = "answer"
              PROVE  request[d].locked => locked' = locked /\ request'[d].status # 200
  BY DEF Login!LockHoldsStep
<1>1. Login!TypeOK
  BY DEF LoginInv
<1>2. ASSUME Login!Judge(d) PROVE request[d].locked => locked' = locked /\ request'[d].status = 403
  <2>1. request[d] # Login!Idle
    BY Under DEF Login!Stages
  <2>2. SUFFICES ASSUME request[d].locked
                 PROVE  UNCHANGED locked /\ request'[d].status = 403
    OBVIOUS
  <2>3. Login!Replies(d, 403) /\ UNCHANGED locked
    BY <1>2, <2>2 DEF Login!Judge, Login!LockedOut, Login!account
  <2>. QED
    BY <1>1, <2>1, <2>3, RequestAnswered DEF Login!Answers
<1>3. ASSUME NEW e \in Desks,
             \/ \E right \in BOOLEAN : Login!Submit(e, right)
             \/ Login!CountIp(e) \/ Login!CountSubject(e) \/ Login!FailOpen(e)
             \/ Login!ReadUser(e) \/ Login!Land(e) \/ Login!Lose(e)
             \/ (Login!Judge(e) /\ e # d)
      PROVE  FALSE
  <2>1. CASE e = d
    BY <1>1, <1>3, <2>1 DEF Login!Submit, Login!CountIp, Login!CountSubject, Login!FailOpen,
       Login!ReadUser, Login!Land, Login!Lose, Login!Idle, Login!TypeOK
  <2>2. CASE e # d
    <3>1. request'[d] = request[d]
      BY <1>1, <1>3, <2>2 DEF Login!Submit, Login!CountIp, Login!CountSubject, Login!FailOpen,
         Login!ReadUser, Login!Judge, Login!Land, Login!Lose, Login!Goes, Login!Replies,
         Login!TypeOK
    <3>. QED
      BY <3>1
  <2>. QED
    BY <2>1, <2>2
<1>4. ASSUME \/ \E a \in Login!Addresses : Login!WindowEnds(a)
             \/ Login!AccountWindowEnds \/ Login!RedisFails \/ Login!RedisReturns
             \/ Login!LockEnds
      PROVE  FALSE
  <2>1. CASE Login!LockEnds
    <3>1. request'[d] = [request[d] EXCEPT !.locked = FALSE] /\ request[d] \in Login!Request
      BY <2>1, Under DEF Login!LockEnds, Login!Stages
    <3>. QED
      BY <3>1 DEF Login!Request
  <2>. QED
    BY <1>4, <2>1 DEF Login!WindowEnds, Login!AccountWindowEnds, Login!RedisFails,
       Login!RedisReturns
<1>. QED
  BY <1>2, <1>3, <1>4 DEF Login!Next

-----------------------------------------------------------------------------
(* The console: a behaviour is of one part.                                *)

ConsoleInv ==
    /\ scene \in Scenes
    /\ scene = "map" => MapInv
    /\ scene = "route" => RouteInv
    /\ scene = "board" => BoardInv
    /\ scene = "order" => OrderInv
    /\ scene = "places" => PlacesInv
    /\ scene = "terrain" => TerrainInv
    /\ scene = "release" => ReleaseInv
    /\ scene = "login" => LoginInv

LEMMA ConsoleInitHolds == ConsoleInit => ConsoleInv
<1>. SUFFICES ASSUME ConsoleInit PROVE ConsoleInv
  OBVIOUS
<1>1. scene \in Scenes
  BY DEF ConsoleInit
<1>2. ASSUME scene = "map" PROVE MapInv
  BY <1>2, MapInitHolds, NumbersAssumption DEF ConsoleInit
<1>3. ASSUME scene = "route" PROVE RouteInv
  BY <1>3, RouteInitHolds DEF ConsoleInit
<1>4. ASSUME scene = "board" PROVE BoardInv
  BY <1>4, BoardInitHolds DEF ConsoleInit
<1>5. ASSUME scene = "order" PROVE OrderInv
  BY <1>5, OrderInitHolds DEF ConsoleInit
<1>6. ASSUME scene = "places" PROVE PlacesInv
  BY <1>6, PlacesInitHolds DEF ConsoleInit
<1>7. ASSUME scene = "terrain" PROVE TerrainInv
  BY <1>7, TerrainInitHolds DEF ConsoleInit
<1>8. ASSUME scene = "release" PROVE ReleaseInv
  BY <1>8, ReleaseInitHolds DEF ConsoleInit
<1>9. ASSUME scene = "login" PROVE LoginInv
  BY <1>9, LoginInitHolds DEF ConsoleInit
<1>. QED
  BY <1>1, <1>2, <1>3, <1>4, <1>5, <1>6, <1>7, <1>8, <1>9 DEF ConsoleInv

\* A step is one of the part the behaviour is of.
LEMMA OneSceneSteps ==
    ASSUME ConsoleInv, ConsoleNext
    PROVE  /\ scene' = scene
           /\ scene = "map" => MapInv /\ Next
           /\ scene = "route" => RouteInv /\ Route!Next
           /\ scene = "board" => BoardInv /\ Keys!Next
           /\ scene = "order" => OrderInv /\ Order!Next
           /\ scene = "places" => PlacesInv /\ Places!Next
           /\ scene = "terrain" => TerrainInv /\ Relief!Next
           /\ scene = "release" => ReleaseInv /\ Release!Next
           /\ scene = "login" => LoginInv /\ Login!Next
BY DEF ConsoleInv, ConsoleNext

LEMMA ConsoleStep ==
    ASSUME ConsoleInv, ConsoleNext
    PROVE  ConsoleInv'
<1>1. MaxFailures \in Nat
  BY NumbersAssumption
<1>2. /\ scene' = scene
      /\ scene = "map" => MapInv'
      /\ scene = "route" => RouteInv'
      /\ scene = "board" => BoardInv'
      /\ scene = "order" => OrderInv'
      /\ scene = "places" => PlacesInv'
      /\ scene = "terrain" => TerrainInv'
      /\ scene = "release" => ReleaseInv'
      /\ scene = "login" => LoginInv'
  BY <1>1, OneSceneSteps, MapStep, RouteStep, BoardStep, OrderStep, PlacesStep, TerrainStep,
     ReleaseStep, LoginStep
<1>3. scene \in Scenes
  BY DEF ConsoleInv
<1>. QED
  BY <1>2, <1>3 DEF ConsoleInv

\* And what reads no other variable is kept by a step that changes none.
LEMMA ConsoleStutters ==
    ASSUME ConsoleInv, UNCHANGED ConsoleVars
    PROVE  ConsoleInv'
<1>1. /\ scene' = scene /\ UNCHANGED vars /\ UNCHANGED routeVars /\ UNCHANGED boardVars
      /\ UNCHANGED orderVars /\ UNCHANGED placesVars /\ UNCHANGED terrainVars
      /\ UNCHANGED releaseVars /\ UNCHANGED loginVars
  BY DEF ConsoleVars
<1>2. MapInv => MapInv'
  BY <1>1 DEF MapInv, vars
<1>3. RouteInv => RouteInv'
  BY <1>1 DEF RouteInv, routeVars, Route!TypeOK, StyleIsOnItsWay, Route!ReadyRouteIsWhole,
              Route!ThemeIsShown
<1>4. BoardInv => BoardInv'
  BY <1>1 DEF BoardInv, boardVars
<1>5. OrderInv => OrderInv'
  BY <1>1 DEF OrderInv, orderVars, Order!TypeOK, Order!InheritedIsTheirs
<1>6. PlacesInv => PlacesInv'
  BY <1>1 DEF PlacesInv, placesVars, Places!TypeOK, Places!Asked, SearchesAreWanted,
              Places!NameFitsPin
<1>7. TerrainInv => TerrainInv'
  BY <1>1 DEF TerrainInv, terrainVars, Relief!TypeOK, FetchedOnce, Relief!BytesAreExact
<1>8. ReleaseInv => ReleaseInv'
  <2>1. Release!TypeOK => Release!TypeOK'
    BY <1>1 DEF releaseVars, Release!TypeOK
  <2>2. BuildsAreKnown => BuildsAreKnown'
    BY <1>1 DEF releaseVars, BuildsAreKnown, Release!Announcing
  <2>3. ReleaseIsOrderly => ReleaseIsOrderly'
    BY <1>1 DEF releaseVars, ReleaseIsOrderly, Release!Announcing, PressIsOrderly, Stands
  <2>4. UpdatesGoForward => UpdatesGoForward'
    BY <1>1 DEF releaseVars, UpdatesGoForward
  <2>5. crossed => crossed'
    BY <1>1 DEF releaseVars
  <2>. QED
    BY <2>1, <2>2, <2>3, <2>4, <2>5 DEF ReleaseInv
<1>9. LoginInv => LoginInv'
  BY <1>1, LoginStep
<1>. QED
  BY <1>1, <1>2, <1>3, <1>4, <1>5, <1>6, <1>7, <1>8, <1>9 DEF ConsoleInv

\* Every part keeps its invariant: React's effects on the fleet map, the style
\* of a route, the panels a key reaches, the form, the searches, the terrain
\* cache, the release and the sign-in.
THEOREM EveryPartIsInOrder == ConsoleSpec => []ConsoleInv
<1>1. ConsoleInit => ConsoleInv
  BY ConsoleInitHolds
<1>2. ConsoleInv /\ [ConsoleNext]_ConsoleVars => ConsoleInv'
  BY ConsoleStep, ConsoleStutters
<1>. QED
  BY <1>1, <1>2, PTL DEF ConsoleSpec

\* The types of every part.
THEOREM ConsoleTypes == ConsoleSpec => []ConsoleTypeOK
<1>1. ConsoleInv => ConsoleTypeOK
  BY MapInvIsEnough, BoardTypes
     DEF ConsoleInv, Scenes, ConsoleTypeOK, RouteInv, OrderInv, PlacesInv, TerrainInv,
         ReleaseInv, LoginInv
<1>. QED
  BY <1>1, EveryPartIsInOrder, PTL

\* An inherited point is its consignee's, and a name its pin's.
THEOREM PlacesAlwaysFit == ConsoleSpec => []PlacesFit
<1>1. ConsoleInv => PlacesFit
  BY DEF ConsoleInv, PlacesFit, OrderInv, PlacesInv
<1>. QED
  BY <1>1, EveryPartIsInOrder, PTL

\* A map that is ready shows the whole fleet in its theme, terrain comes under
\* no animation that began without it and only where it is earned, and one
\* tier is remembered, judged by and shown; a route's map is whole as well.
THEOREM MapsAreWhole == ConsoleSpec => []MapIsWhole
<1>1. ConsoleInv => MapIsWhole
  BY MapInvIsEnough DEF ConsoleInv, MapIsWhole, RouteInv
<1>. QED
  BY <1>1, EveryPartIsInOrder, PTL

\* Escape takes one layer off, an arrow moves by one row, whoever hears it, and
\* the row lit is one that is listed, however many vehicles there are.
THEOREM EveryKeyMovesOneThing == ConsoleSpec => []KeysMoveOneThing
<1>1. ConsoleInv => KeysMoveOneThing
  BY BoardTypes, EscapeTakesOneLayer, ArrowTakesOneStep DEF ConsoleInv, KeysMoveOneThing
<1>. QED
  BY <1>1, EveryPartIsInOrder, PTL

\* The published package is the manifest's build, and the cache counts its bytes.
THEOREM WhatIsKeptIsExact == ConsoleSpec => []KeptIsExact
<1>1. ConsoleInv => KeptIsExact
  BY ReleaseIsExact DEF ConsoleInv, KeptIsExact, TerrainInv
<1>. QED
  BY <1>1, EveryPartIsInOrder, PTL

\* No window judges more passwords than its limit, and without an overlap every
\* wrong one counts.
THEOREM EveryGuessIsCounted == ConsoleSpec => []GuessesAreCounted
<1>1. ConsoleInv => GuessesAreCounted
  BY DEF ConsoleInv, GuessesAreCounted, LoginInv, Windowed, Login!WindowHolds
<1>. QED
  BY <1>1, EveryPartIsInOrder, PTL

\* A point set by hand, the places of what the box holds now, the build that
\* was accepted, a lock, and the view of a journey stay.
THEOREM WhatWasChosenStays == ConsoleSpec => ChoicesStay
<1>. DEFINE Stays == CASE scene = "order" -> Order!PickedStaysStep
                       [] scene = "route" -> Route!ViewIsKeptStep
                       [] scene = "places" -> Places!NoLateResultsStep
                       [] scene = "release" -> Release!InstalledAsPromisedStep
                       [] scene = "login" -> Login!LockHoldsStep
                       [] OTHER -> TRUE
<1>1. ConsoleInv /\ [ConsoleNext]_ConsoleVars => [Stays]_ConsoleVars
  <2>. SUFFICES ASSUME ConsoleInv, ConsoleNext PROVE Stays
    OBVIOUS
  <2>1. /\ scene = "order" => Order!PickedStaysStep
        /\ scene = "route" => Route!ViewIsKeptStep
        /\ scene = "places" => Places!NoLateResultsStep
        /\ scene = "release" => Release!InstalledAsPromisedStep
        /\ scene = "login" => Login!LockHoldsStep
    BY OneSceneSteps, OrderStep, RouteStep, PlacesStep, AcceptedIsInstalled, LockHoldsInStep
  <2>. QED
    BY <2>1
<1>. QED
  BY <1>1, EveryPartIsInOrder, PTL DEF ConsoleSpec, ChoicesStay

=============================================================================
