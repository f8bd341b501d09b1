------------------------------ MODULE RouteMap ------------------------------
(***************************************************************************)
(* The map of one shipment (web/src/components/SessionMap.tsx): a style,   *)
(* fetched again when the theme changes, and three sources the component   *)
(* fills, the route, the late segments and the position.                   *)
(*                                                                         *)
(* Data are versions: 0 is nothing yet, 1 a single fix, 2 and more a line. *)
(* A commit runs its effects in one step, as React does before the browser *)
(* may fire anything else.                                                 *)
(***************************************************************************)
EXTENDS Naturals

CONSTANTS
    Themes,        \* light and dark
    Nil,          \* no style on its way
    MaxData,       \* bound: versions of one source
    MaxFailures    \* bound: style fetches that fail

VARIABLES
    theme,         \* `resolved`
    style,         \* the map: ready, the style shown, the one on its way
    data,          \* the properties: what is to be drawn
    drawn,         \* the sources: what is
    view,          \* fitted, and whose the camera is
    missed,        \* for the properties: a theme was switched while a style was on its way
    failures

vars == <<theme, style, data, drawn, view, missed, failures>>

Parts == {"route", "backfill", "current"}
Versions == [Parts -> 0 .. MaxData]
Blank == [p \in Parts |-> 0]

TypeOK ==
    /\ theme \in Themes
    /\ style \in [ready : BOOLEAN, shown : Themes, fetching : Themes \cup {Nil}]
    /\ style.ready => style.fetching = Nil
    /\ data \in Versions /\ drawn \in Versions
    /\ view \in [fitted : BOOLEAN, camera : {"home", "fitted", "hand"}]
    /\ missed \in BOOLEAN /\ failures \in 0 .. MaxFailures

Mounted == [ready |-> FALSE, shown |-> theme, fetching |-> theme]
AtHome == [fitted |-> FALSE, camera |-> "home"]

Init ==
    /\ theme \in Themes
    /\ style = Mounted
    /\ data = Blank /\ drawn = Blank
    /\ view = AtHome
    /\ missed = FALSE /\ failures = 0

-----------------------------------------------------------------------------
\* The effects of the three sources: a route or a position that is not there is
\* skipped, the late segments are drawn even when there are none.
Skipped(d) == {p \in {"route", "current"} : d[p] = 0}
Draw(from, d) == [p \in Parts |-> IF p \in Skipped(d) THEN from[p] ELSE d[p]]

\* Mutant: the journey is framed whenever it is drawn.
FrameAlways(d) == IF d["route"] > 1 THEN [fitted |-> TRUE, camera |-> "fitted"] ELSE view

\* The first line that is drawn is framed.
Frame(d) ==
    IF d["route"] > 1 /\ ~view.fitted THEN [fitted |-> TRUE, camera |-> "fitted"] ELSE view

\* load, or style.load: what the application added is gone, the layers are put
\* back empty, and `ready` makes every source effect run.
StyleLoaded ==
    /\ style.fetching # Nil
    /\ style' = [ready |-> TRUE, shown |-> style.fetching, fetching |-> Nil]
    /\ drawn' = Draw(Blank, data)
    /\ view' = Frame(data)
    /\ UNCHANGED <<theme, data, missed, failures>>

\* No listener: the map stays as it is, and not ready.
StyleFails ==
    /\ style.fetching # Nil /\ failures < MaxFailures
    /\ failures' = failures + 1
    /\ style' = [style EXCEPT !.fetching = Nil]
    /\ UNCHANGED <<theme, data, drawn, view, missed>>

\* Mutant: `ready` is left on while the new style is on its way.
RestyleOnly(to) == [style EXCEPT !.fetching = to]

Restyle(to) == [style EXCEPT !.ready = FALSE, !.fetching = to]

\* The effect depends on `resolved` alone and gives up on a map that is not ready.
SwitchTheme ==
    /\ \E to \in Themes \ {theme} :
          /\ theme' = to
          /\ style' = IF style.ready THEN Restyle(to) ELSE style
    /\ missed' = (missed \/ ~style.ready)
    /\ UNCHANGED <<data, drawn, view, failures>>

-----------------------------------------------------------------------------
Arrives(d) ==
    /\ data' = d
    /\ IF style.ready THEN drawn' = Draw(drawn, d) /\ view' = Frame(d)
       ELSE UNCHANGED <<drawn, view>>
    /\ UNCHANGED <<theme, style, missed, failures>>

NewData == \E p \in Parts : data[p] < MaxData /\ Arrives([data EXCEPT ![p] = @ + 1])

\* A segment cut off, or one too many, changes the key of the route query: no
\* data until it is read.  The one too many also empties the segments.
RouteForgotten ==
    /\ data["route"] # 0
    /\ Arrives([data EXCEPT !["route"] = 0]) \/ Arrives([data EXCEPT !["route"] = 0, !["backfill"] = 0])
RouteRead == data["route"] = 0 /\ \E v \in 1 .. MaxData : Arrives([data EXCEPT !["route"] = v])

Pan == view' = [view EXCEPT !.camera = "hand"] /\ UNCHANGED <<theme, style, data, drawn, missed, failures>>

\* Left and come back to: a new map, and what the queries still have.
Remount ==
    /\ style' = Mounted /\ drawn' = Blank /\ view' = AtHome /\ missed' = FALSE
    /\ UNCHANGED <<theme, data, failures>>

Next ==
    \/ StyleLoaded \/ StyleFails \/ SwitchTheme
    \/ NewData \/ RouteForgotten \/ RouteRead
    \/ Pan \/ Remount

Spec == Init /\ [][Next]_vars

-----------------------------------------------------------------------------
\* A map that is ready shows all there is, however styles and data crossed.
ReadyRouteIsWhole ==
    style.ready => \A p \in Parts \ Skipped(data) : drawn[p] = data[p]

\* ... in the theme of the page, unless that was switched while a style was on
\* its way: the switch is then lost.
ThemeIsShown == style.ready /\ ~missed => style.shown = theme

\* "Refitting on every refetch yanks the viewport out from under a dispatcher":
\* once the journey was framed, the camera is theirs until they leave.
ViewIsKeptStep ==
    view.fitted /\ view.camera = "hand" => view'.camera = "hand" \/ ~view'.fitted

=============================================================================
