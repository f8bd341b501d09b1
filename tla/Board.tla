-------------------------------- MODULE Board --------------------------------
(***************************************************************************)
(* The keyboard and the panels of the dashboard: the fleet list and its    *)
(* selection, search and filter (web/src/app/page.tsx), focus mode and the *)
(* palette (components/AppShell.tsx, components/CommandPalette.tsx), the   *)
(* one place that decides what a key means (lib/useHotkeys.ts) and what a  *)
(* vehicle's state is (lib/signal.ts).                                     *)
(*                                                                         *)
(* A key goes to the field that has the focus, then to the page's bindings *)
(* and then to the shell's, each seeing what the one before it changed:    *)
(* the document's listeners run in the order the effects bound them, the   *)
(* child's first, and React renders between them.  A search is the vehicle *)
(* it matches; vehicles are numbered in the server's order.                *)
(***************************************************************************)
EXTENDS Naturals, FiniteSets

CONSTANTS
    N,             \* vehicles
    Nothing        \* no selection, no search, no choice on file

VARIABLES
    fleet,         \* vehicle -> its display state, or "gone"
    ui,            \* page, rail, filter, search, selected, focus, palette, field
    stored         \* localStorage: the rail as it was last set

vars == <<fleet, ui, stored>>

Vehicles == 1 .. N
States == {"LOST", "PAUSED", "LIVE"}
Closed == [open |-> FALSE, query |-> Nothing, active |-> 0]

TypeOK ==
    /\ fleet \in [Vehicles -> States \cup {"gone"}]
    /\ ui \in [page : {"map", "away"}, rail : BOOLEAN, filter : {"all", "silent", "paused"},
               search : Vehicles \cup {Nothing}, selected : Vehicles \cup {Nothing},
               focus : BOOLEAN, field : {"page", "search", "palette"},
               palette : [open : BOOLEAN, query : Vehicles \cup {Nothing}, active : 0 .. N]]
    /\ ui.field = "palette" <=> ui.palette.open
    /\ ui.field = "search" => ui.rail /\ ~ui.focus /\ ui.page = "map"
    /\ stored \in {Nothing, TRUE, FALSE}

-----------------------------------------------------------------------------
\* What is listed.

Rank == [LOST |-> 0, PAUSED |-> 2, LIVE |-> 4]
IsSilent(s) == s \in {"LOST", "PAUSED"}

Listed(f) == {v \in Vehicles : f[v] # "gone"}

\* The order of the rows: those that need attention first.
Before(f, v, w) == Rank[f[v]] < Rank[f[w]] \/ (Rank[f[v]] = Rank[f[w]] /\ v < w)

Passes(f, u, v) ==
    /\ u.filter = "silent" => IsSilent(f[v])
    /\ u.filter = "paused" => f[v] = "PAUSED"
    /\ u.search \in {Nothing, v}

Visible(f, u) == {v \in Listed(f) : Passes(f, u, v)}

\* The rows of the palette: vehicles, and (for no query) the pages and actions,
\* which are one row here.
Flat(f, query) ==
    IF query = Nothing THEN Cardinality(Listed(f)) + 1 ELSE Cardinality(Listed(f) \cap {query})

\* Mutant: the highlight stays where it was when the list gets shorter.
ClampNot(f, u) == u

\* The effect keyed on the length of the list.
Clamp(f, u) ==
    LET n == Flat(f, u.palette.query) IN
    IF u.palette.active < n THEN u
    ELSE [u EXCEPT !.palette = [u.palette EXCEPT !.active = IF n = 0 THEN 0 ELSE n - 1]]

-----------------------------------------------------------------------------
\* The bindings.

\* The search field is part of the rail, and the rail of a screen with chrome.
Blur(u) == IF u.field = "search" /\ (~u.rail \/ u.focus) THEN [u EXCEPT !.field = "page"] ELSE u

SetRail(u, open) == Blur([u EXCEPT !.rail = open])

\* The row met first on the way down, or up.
Foremost(f, rows, way) ==
    CHOOSE v \in rows : \A w \in rows \ {v} :
        IF way = "down" THEN Before(f, v, w) ELSE Before(f, w, v)

\* move: along what is visible, round its ends, from either end when nothing in
\* it is selected.
Step(f, u, way) ==
    LET rows  == Visible(f, u)
        ahead == {v \in rows : /\ u.selected \in rows
                               /\ IF way = "down" THEN Before(f, u.selected, v)
                                                  ELSE Before(f, v, u.selected)}
    IN  IF rows = {} THEN u
        ELSE [u EXCEPT !.selected = Foremost(f, IF ahead = {} THEN rows ELSE ahead, way), !.rail = TRUE]

\* Mutant: focus mode is left to the shell without looking.
PeelAnyway(u) ==
    IF u.selected # Nothing THEN [u EXCEPT !.selected = Nothing]
    ELSE IF u.search # Nothing THEN [u EXCEPT !.search = Nothing]
    ELSE [u EXCEPT !.filter = "all"]

\* The page's Escape: the selection, then the search, then the filter.
Peel(u) ==
    IF u.focus THEN u
    ELSE IF u.selected # Nothing THEN [u EXCEPT !.selected = Nothing]
    ELSE IF u.search # Nothing THEN [u EXCEPT !.search = Nothing]
    ELSE [u EXCEPT !.filter = "all"]

Typing(u) == u.field # "page"

\* Mutant: keys reach the bindings of the page from inside a field.
HeardAnyway(u, key) == TRUE

\* onKeyDown: from inside a field only Escape and what has a modifier.
Heard(u, key) == ~Typing(u) \/ key \in {"escape", "mod+b", "mod+k"}

FieldKey(f, u, key) ==
    CASE u.field = "search" /\ key = "arrowdown" -> Step(f, u, "down")
      [] u.field = "search" /\ key = "arrowup" -> Step(f, u, "up")
      [] u.palette.open /\ key = "escape" -> [u EXCEPT !.palette = Closed, !.field = "page"]
      [] u.palette.open /\ key \in {"arrowdown", "arrowup"} /\ Flat(f, u.palette.query) # 0 ->
            LET n == Flat(f, u.palette.query)
                delta == IF key = "arrowdown" THEN 1 ELSE n - 1
            IN  [u EXCEPT !.palette = [u.palette EXCEPT !.active = (u.palette.active + delta) % n]]
      [] OTHER -> u

PageKey(f, u, key) ==
    IF u.page # "map" \/ ~Heard(u, key) THEN u
    ELSE CASE key = "/" -> [u EXCEPT !.rail = TRUE, !.field = IF u.focus THEN @ ELSE "search"]
           [] key = "mod+b" -> SetRail(u, ~u.rail)
           [] key = "arrowdown" -> Step(f, u, "down")
           [] key = "arrowup" -> Step(f, u, "up")
           [] key = "escape" -> Peel(u)
           [] OTHER -> u

Opened(f, u) == [u EXCEPT !.palette = [Closed EXCEPT !.open = TRUE], !.field = "palette"]

ShellKey(f, u, key) ==
    IF ~Heard(u, key) THEN u
    ELSE CASE key = "mod+k" -> IF u.palette.open THEN u ELSE Opened(f, u)
           [] key = "f" -> IF u.page = "map" THEN Blur([u EXCEPT !.focus = ~@]) ELSE u
           [] key = "escape" -> IF ~u.palette.open THEN [u EXCEPT !.focus = FALSE] ELSE u
           [] OTHER -> u

Keys == {"/", "mod+b", "mod+k", "arrowdown", "arrowup", "escape", "f"}

After(key) ==
    LET a == FieldKey(fleet, ui, key)
        b == PageKey(fleet, a, IF Heard(ui, key) THEN key ELSE "")
    IN  ShellKey(fleet, b, IF Heard(ui, key) THEN key ELSE "")

\* setRail remembers; the other ways to move the panels do not.
Remember == stored' = IF ui'.rail # ui.rail THEN ui'.rail ELSE stored

Press(key) ==
    /\ ui' = After(key)
    /\ Remember
    /\ UNCHANGED fleet

-----------------------------------------------------------------------------
\* The mouse.

Point(u) ==
    /\ ui' = u
    /\ Remember
    /\ UNCHANGED fleet

Chrome == ui.page = "map" /\ ~ui.focus /\ ~ui.palette.open

\* The map takes clicks in focus mode too; the rail lists what is visible.
ClickVehicle ==
    /\ ui.page = "map" /\ ~ui.palette.open
    /\ \E v \in Listed(fleet) : Point([ui EXCEPT !.selected = v, !.field = "page"])

ClosePanel == Chrome /\ Point([ui EXCEPT !.selected = Nothing, !.field = "page"])
ToggleRail == Chrome /\ Point(SetRail(ui, ~ui.rail))
ToggleFocus == ui.page = "map" /\ ~ui.palette.open /\ Point(Blur([ui EXCEPT !.focus = ~@]))

\* A chip that is pressed again goes back to all; the figure of silent vehicles is such a chip.
Chip(filter) ==
    /\ Chrome
    /\ Point([ui EXCEPT !.filter = IF @ = filter THEN "all" ELSE filter, !.field = "page"])

Type(v) == Chrome /\ ui.rail /\ Point([ui EXCEPT !.search = v, !.field = "search"])

\* The empty list's way out.
ClearFilters ==
    /\ Chrome /\ ui.rail /\ Listed(fleet) # {} /\ Visible(fleet, ui) = {}
    /\ Point([ui EXCEPT !.search = Nothing, !.filter = "all", !.field = "page"])

OpenPalette == ~ui.palette.open /\ ~ui.focus /\ Point(Opened(fleet, ui))
TypeInPalette(v) == ui.palette.open /\ Point(Clamp(fleet, [ui EXCEPT !.palette = [ui.palette EXCEPT !.query = v]]))
LeavePalette == ui.palette.open /\ Point([ui EXCEPT !.palette = Closed, !.field = "page"])

PointInPalette ==
    /\ ui.palette.open
    /\ \E i \in 1 .. Flat(fleet, ui.palette.query) :
          Point([ui EXCEPT !.palette = [ui.palette EXCEPT !.active = i - 1]])

\* A visit starts with the rail as it was last set, or as the window is wide.
Visit(wide) ==
    [page |-> "map", rail |-> IF stored = Nothing THEN wide ELSE stored, filter |-> "all",
     search |-> Nothing, selected |-> Nothing, focus |-> FALSE, palette |-> Closed, field |-> "page"]

\* Every page has a shell of its own: nothing of this one is left.
Away == [Visit(FALSE) EXCEPT !.page = "away"]

\* Enter, or a click: the row lit is opened, be it a vehicle's record or a page.
Run ==
    /\ ui.palette.open /\ ui.palette.active < Flat(fleet, ui.palette.query)
    /\ ui' = Away
    /\ UNCHANGED <<fleet, stored>>

Return ==
    /\ ui.page = "away" /\ ~ui.palette.open
    /\ \E wide \in BOOLEAN : ui' = Visit(wide)
    /\ UNCHANGED <<fleet, stored>>

-----------------------------------------------------------------------------
\* A fetch or the clock: a vehicle comes, goes, falls silent or is heard again.
Refresh ==
    /\ \E v \in Vehicles, s \in States \cup {"gone"} : fleet' = [fleet EXCEPT ![v] = s]
    /\ ui' = Clamp(fleet', ui)
    /\ UNCHANGED stored

Init ==
    /\ fleet \in [Vehicles -> States \cup {"gone"}]
    /\ stored \in {Nothing, TRUE, FALSE}
    /\ \E wide \in BOOLEAN : ui = Visit(wide)

Mouse ==
    \/ ClickVehicle \/ ClosePanel \/ ToggleRail \/ ToggleFocus \/ ClearFilters
    \/ \E filter \in {"all", "silent", "paused"} : Chip(filter)
    \/ \E v \in Vehicles \cup {Nothing} : Type(v) \/ TypeInPalette(v)
    \/ OpenPalette \/ LeavePalette \/ PointInPalette \/ Run \/ Return

Next == (\E key \in Keys : Press(key)) \/ Mouse \/ Refresh

Spec == Init /\ [][Next]_vars

-----------------------------------------------------------------------------
\* The layers Escape takes off, those that changed between u and w.
Peeled(u, w) ==
    {layer \in {"selected", "search", "filter", "focus", "palette"} : u[layer] # w[layer]}

\* "Escape peels one layer at a time rather than resetting the screen": the
\* field, the page and the shell hear the same press, and without the palette
\* at most one of them answers.
EscapePeels == ~ui.palette.open => Cardinality(Peeled(ui, After("escape"))) <= 1

\* ... and "the palette closes itself, and the screens below handle their own
\* selection": with the palette open as well.
EscapePeelsOne == Cardinality(Peeled(ui, After("escape"))) <= 1

\* An arrow moves the selection by one row of what is listed, whether the
\* search field or the page hears it, and never by one for each of them.
ArrowStepsOne ==
    ui.page = "map" /\ ~ui.palette.open =>
        /\ After("arrowdown").selected = Step(fleet, ui, "down").selected
        /\ After("arrowup").selected = Step(fleet, ui, "up").selected

\* Enter always opens the row that is lit: the highlight never points past a
\* list that a refresh or a longer query made shorter.
LitIsListed ==
    ui.palette.open /\ Flat(fleet, ui.palette.query) # 0 =>
        ui.palette.active < Flat(fleet, ui.palette.query)

=============================================================================
