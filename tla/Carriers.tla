------------------------------ MODULE Carriers ------------------------------
(***************************************************************************)
(* The carriers page (web/src/app/carriers/page.tsx) and the part of the   *)
(* catalog behind it (api/src/catalog/catalog.service.ts): carriers, each  *)
(* with vehicles and drivers, one row open at a time, two dialogs that add *)
(* to them.  A carrier is its code; a vehicle or a driver is what makes it *)
(* unique for its carrier, the plate or the telephone.                     *)
(*                                                                         *)
(* The buttons of a dialog wait for the request, Escape and the backdrop   *)
(* do not: a dialog that is closed forgets its request, which goes on.     *)
(* Nothing is ever removed or renamed by this part of the program.         *)
(***************************************************************************)
EXTENDS Naturals, Sequences, FiniteSets

CONSTANTS
    Codes,         \* carriers, on file or not
    Names,         \* plates and telephones
    Nobody,        \* no carrier, nothing typed, not read yet
    MaxPresses,    \* bound: requests to add something
    MaxUpsets      \* bound: requests that fail, reads because of age or of the window

VARIABLES
    file,          \* code -> kind -> names on file, or Nobody
    page,          \* expanded, and what the two dialogs hold
    companies,     \* the query ['companies']: code -> the two figures, or Nobody
    fleet,         \* the queries ['vehicles', id] and ['drivers', id]
    calls,         \* the requests made, in order
    upsets

vars == <<file, page, companies, fleet, calls, upsets>>

Kinds == {"vehicle", "driver"}
Figures == [Kinds -> 0 .. Cardinality(Names) * Cardinality(Names)]
Lists == [Codes -> Figures \cup {Nobody}]

\* answer: what the server has answered already; an answer that no insert
\* follows is taken as it lands.
Query(values) == [data : values, stage : {"idle"}, old : BOOLEAN, answer : {Nobody}]
                 \cup [data : values, stage : {"asked"}, old : BOOLEAN, answer : values \cup {Nobody}]

TypeOK ==
    /\ file \in [Codes -> [Kinds -> SUBSET Names] \cup {Nobody}]
    /\ page \in [expanded : Codes \cup {Nobody}, adding : Kinds \cup {Nobody}, name : Names \cup {Nobody}, call : 0 .. MaxPresses,
                 carrier : BOOLEAN, code : Codes \cup {Nobody}]
    /\ page.adding # Nobody => page.expanded # Nobody /\ ~page.carrier
    /\ companies \in Query(Lists \cup {Nobody})
    /\ fleet \in [Codes -> [Kinds -> Query((SUBSET Names) \cup {Nobody})]]
    /\ Len(calls) <= MaxPresses
    /\ \A i \in DOMAIN calls :
          calls[i] \in [kind : Kinds \cup {"carrier"}, carrier : Codes, name : Names \cup {Nobody}, here : BOOLEAN,
                        stage : {"asked", "done", "refused", "landed", "failed"}]
    /\ upsets \in 0 .. MaxUpsets

Unread == [data |-> Nobody, stage |-> "idle", old |-> FALSE, answer |-> Nobody]
NoDialog(p) == [p EXCEPT !.adding = Nobody, !.name = Nobody, !.call = 0]

Init ==
    /\ file \in [Codes -> {Nobody, [k \in Kinds |-> {}]}]
    /\ page = [expanded |-> Nobody, adding |-> Nobody, name |-> Nobody, call |-> 0,
               carrier |-> FALSE, code |-> Nobody]
    /\ companies = [Unread EXCEPT !.stage = "asked"]
    /\ fleet = [c \in Codes |-> [k \in Kinds |-> Unread]]
    /\ calls = <<>> /\ upsets = 0

-----------------------------------------------------------------------------
\* The catalog.

\* listCompanies: both tables joined to the carrier, and each counted in the
\* rows of that join.
Listed(f, c) ==
    IF f[c] = Nobody THEN Nobody
    ELSE LET rows(k) == IF f[c][k] = {} THEN 1 ELSE Cardinality(f[c][k])
             other(k) == IF k = "vehicle" THEN "driver" ELSE "vehicle"
         IN  [k \in Kinds |-> Cardinality(f[c][k]) * rows(other(k))]

OnFile(f) == [c \in Codes |-> Listed(f, c)]

Taken(call) == call.kind = "carrier" /\ file[call.carrier] # Nobody

\* createCompany, createVehicle, createDriver: what is there already is kept.
Insert(call) ==
    IF call.kind = "carrier" THEN file' = [file EXCEPT ![call.carrier] = [k \in Kinds |-> {}]]
    ELSE file' = [file EXCEPT ![call.carrier][call.kind] = @ \cup {call.name}]

-----------------------------------------------------------------------------
\* Queries.

\* `old`: failed, or invalidated while it was not on the screen.
Ask(q) == [q EXCEPT !.stage = "asked", !.answer = Nobody]

\* An invalidation: what is on the screen is read again, the rest when it is next.
Invalidated(q, shown) == IF shown THEN Ask(q) ELSE [q EXCEPT !.stage = "idle", !.old = TRUE, !.answer = Nobody]

\* A mount reads what was never read or is old; too old by time is a read after it.
Mounted(q) == IF q.stage = "idle" /\ (q.data = Nobody \/ q.old) THEN Ask(q) ELSE q

Answered(q, now) == IF q.stage = "asked" /\ q.answer = Nobody THEN {q, [q EXCEPT !.answer = now]} ELSE {q}
Landed(q, now) == [Unread EXCEPT !.data = IF q.answer = Nobody THEN now ELSE q.answer]
Failed(q) == [q EXCEPT !.stage = "idle", !.old = TRUE, !.answer = Nobody]

Upset == upsets < MaxUpsets /\ upsets' = upsets + 1

\* One step of a query: landed, failed, tried again, or read again because of its
\* age or because the window came back.
Moved(q, shown, now, r) ==
    \/ q.stage = "asked" /\ r = Landed(q, now) /\ UNCHANGED upsets
    \/ q.stage = "asked" /\ r = Failed(q) /\ Upset
    \/ q.stage = "idle" /\ shown /\ r = Ask(q) /\ IF q.old THEN UNCHANGED upsets ELSE Upset

\* A query under way has been answered before the insert, or is after it.
Overtakes(call) ==
    /\ companies' \in Answered(companies, OnFile(file))
    /\ IF call.kind = "carrier" THEN UNCHANGED fleet
       ELSE \E q \in Answered(fleet[call.carrier][call.kind], file[call.carrier][call.kind]) :
               fleet' = [fleet EXCEPT ![call.carrier][call.kind] = q]

\* The list; a failure takes it off the screen, the open row with its dialog.
Items == IF companies.data = Nobody \/ companies.old THEN {}
         ELSE {c \in Codes : companies.data[c] # Nobody}
Open(c) == page.expanded = c /\ c \in Items

\* The row of a carrier comes and goes with its two queries, and what it asked to
\* add has nobody left to report to.
RowMounts(c) == fleet' = IF c = Nobody THEN fleet
                         ELSE [fleet EXCEPT ![c] = [k \in Kinds |-> Mounted(@[k])]]
RowLeaves == calls' = [i \in DOMAIN calls |-> [calls[i] EXCEPT !.here = @ /\ calls[i].kind = "carrier"]]

CompaniesQuery ==
    /\ \E r \in {Ask(companies), Landed(companies, OnFile(file)), Failed(companies)} :
          Moved(companies, TRUE, OnFile(file), r) /\ companies' = r
    /\ IF companies'.old THEN page' = NoDialog(page) /\ RowLeaves ELSE UNCHANGED <<page, calls>>
    /\ IF companies.old /\ ~companies'.old THEN RowMounts(page.expanded) ELSE UNCHANGED fleet
    /\ UNCHANGED file

FleetQuery(c, k) ==
    LET q == fleet[c][k]
        now == file[c][k]
    IN  /\ q.stage = "asked" \/ Open(c)
        /\ \E r \in {Ask(q), Landed(q, now), Failed(q)} :
              Moved(q, Open(c), now, r) /\ fleet' = [fleet EXCEPT ![c][k] = r]
        /\ UNCHANGED <<file, page, companies, calls>>

-----------------------------------------------------------------------------
\* The page.

Modal == page.adding # Nobody \/ page.carrier
Expands(c) ==
    /\ page' = NoDialog([page EXCEPT !.expanded = c])
    /\ RowLeaves /\ RowMounts(c)
    /\ UNCHANGED <<file, companies, upsets>>

Toggle(c) == ~Modal /\ c \in Items /\ Expands(IF page.expanded = c THEN Nobody ELSE c)

Types(p) == ~(p = page) /\ page' = p /\ UNCHANGED <<file, companies, fleet, calls, upsets>>

OpenDialog(k) == ~Modal /\ Open(page.expanded) /\ Types([page EXCEPT !.adding = k])
TypeName(n) == page.adding # Nobody /\ Types([page EXCEPT !.name = n])
CloseDialog == page.adding # Nobody /\ Types(NoDialog(page))
OpenCarrier == ~Modal /\ Types([page EXCEPT !.carrier = TRUE])
TypeCode(c) == page.carrier /\ Types([page EXCEPT !.code = c])
CloseCarrier == page.carrier /\ Types([page EXCEPT !.carrier = FALSE])

UnderWay(i) == calls[i].stage \in {"asked", "done", "refused"}
Request(kind, c, n) ==
    /\ Len(calls) < MaxPresses
    /\ calls' = Append(calls, [kind |-> kind, carrier |-> c, name |-> n, here |-> TRUE, stage |-> "asked"])
    /\ UNCHANGED <<file, companies, fleet, upsets>>

Add ==
    /\ page.adding # Nobody /\ page.name # Nobody
    /\ page.call # 0 => ~UnderWay(page.call)
    /\ Request(page.adding, page.expanded, page.name)
    /\ page' = [page EXCEPT !.call = Len(calls')]

AddCarrier ==
    /\ page.carrier /\ page.code # Nobody
    /\ \A i \in DOMAIN calls : calls[i].kind = "carrier" => ~UnderWay(i)
    /\ Request("carrier", page.code, Nobody)
    /\ UNCHANGED page

-----------------------------------------------------------------------------
\* The requests.

Moves(i, stage) == calls' = [calls EXCEPT ![i].stage = stage]

Serve(i) ==
    /\ calls[i].stage = "asked"
    /\ IF Taken(calls[i]) THEN UNCHANGED <<file, companies, fleet>> /\ Moves(i, "refused")
       ELSE Insert(calls[i]) /\ Moves(i, "done") /\ Overtakes(calls[i])
    /\ UNCHANGED <<page, upsets>>

\* Mutant: the list of the row that is open now is read again.
RereadOpen(call) ==
    IF call.kind = "carrier" \/ page.expanded = Nobody THEN fleet
    ELSE [fleet EXCEPT ![page.expanded][call.kind] = Invalidated(@, TRUE)]

Reread(call) ==
    IF call.kind = "carrier" THEN fleet
    ELSE [fleet EXCEPT ![call.carrier][call.kind] = Invalidated(@, Open(call.carrier))]

\* onSuccess: read again, empty the fields and close, whatever dialog is open by now.
Lands(i) ==
    /\ calls[i].stage = "done" /\ Moves(i, "landed")
    /\ fleet' = Reread(calls[i])
    /\ companies' = Ask(companies)
    /\ page' = IF calls[i].kind = "carrier" THEN [page EXCEPT !.carrier = FALSE, !.code = Nobody]
               ELSE IF calls[i].here THEN NoDialog(page) ELSE page
    /\ UNCHANGED <<file, upsets>>

CallFails(i) ==
    /\ \/ calls[i].stage = "refused" /\ UNCHANGED upsets
       \/ calls[i].stage \in {"asked", "done"} /\ Upset
    /\ Moves(i, "failed")
    /\ UNCHANGED <<file, page, companies, fleet>>

Next ==
    \/ CompaniesQuery \/ \E c \in Codes, k \in Kinds : FleetQuery(c, k)
    \/ \E c \in Codes : Toggle(c) \/ TypeCode(c)
    \/ \E k \in Kinds : OpenDialog(k)
    \/ \E n \in Names : TypeName(n)
    \/ CloseDialog \/ OpenCarrier \/ CloseCarrier \/ Add \/ AddCarrier
    \/ \E i \in DOMAIN calls : Serve(i) \/ Lands(i) \/ CallFails(i)

Spec == Init /\ [][Next]_vars

-----------------------------------------------------------------------------
\* What the page reported as added is in the lists it shows, whichever row was
\* open or closed when the answer came, and once they are neither being read
\* nor marked to be.
AddedIsListed ==
    \A i \in DOMAIN calls :
        LET q == fleet[calls[i].carrier][calls[i].kind] IN
        calls[i].stage = "landed" =>
            IF calls[i].kind = "carrier"
            THEN companies.stage = "idle" /\ ~companies.old => companies.data[calls[i].carrier] # Nobody
            ELSE q.stage = "idle" /\ ~q.old /\ q.data # Nobody => calls[i].name \in q.data

\* The two figures of a row, "Arac / Surucu", are the carrier's vehicles and drivers.
CountsAreTheFleet ==
    \A c \in Codes : file[c] # Nobody =>
        \A k \in Kinds : OnFile(file)[c][k] = Cardinality(file[c][k])

\* A dialog is closed by its own answer: what is typed in another one stays.
LateAnswerKeepsTheDialogStep ==
    page.name # Nobody /\ page'.name = Nobody /\ calls' # calls =>
      page.call \in DOMAIN calls /\ calls'[page.call].stage = "landed"
LateAnswerKeepsTheDialog == [][LateAnswerKeepsTheDialogStep]_vars

=============================================================================
