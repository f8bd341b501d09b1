----------------------------- MODULE ShareLinks -----------------------------
(***************************************************************************)
(* The consignee's links of one shipment: minted, listed and revoked from  *)
(* the dashboard (web components/ShareLinks.tsx, api/src/share), opened by *)
(* whoever holds one, without an account.  Opening one changes nothing but  *)
(* a counter nobody waits for, so a page is a function of the state: what   *)
(* it reveals to which reader.  A token is its link's name.                 *)
(***************************************************************************)
EXTENDS Naturals

CONSTANTS
    Links,         \* tokens that may be minted
    Guess,         \* a token of the right shape that never is
    Tabs,          \* dashboards that show the shipment
    MaxTime,       \* bound: the clock, in the days a link lives
    MaxListings    \* bound: list requests

VARIABLES
    now,
    link,          \* kh.share_links
    tab,           \* per dashboard: cached list, its fetch, its mint, its revocation, and
                   \* for the properties the links it was told are revoked
    listings

vars == <<now, link, tab, listings>>

Tokens == Links \cup {Guess}
Link == [made : BOOLEAN, route : BOOLEAN, driver : BOOLEAN,
         expires : 0 .. MaxTime + 2, revoked : 0 .. MaxTime]
NoLink == [made |-> FALSE, route |-> FALSE, driver |-> FALSE, expires |-> 0, revoked |-> 0]

Languages == {"tr", "ar", "ckb"}

\* A listing: the links it shows as live.
Listing == SUBSET Links

Stage == {"none", "asked", "done"}
Panel == [rows : Listing, fetch : Stage, answer : Listing, mint : Stage,
          revoke : Stage, which : Tokens, told : SUBSET Links]
Fresh == [rows |-> {}, fetch |-> "none", answer |-> {}, mint |-> "none",
          revoke |-> "none", which |-> Guess, told |-> {}]

TypeOK ==
    /\ now \in 1 .. MaxTime
    /\ link \in [Links -> Link]
    /\ \A k \in Links : link[k].made => link[k].expires > 1
    /\ tab \in [Tabs -> Panel]
    /\ listings \in 0 .. MaxListings

Init ==
    /\ now = 1
    /\ link = [k \in Links |-> NoLink]
    /\ tab = [t \in Tabs |-> Fresh]
    /\ listings = 0

-----------------------------------------------------------------------------
\* The server.
Set(t, f, v) == tab' = [tab EXCEPT ![t] = [@ EXCEPT ![f] = v]]

\* mint(): whoever calls may ask for the route, hide the driver and choose the
\* life; the panel does not, which is no route, the driver shown, and a week
\* more than the session may live.
MintCommits(t) ==
    /\ tab[t].mint = "asked"
    /\ \E k \in Links, wish \in [route : BOOLEAN, driver : BOOLEAN, life : {1, 2}] :
        /\ ~link[k].made
        /\ link' = [link EXCEPT ![k] = [NoLink EXCEPT !.made = TRUE, !.route = wish.route,
                        !.driver = wish.driver, !.expires = now + wish.life]]
    /\ Set(t, "mint", "done")
    /\ UNCHANGED <<now, listings>>

\* Mutant: the time of the revocation is written again.
RevokeAgain(k) == link' = [link EXCEPT ![k].revoked = now]

\* coalesce(revoked_at, now())
Revoked(k) == link' = [link EXCEPT ![k].revoked = IF @ = 0 THEN now ELSE @]

RevokeCommits(t) ==
    /\ tab[t].revoke = "asked"
    /\ Revoked(tab[t].which)
    /\ Set(t, "revoke", "done")
    /\ UNCHANGED <<now, listings>>

Expired(k) == link[k].expires <= now
Active(k) == link[k].revoked = 0 /\ ~Expired(k)

\* list(): every link of the session, of which the panel shows the live ones.
List == { k \in Links : link[k].made /\ Active(k) }

ListReads(t) ==
    /\ tab[t].fetch = "asked"
    /\ tab' = [tab EXCEPT ![t] = [@ EXCEPT !.fetch = "done", !.answer = List]]
    /\ UNCHANGED <<now, link, listings>>

DayPasses ==
    /\ now < MaxTime
    /\ now' = now + 1
    /\ UNCHANGED <<link, tab, listings>>

-----------------------------------------------------------------------------
\* The panel.  invalidateQueries() drops the answer of a fetch under way and
\* starts another.
AskMint(t) ==
    /\ tab[t].mint = "none"
    /\ Set(t, "mint", "asked")
    /\ UNCHANGED <<now, link, listings>>

AskRevoke(t) ==
    /\ tab[t].revoke = "none"
    /\ \E k \in tab[t].rows :
        tab' = [tab EXCEPT ![t] = [@ EXCEPT !.revoke = "asked", !.which = k]]
    /\ UNCHANGED <<now, link, listings>>

\* The panel is opened, or the window comes back to the front.
AskList(t) ==
    /\ listings < MaxListings /\ listings' = listings + 1
    /\ tab[t].fetch = "none"
    /\ Set(t, "fetch", "asked")
    /\ UNCHANGED <<now, link>>

ListLands(t) ==
    /\ tab[t].fetch = "done"
    /\ tab' = [tab EXCEPT ![t] = [@ EXCEPT !.rows = tab[t].answer, !.fetch = "none", !.answer = {}]]
    /\ UNCHANGED <<now, link, listings>>

\* A read that fails leaves the list as it was.
ListFails(t) ==
    /\ tab[t].fetch = "asked"
    /\ Set(t, "fetch", "none")
    /\ UNCHANGED <<now, link, listings>>

\* Mutant: a fetch under way is taken for the new one.
JoinFetch(entry) == IF entry.fetch = "none" THEN [entry EXCEPT !.fetch = "asked"] ELSE entry

Invalidated(entry) == [entry EXCEPT !.fetch = "asked", !.answer = {}]

Minted(t) ==
    /\ tab[t].mint = "done"
    /\ tab' = [tab EXCEPT ![t] = Invalidated([@ EXCEPT !.mint = "none"])]
    /\ UNCHANGED <<now, link, listings>>

WasRevoked(t) ==
    /\ tab[t].revoke = "done"
    /\ tab' = [tab EXCEPT ![t] = Invalidated([@ EXCEPT !.revoke = "none", !.which = Guess,
                                                      !.told = tab[t].told \cup {tab[t].which}])]
    /\ UNCHANGED <<now, link, listings>>

\* The request or its answer is lost: an error toast, and the list stays.
PressFails(t) ==
    /\ \/ tab[t].mint # "none" /\ Set(t, "mint", "none")
       \/ /\ tab[t].revoke # "none"
          /\ tab' = [tab EXCEPT ![t] = [@ EXCEPT !.revoke = "none", !.which = Guess]]
    /\ UNCHANGED <<now, link, listings>>

-----------------------------------------------------------------------------
\* The consignee's page.  Mutant: an old link says so before anything else.
ResolveExpiryFirst(token) ==
    IF token = Guess \/ ~link[token].made THEN "unknown"
    ELSE IF Expired(token) THEN "expired"
    ELSE IF link[token].revoked # 0 THEN "unknown" ELSE "ok"

\* resolve(): never minted and revoked are one answer, before expiry is looked at.
Resolve(token) ==
    IF token = Guess \/ ~link[token].made \/ link[token].revoked # 0 THEN "unknown"
    ELSE IF Expired(token) THEN "expired" ELSE "ok"

\* resolveLocale(): the reader's choice, the consignee's country (in Iraq a
\* browser set to Sorani decides), the browser, Turkish.
ResolveLocale(query, country, browser) ==
    CASE query # "none" -> query
      [] country = "IQ" -> IF browser = "ckb" THEN "ckb" ELSE "ar"
      [] country = "SY" -> "ar"
      [] country = "TR" -> "tr"
      [] country \notin {"IQ", "SY", "TR"} /\ browser \in Languages -> browser
      [] OTHER -> "tr"

\* The projection: the driver's columns leave the database only when the link
\* grants them, and so does the trace.
Grants(k) == {"position", "order"} \cup (IF link[k].driver THEN {"driver"} ELSE {})
                                   \cup (IF link[k].route THEN {"route"} ELSE {})

Notice(token, status, reader) ==
    [token |-> token, status |-> status, facts |-> {},
     lang |-> ResolveLocale(reader.query, "unknown", reader.browser)]

\* render() and shipmentPage(); the consignee's country counts only on a page
\* that shows the shipment.
Page(token, reader, country) ==
    CASE Resolve(token) = "ok" ->
            [token |-> token, status |-> 200, facts |-> Grants(token),
             lang |-> ResolveLocale(reader.query, country, reader.browser)]
      [] Resolve(token) = "expired" -> Notice(token, 410, reader)
      [] Resolve(token) = "unknown" -> Notice(token, 404, reader)

Readers == [query : {"none", "ckb"}, browser : {"tr", "en"}]

Next ==
    \/ \E t \in Tabs :
        \/ MintCommits(t) \/ RevokeCommits(t) \/ ListReads(t)
        \/ AskMint(t) \/ AskRevoke(t) \/ AskList(t) \/ ListLands(t) \/ ListFails(t)
        \/ Minted(t) \/ WasRevoked(t) \/ PressFails(t)
    \/ DayPasses

Spec == Init /\ [][Next]_vars

-----------------------------------------------------------------------------
\* A revoked link cannot be told from one that never was: same status, same
\* words, same language, also when it has expired since.
RevokedSaysNothing ==
    \A k \in Links, reader \in Readers, country \in {"IQ", "TR"} :
        link[k].made /\ link[k].revoked # 0
            => [Page(k, reader, country) EXCEPT !.token = Guess] = Page(Guess, reader, country)

\* The record of when the consignee lost access is written once, whoever else
\* presses revoke on an old list.
FirstRevocationKeptStep ==
    \A k \in Links : link[k].revoked # 0 => link'[k].revoked = link[k].revoked
FirstRevocationKept == [][FirstRevocationKeptStep]_vars

\* Once a dashboard was told a link is revoked, no list that lands shows it as
\* live: an answer read before the revocation is dropped, however late it is.
NothingComesBackStep ==
    \A t \in Tabs :
     tab[t].fetch = "done" /\ tab'[t].fetch = "none"
         => tab'[t].rows \cap tab[t].told = {}
NothingComesBack == [][NothingComesBackStep]_vars

=============================================================================
