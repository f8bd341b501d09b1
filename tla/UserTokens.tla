----------------------------- MODULE UserTokens -----------------------------
(***************************************************************************)
(* The dispatcher's sign-in: refresh-token rotation with reuse detection   *)
(* on the server (api/src/auth/auth.service.ts) and the client that holds  *)
(* the pair (web/src/lib/api.ts, download.ts).  The tabs of a browser      *)
(* share one localStorage; each tab has its own single-flight refresh.     *)
(*                                                                         *)
(* A pair is the id of its refresh token.  A refresh is two statements     *)
(* apart: SELECT and the check, then UPDATE and INSERT, each its own step, *)
(* since the service opens no transaction and locks no row.  The answer of *)
(* a refresh may be lost; its handler runs on.  Expiry of a refresh token  *)
(* (30 days) and a disabled account are refusals like an unknown token.    *)
(***************************************************************************)
EXTENDS Naturals, FiniteSets

CONSTANTS
    Tabs,          \* tabs of one browser
    Calls,         \* requests one tab may have under way
    MaxTokens,     \* bound: refresh tokens ever issued
    MaxFamilies,   \* bound: sign-ins
    MaxLost        \* bound: lost answers and server errors

VARIABLES
    issued,        \* kh.refresh_tokens: how many rows there are
    family,        \* token -> family_id
    revoked,       \* the tokens with revoked_at
    store,         \* localStorage: the pair every tab of the browser reads, 0 if none
    call,          \* tab -> request -> whether its 401 is on its way, or it waits
    flight,        \* tab -> refreshInFlight
    handlers,      \* refreshes the server works on
    answers,       \* answers on their way to the tab that waits for them
    lost,          \* counts towards MaxLost
    cause,         \* for the properties: token -> how it came to be revoked
    burned,        \* for the properties: families in which a reuse was detected
    raced          \* for the properties: families two handlers passed the check of

vars == <<issued, family, revoked, store, call, flight, handlers, answers, lost,
          cause, burned, raced>>

Token == 1 .. MaxTokens
Family == 1 .. MaxFamilies

Handlers == [tab : Tabs, token : Token, passed : BOOLEAN, heard : BOOLEAN]
Answers == [tab : Tabs, token : Token, verdict : Token \cup {0}]   \* 0: refused

TypeOK ==
    /\ issued \in 0 .. MaxTokens
    /\ family \in [Token -> Family \cup {0}]
    /\ revoked \subseteq 1 .. issued
    /\ store \in 0 .. issued
    /\ call \in [Tabs -> [Calls -> {"idle", "refused", "waiting"}]]
    /\ flight \in [Tabs -> BOOLEAN]
    /\ \A t \in Tabs : flight[t] <=> \E c \in Calls : call[t][c] = "waiting"
    /\ handlers \subseteq Handlers /\ answers \subseteq Answers
    /\ lost \in 0 .. MaxLost
    /\ cause \in [Token -> [by : Tabs \cup {"nobody", "reuse", "logout"}, heard : BOOLEAN]]
    /\ burned \subseteq Family /\ raced \subseteq Family

Idle == [c \in Calls |-> "idle"]

Init ==
    /\ issued = 0 /\ family = [k \in Token |-> 0]
    /\ revoked = {} /\ store = 0
    /\ call = [t \in Tabs |-> Idle]
    /\ flight = [t \in Tabs |-> FALSE]
    /\ handlers = {} /\ answers = {}
    /\ lost = 0
    /\ cause = [k \in Token |-> [by |-> "nobody", heard |-> FALSE]]
    /\ burned = {} /\ raced = {}

Of(f) == { k \in 1 .. issued : family[k] = f }
Live(f) == Of(f) \ revoked

\* issueTokens: one more row.
Issue(f) ==
    /\ issued < MaxTokens
    /\ issued' = issued + 1
    /\ family' = [family EXCEPT ![issued + 1] = f]

-----------------------------------------------------------------------------
\* The pages of the browser.

\* The login page, which a browser that holds a pair is sent away from: a new
\* family, stored, and a hard navigation to the dashboard.
Login(t) ==
    /\ store = 0 /\ call[t] = Idle
    /\ \E f \in Family : /\ \A g \in Family : Of(g) = {} => f <= g
                         /\ Of(f) = {} /\ Issue(f)
    /\ store' = issued + 1
    /\ UNCHANGED <<revoked, call, flight, handlers, answers, lost, cause, burned, raced>>

\* SignOut: the pair is dropped, no request is made, and the navigation is the
\* router's: a refresh under way goes on.
SignOut ==
    /\ store # 0 /\ store' = 0
    /\ UNCHANGED <<issued, family, revoked, call, flight, handlers, answers, lost, cause,
                   burned, raced>>

\* location.href = '/login': the tab forgets what it had under way.
Leaves(t) ==
    /\ call' = [call EXCEPT ![t] = Idle]
    /\ flight' = [flight EXCEPT ![t] = FALSE]
    /\ handlers' = { IF h.tab = t THEN [h EXCEPT !.heard = FALSE] ELSE h : h \in handlers }
    /\ answers' = { a \in answers : a.tab # t }

-----------------------------------------------------------------------------
\* apiFetch and downloadAuthed.

\* A request the guard refuses: the access token it carries is over, or it
\* carries none.  One that is accepted touches nothing here.
Ask(t, c) ==
    /\ call[t][c] = "idle"
    /\ call' = [call EXCEPT ![t][c] = "refused"]
    /\ UNCHANGED <<issued, family, revoked, store, flight, handlers, answers, lost, cause,
                   burned, raced>>

Submit(t) == handlers' = handlers \cup
    {[tab |-> t, token |-> store, passed |-> FALSE, heard |-> TRUE]}

\* Mutant: every request that meets a 401 refreshes for itself.
JoinNothing(t) == store # 0 /\ Submit(t)

\* refreshTokens(): the promise under way, or a new one.
Join(t) == IF flight[t] THEN UNCHANGED handlers ELSE store # 0 /\ Submit(t)

Refused(t, c) ==
    /\ call[t][c] = "refused"
    /\ Join(t)
    /\ flight' = [flight EXCEPT ![t] = TRUE]
    /\ call' = [call EXCEPT ![t][c] = "waiting"]
    /\ UNCHANGED <<issued, family, revoked, store, answers, lost, cause, burned, raced>>

\* No refresh token to present.
GivesUp(t, c) ==
    /\ call[t][c] = "refused" /\ ~flight[t] /\ store = 0
    /\ Leaves(t)
    /\ UNCHANGED <<issued, family, revoked, store, lost, cause, burned, raced>>

-----------------------------------------------------------------------------
\* AuthService.refresh.

Answer(h, verdict) ==
    /\ handlers' = handlers \ {h}
    /\ answers' = IF h.heard THEN
                     answers \cup {[tab |-> h.tab, token |-> h.token, verdict |-> verdict]}
                  ELSE answers

\* Two refreshes of one family past the check, or one past it when the family ends.
Overlap(f) ==
    raced' = IF \E g \in handlers : g.passed /\ family[g.token] = f
             THEN raced \cup {f} ELSE raced

\* SELECT: an unrevoked row passes the check.
Check(h) ==
    /\ ~h.passed /\ h.token \notin revoked
    /\ handlers' = (handlers \ {h}) \cup {[h EXCEPT !.passed = TRUE]}
    /\ Overlap(family[h.token])
    /\ UNCHANGED <<issued, family, revoked, store, call, flight, answers, lost, cause, burned>>

Revoke(set, by) ==
    /\ revoked' = revoked \cup set
    /\ cause' = [k \in Token |-> IF k \in set \ revoked THEN [by |-> by, heard |-> FALSE]
                                 ELSE cause[k]]

\* Mutant: only the token presented is revoked.
DetectOne(h) == Revoke({h.token}, "reuse")

\* A revoked token presented again: every token of its family is revoked.
Detect(h) == Revoke(Of(family[h.token]), "reuse")

Reuse(h) ==
    /\ h \in handlers /\ ~h.passed /\ h.token \in revoked
    /\ Detect(h)
    /\ burned' = burned \cup {family[h.token]}
    /\ Overlap(family[h.token])
    /\ Answer(h, 0)
    /\ UNCHANGED <<issued, family, store, call, flight, lost>>

\* Mutant: the new token is issued and the old one stays.
RetireNothing(h) == UNCHANGED <<revoked, cause>>

\* UPDATE ... WHERE id: no condition on revoked_at.
Retire(h) == Revoke({h.token}, h.tab)

Rotate(h) ==
    /\ h.passed
    /\ Retire(h)
    /\ Issue(family[h.token])
    /\ Answer(h, issued + 1)
    /\ UNCHANGED <<store, call, flight, lost, burned, raced>>

\* A statement fails: what came before it stays, and the answer is a 500.
ServerError(h) ==
    /\ lost < MaxLost /\ lost' = lost + 1
    /\ \/ UNCHANGED <<revoked, cause>>
       \/ h.passed /\ Retire(h)
    /\ Answer(h, 0)
    /\ UNCHANGED <<issued, family, store, call, flight, burned, raced>>

\* logout(): the family of the token presented (no page calls it).
Logout(k) ==
    /\ k \in 1 .. issued /\ Live(family[k]) # {}
    /\ Revoke(Of(family[k]), "logout")
    /\ Overlap(family[k])
    /\ UNCHANGED <<issued, family, store, call, flight, handlers, answers, lost, burned>>

-----------------------------------------------------------------------------
\* The answer of a refresh in the tab.

\* res.ok: the pair is stored and every waiter repeats its request, once.
Stored(t) ==
    \E a \in answers :
      /\ a.tab = t /\ a.verdict # 0 /\ flight[t]
      /\ answers' = answers \ {a}
      /\ store' = a.verdict
      /\ flight' = [flight EXCEPT ![t] = FALSE]
      /\ call' = [call EXCEPT ![t] = [c \in Calls |->
                    IF @[c] = "waiting" THEN "idle" ELSE @[c]]]
      /\ cause' = [cause EXCEPT ![a.token].heard = @ \/ cause[a.token].by = t]
      /\ UNCHANGED <<issued, family, revoked, handlers, lost, burned, raced>>

\* !res.ok: whatever pair is stored by now is dropped.
Dropped(t) ==
    /\ flight[t] /\ \E a \in answers : a.tab = t /\ a.verdict = 0
    /\ store' = 0
    /\ Leaves(t)
    /\ UNCHANGED <<issued, family, revoked, lost, cause, burned, raced>>

\* No answer: the pair is kept, and the waiters go to /login all the same, which
\* sends them back.
NoAnswer(t) ==
    /\ flight[t] /\ lost < MaxLost /\ lost' = lost + 1
    /\ Leaves(t)
    /\ UNCHANGED <<issued, family, revoked, store, cause, burned, raced>>

-----------------------------------------------------------------------------
Requests(t) == \E c \in Calls : Ask(t, c) \/ Refused(t, c) \/ GivesUp(t, c)
Landing(t) == Stored(t) \/ Dropped(t) \/ NoAnswer(t)
Server == \E h \in handlers : Check(h) \/ Reuse(h) \/ Rotate(h) \/ ServerError(h)

Next ==
    \/ \E t \in Tabs : Requests(t) \/ Login(t) \/ Landing(t)
    \/ SignOut \/ Server
    \/ \E k \in Token : Logout(k)

Spec == Init /\ [][Next]_vars

-----------------------------------------------------------------------------
\* A refresh its tab waits for is taken for a replay only when the token was
\* rotated for another tab, or the answer of that rotation was never stored, or
\* the family was over: the requests of one tab never log it out between them ("the 2nd through Nth
\* would look like a stolen-token replay", api.ts).
ReuseHasACauseStep ==
    \A h \in handlers :
       Reuse(h) => \/ ~h.heard
                   \/ ~cause[h.token].heard
                   \/ cause[h.token].by # h.tab
ReuseHasACause == [][ReuseHasACauseStep]_vars

\* A family has one usable token, unless two refreshes of it were past the
\* check at once (nothing locks the row).
OneTokenPerFamily ==
    \A f \in Family \ raced : Cardinality(Live(f)) <= 1

\* A family revoked for a reuse stays revoked, unless a refresh of it was past
\* the check at that moment: it then goes on to issue a token.
BurnedStaysBurned == \A f \in burned \ raced : Live(f) = {}

=============================================================================
