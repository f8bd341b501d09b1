------------------------- MODULE Shipments_Proofs -------------------------
(***************************************************************************)
(* What TLAPS proves of a shipment and the browser it is worked on with    *)
(* (MCShipments), for any sets of links, tabs, carriers and names and any  *)
(* bounds: each part keeps an inductive invariant of its own, a behaviour  *)
(* is of one part, and together they give what the runs check.             *)
(***************************************************************************)
EXTENDS MCShipments, SessionLifecycle_Proofs, Sequences, FiniteSetTheorems, TLAPS

-----------------------------------------------------------------------------
(* The sign-in.                                                            *)

TokensNext == [Tokens!Next]_tokensVars

\* Rows, handlers and answers are of tokens that were issued; a token that was
\* not has no history, and a burned family had one.
RowsIssued ==
    /\ \A k \in Tokens!Token : family[k] = 0 <=> k > issued
    /\ \A k \in Tokens!Token : k > issued => ~cause[k].heard
    /\ \A h \in handlers : h.token \in 1 .. issued
    /\ \A a \in answers : a.token \in 1 .. issued /\ a.verdict \in 0 .. issued
    /\ \A f \in burned : \E k \in 1 .. issued : family[k] = f

\* Outside the families two refreshes overlapped in, a handler past the check is
\* the only one of its family and holds a usable token.
Alone ==
    \A g, h \in handlers :
        g.passed /\ h.passed /\ family[g.token] = family[h.token]
        /\ family[h.token] \notin raced => g = h /\ h.token \notin revoked

OneUsable ==
    \A f \in Tokens!Family \ raced :
        \A j, k \in 1 .. issued :
            family[j] = f /\ family[k] = f /\ j \notin revoked /\ k \notin revoked => j = k

NoneUsable ==
    \A f \in burned \ raced : \A k \in 1 .. issued : family[k] = f => k \in revoked

\* A tab waits for one refresh at most: on the server, or on its way back.
OneFlight ==
    /\ \A h \in handlers : h.heard => flight[h.tab]
    /\ \A a \in answers : flight[a.tab]
    /\ \A g, h \in handlers : g.heard /\ h.heard /\ g.tab = h.tab => g = h
    /\ \A a, b \in answers : a.tab = b.tab => a = b
    /\ \A h \in handlers, a \in answers : h.heard => h.tab # a.tab

\* The token an answer brings is known to nobody yet.
Unseen ==
    \A a \in answers : a.verdict # 0 =>
        /\ store # a.verdict /\ ~cause[a.verdict].heard
        /\ \A h \in handlers : h.token # a.verdict
        /\ \A b \in answers : b.token # a.verdict /\ (b.verdict = a.verdict => b = a)

\* What the browser holds, and what a tab waits about, was not rotated in an
\* answer that was stored.
Unspent ==
    /\ store # 0 => ~cause[store].heard
    /\ \A h \in handlers : h.heard /\ cause[h.token].heard => cause[h.token].by # h.tab

TokensInv == /\ Tokens!TypeOK /\ RowsIssued /\ Alone /\ OneUsable /\ NoneUsable
             /\ OneFlight /\ Unseen /\ Unspent

LEMMA TokensInitHolds == Tokens!Init => TokensInv
<1>. SUFFICES ASSUME Tokens!Init PROVE TokensInv
  OBVIOUS
<1>. USE NumbersAssumption DEF Tokens!Init
<1>1. Tokens!TypeOK
  BY DEF Tokens!TypeOK, Tokens!Token, Tokens!Family, Tokens!Idle
<1>2. RowsIssued
  BY DEF RowsIssued, Tokens!Token
<1>. QED
  BY <1>1, <1>2 DEF TokensInv, Alone, OneUsable, NoneUsable, OneFlight, Unseen, Unspent

\* What Issue adds.
LEMMA IssueFacts ==
    ASSUME Tokens!TypeOK, NEW f \in Tokens!Family, Tokens!Issue(f)
    PROVE  /\ issued \in Nat /\ issued' = issued + 1 /\ issued' \in 0 .. MaxTokens
           /\ issued' \in Tokens!Token
           /\ family' \in [Tokens!Token -> Tokens!Family \cup {0}]
           /\ family'[issued'] = f
           /\ \A k \in Tokens!Token : k # issued' => family'[k] = family[k]
  BY NumbersAssumption DEF Tokens!TypeOK, Tokens!Issue, Tokens!Token

LEMMA LeavesFacts ==
    ASSUME Tokens!TypeOK, NEW t \in Tabs, Tokens!Leaves(t)
    PROVE  /\ call' \in [Tabs -> [Calls -> {"idle", "refused", "waiting"}]]
           /\ flight' \in [Tabs -> BOOLEAN]
           /\ \A u \in Tabs : flight'[u] <=> u # t /\ flight[u]
           /\ \A u \in Tabs : flight'[u] <=> \E c \in Calls : call'[u][c] = "waiting"
           /\ answers' = {a \in answers : a.tab # t}
           /\ handlers' \subseteq Tokens!Handlers
           /\ \A h \in handlers' : \E g \in handlers :
                 /\ h.tab = g.tab /\ h.token = g.token /\ h.passed = g.passed
                 /\ h.heard => g.heard /\ g.tab # t
<1>. USE DEF Tokens!TypeOK, Tokens!Leaves
<1>1. Tokens!Idle \in [Calls -> {"idle", "refused", "waiting"}]
  BY DEF Tokens!Idle
<1>2. call' \in [Tabs -> [Calls -> {"idle", "refused", "waiting"}]]
  BY <1>1
<1>3. \A u \in Tabs : u # t => call'[u] = call[u] /\ flight'[u] = flight[u]
  OBVIOUS
<1>4. call'[t] = Tokens!Idle /\ flight'[t] = FALSE
  OBVIOUS
<1>5. \A u \in Tabs : flight'[u] <=> u # t /\ flight[u]
  BY <1>3, <1>4
<1>6. \A u \in Tabs : flight'[u] <=> \E c \in Calls : call'[u][c] = "waiting"
  BY <1>3, <1>4 DEF Tokens!Idle
<1>7. ASSUME NEW h \in handlers'
      PROVE  /\ h \in Tokens!Handlers
             /\ \E g \in handlers :
                   /\ h.tab = g.tab /\ h.token = g.token /\ h.passed = g.passed
                   /\ h.heard => g.heard /\ g.tab # t
  <2>1. PICK g \in handlers : h = IF g.tab = t THEN [g EXCEPT !.heard = FALSE] ELSE g
    OBVIOUS
  <2>2. g \in Tokens!Handlers
    OBVIOUS
  <2>3. CASE g.tab = t
    <3>1. h = [g EXCEPT !.heard = FALSE]
      BY <2>1, <2>3
    <3>. QED
      BY <2>2, <3>1 DEF Tokens!Handlers
  <2>. QED
    BY <2>1, <2>2, <2>3
<1>. QED
  BY <1>2, <1>5, <1>6, <1>7

\* Of a set of tokens those that were not revoked are, and get a fresh history.
LEMMA RevokeFacts ==
    ASSUME Tokens!TypeOK, NEW S \in SUBSET (1 .. issued),
           NEW by \in Tabs \cup {"nobody", "reuse", "logout"}, Tokens!Revoke(S, by)
    PROVE  /\ revoked' = revoked \cup S /\ revoked' \subseteq 1 .. issued
           /\ cause' \in [Tokens!Token -> [by : Tabs \cup {"nobody", "reuse", "logout"},
                                           heard : BOOLEAN]]
           /\ \A k \in Tokens!Token : cause'[k].heard => cause'[k] = cause[k]
  BY DEF Tokens!TypeOK, Tokens!Revoke

\* The handler is done, and its tab hears of it if it still waits.
LEMMA AnswerFacts ==
    ASSUME Tokens!TypeOK, NEW h \in handlers, NEW v \in Tokens!Token \cup {0},
           Tokens!Answer(h, v)
    PROVE  /\ handlers' = handlers \ {h} /\ answers' \subseteq Tokens!Answers
           /\ answers \subseteq answers'
           /\ \A a \in answers' \ answers :
                 h.heard /\ a = [tab |-> h.tab, token |-> h.token, verdict |-> v]
  BY DEF Tokens!TypeOK, Tokens!Answer, Tokens!Handlers, Tokens!Answers

LEMMA CheckFacts ==
    ASSUME Tokens!TypeOK, NEW h \in handlers, Tokens!Check(h)
    PROVE  /\ handlers' \subseteq Tokens!Handlers
           /\ \A g \in handlers' : 
                 \/ g \in handlers \ {h}
                 \/ /\ g.tab = h.tab /\ g.token = h.token /\ g.passed
                    /\ g.heard = h.heard
                    /\ g = [h EXCEPT !.passed = TRUE]
  BY DEF Tokens!TypeOK, Tokens!Check, Tokens!Handlers

LEMMA FamilyOfHandler ==
    ASSUME Tokens!TypeOK, RowsIssued, NEW h \in handlers
    PROVE  /\ h.token \in 1 .. issued /\ h.token \in Tokens!Token
           /\ family[h.token] \in Tokens!Family /\ h.tab \in Tabs
           /\ h.passed \in BOOLEAN /\ h.heard \in BOOLEAN
  BY NumbersAssumption
     DEF Tokens!TypeOK, RowsIssued, Tokens!Handlers, Tokens!Token

LEMMA OverlapFacts ==
    ASSUME Tokens!TypeOK, NEW f \in Tokens!Family, Tokens!Overlap(f)
    PROVE  /\ raced' \subseteq Tokens!Family /\ raced \subseteq raced'
           /\ \A g \in handlers : g.passed /\ family[g.token] = f => f \in raced'
           /\ \A x \in raced' \ raced : x = f
  BY DEF Tokens!TypeOK, Tokens!Overlap

LEMMA TokensTypeStep == TokensInv /\ TokensNext => Tokens!TypeOK'
<1>. SUFFICES ASSUME TokensInv, TokensNext PROVE Tokens!TypeOK'
  OBVIOUS
<1>. USE NumbersAssumption DEF TokensInv, Tokens!TypeOK
<1>1. ASSUME NEW t \in Tabs, NEW c \in Calls, Tokens!Ask(t, c) PROVE Tokens!TypeOK'
  BY <1>1 DEF Tokens!Ask
<1>2. ASSUME NEW t \in Tabs, NEW c \in Calls, Tokens!Refused(t, c) PROVE Tokens!TypeOK'
  <2>1. call' \in [Tabs -> [Calls -> {"idle", "refused", "waiting"}]]
    BY <1>2 DEF Tokens!Refused
  <2>2. \A u \in Tabs : flight'[u] <=> \E d \in Calls : call'[u][d] = "waiting"
    BY <1>2 DEF Tokens!Refused
  <2>3. handlers' \subseteq Tokens!Handlers
    <3>1. CASE Tokens!Submit(t) /\ store # 0
      <4>1. store \in Tokens!Token
        BY <3>1 DEF Tokens!Token
      <4>2. [tab |-> t, token |-> store, passed |-> FALSE, heard |-> TRUE]
              \in Tokens!Handlers
        BY <4>1 DEF Tokens!Handlers
      <4>. QED
        BY <3>1, <4>2 DEF Tokens!Submit
    <3>. QED
      BY <1>2, <3>1 DEF Tokens!Refused, Tokens!Join
  <2>. QED
    BY <1>2, <2>1, <2>2, <2>3 DEF Tokens!Refused
<1>3. ASSUME NEW t \in Tabs, NEW c \in Calls, Tokens!GivesUp(t, c) PROVE Tokens!TypeOK'
  BY <1>3, LeavesFacts DEF Tokens!GivesUp
<1>4. ASSUME NEW t \in Tabs, Tokens!Login(t) PROVE Tokens!TypeOK'
  <2>1. PICK f \in Tokens!Family : Tokens!Issue(f)
    BY <1>4 DEF Tokens!Login
  <2>. QED
    BY <1>4, <2>1, IssueFacts DEF Tokens!Login
<1>5. ASSUME NEW t \in Tabs, Tokens!Stored(t) PROVE Tokens!TypeOK'
  <2>1. PICK a \in answers :
          /\ a.tab = t /\ a.verdict # 0 /\ flight[t]
          /\ answers' = answers \ {a}
          /\ store' = a.verdict
          /\ flight' = [flight EXCEPT ![t] = FALSE]
          /\ call' = [call EXCEPT ![t] = [c \in Calls |->
                        IF @[c] = "waiting" THEN "idle" ELSE @[c]]]
          /\ cause' = [cause EXCEPT ![a.token].heard = @ \/ cause[a.token].by = t]
          /\ UNCHANGED <<issued, family, revoked, handlers, lost, burned, raced>>
    BY <1>5 DEF Tokens!Stored
  <2>2. call' \in [Tabs -> [Calls -> {"idle", "refused", "waiting"}]]
    BY <2>1
  <2>3. \A u \in Tabs : flight'[u] <=> \E c \in Calls : call'[u][c] = "waiting"
    BY <2>1
  <2>4. a.token \in Tokens!Token /\ a.verdict \in 0 .. issued
    BY DEF Tokens!Answers, RowsIssued
  <2>5. cause' \in [Tokens!Token -> [by : Tabs \cup {"nobody", "reuse", "logout"},
                                     heard : BOOLEAN]]
    <3>. DEFINE was == cause[a.token]
    <3>1. was \in [by : Tabs \cup {"nobody", "reuse", "logout"}, heard : BOOLEAN]
      BY <2>4
    <3>2. PICK v \in BOOLEAN : cause' = [cause EXCEPT ![a.token].heard = v]
      BY <2>1
    <3>3. [was EXCEPT !.heard = v]
            \in [by : Tabs \cup {"nobody", "reuse", "logout"}, heard : BOOLEAN]
      BY <3>1
    <3>. QED
      BY <2>4, <3>2, <3>3
  <2>. QED
    BY <2>1, <2>2, <2>3, <2>4, <2>5
<1>6. ASSUME NEW t \in Tabs, Tokens!Dropped(t) PROVE Tokens!TypeOK'
  BY <1>6, LeavesFacts DEF Tokens!Dropped
<1>7. ASSUME NEW t \in Tabs, Tokens!NoAnswer(t) PROVE Tokens!TypeOK'
  BY <1>7, LeavesFacts DEF Tokens!NoAnswer
<1>8. CASE Tokens!SignOut
  BY <1>8 DEF Tokens!SignOut
<1>9. ASSUME NEW h \in handlers, Tokens!Check(h) PROVE Tokens!TypeOK'
  BY <1>9, CheckFacts, FamilyOfHandler, OverlapFacts DEF Tokens!Check
<1>10. ASSUME NEW h \in handlers, Tokens!Reuse(h) PROVE Tokens!TypeOK'
  <2>1. Tokens!Of(family[h.token]) \in SUBSET (1 .. issued)
    BY DEF Tokens!Of
  <2>2. /\ revoked' \subseteq 1 .. issued
        /\ cause' \in [Tokens!Token -> [by : Tabs \cup {"nobody", "reuse", "logout"},
                                        heard : BOOLEAN]]
    BY <1>10, <2>1, RevokeFacts DEF Tokens!Reuse, Tokens!Detect
  <2>3. family[h.token] \in Tokens!Family
    BY FamilyOfHandler
  <2>4. raced' \subseteq Tokens!Family
    BY <1>10, <2>3, OverlapFacts DEF Tokens!Reuse
  <2>5. handlers' \subseteq Tokens!Handlers /\ answers' \subseteq Tokens!Answers
    BY <1>10, AnswerFacts DEF Tokens!Reuse
  <2>. QED
    BY <1>10, <2>2, <2>3, <2>4, <2>5 DEF Tokens!Reuse
<1>11. ASSUME NEW h \in handlers, Tokens!Rotate(h) PROVE Tokens!TypeOK'
  <2>1. {h.token} \in SUBSET (1 .. issued) /\ h.tab \in Tabs
    BY FamilyOfHandler
  <2>2. /\ issued' = issued + 1 /\ issued' \in 0 .. MaxTokens
        /\ issued + 1 \in Tokens!Token
        /\ family' \in [Tokens!Token -> Tokens!Family \cup {0}]
    BY <1>11, FamilyOfHandler, IssueFacts DEF Tokens!Rotate
  <2>3. /\ revoked' \subseteq 1 .. issued
        /\ cause' \in [Tokens!Token -> [by : Tabs \cup {"nobody", "reuse", "logout"},
                                        heard : BOOLEAN]]
    BY <1>11, <2>1, RevokeFacts DEF Tokens!Rotate, Tokens!Retire
  <2>4. handlers' \subseteq Tokens!Handlers /\ answers' \subseteq Tokens!Answers
    BY <1>11, <2>2, AnswerFacts DEF Tokens!Rotate
  <2>. QED
    BY <1>11, <2>2, <2>3, <2>4 DEF Tokens!Rotate
<1>12. ASSUME NEW h \in handlers, Tokens!ServerError(h) PROVE Tokens!TypeOK'
  <2>1. {h.token} \in SUBSET (1 .. issued) /\ h.tab \in Tabs
    BY FamilyOfHandler
  <2>2. /\ revoked' \subseteq 1 .. issued
        /\ cause' \in [Tokens!Token -> [by : Tabs \cup {"nobody", "reuse", "logout"},
                                        heard : BOOLEAN]]
    BY <1>12, <2>1, RevokeFacts DEF Tokens!ServerError, Tokens!Retire
  <2>. QED
    BY <1>12, <2>2, AnswerFacts DEF Tokens!ServerError
<1>13. ASSUME NEW k \in Tokens!Token, Tokens!Logout(k) PROVE Tokens!TypeOK'
  <2>1. Tokens!Of(family[k]) \in SUBSET (1 .. issued)
    BY DEF Tokens!Of
  <2>2. family[k] \in Tokens!Family
    BY <1>13 DEF Tokens!Logout, RowsIssued
  <2>. QED
    BY <1>13, <2>1, <2>2, RevokeFacts, OverlapFacts DEF Tokens!Logout
<1>14. CASE UNCHANGED tokensVars
  BY <1>14 DEF tokensVars
<1>. QED
  BY <1>1, <1>2, <1>3, <1>4, <1>5, <1>6, <1>7, <1>8, <1>9, <1>10, <1>11, <1>12, <1>13, <1>14
     DEF TokensNext, Tokens!Next, Tokens!Requests, Tokens!Landing, Tokens!Server


\* What a refresh that is started adds.
LEMMA RefusedFacts ==
    ASSUME TokensInv, NEW t \in Tabs, NEW c \in Calls, Tokens!Refused(t, c)
    PROVE  /\ \/ flight[t] /\ handlers' = handlers
              \/ /\ ~flight[t] /\ store \in 1 .. issued
                 /\ handlers' = handlers \cup
                      {[tab |-> t, token |-> store, passed |-> FALSE, heard |-> TRUE]}
           /\ \A u \in Tabs : flight'[u] <=> u = t \/ flight[u]
           /\ UNCHANGED <<issued, family, revoked, store, answers, cause, burned, raced>>
  BY DEF TokensInv, Tokens!TypeOK, Tokens!Refused, Tokens!Join, Tokens!Submit

LEMMA StoredFacts ==
    ASSUME TokensInv, NEW t \in Tabs, Tokens!Stored(t)
    PROVE  \E a \in answers :
              /\ a.tab = t /\ a.verdict # 0 /\ flight[t]
              /\ answers' = answers \ {a}
              /\ store' = a.verdict
              /\ \A u \in Tabs : flight'[u] <=> u # t /\ flight[u]
              /\ \A k \in Tokens!Token : k # a.token => cause'[k] = cause[k]
              /\ cause'[a.token].by = cause[a.token].by
              /\ cause'[a.token].heard => cause[a.token].heard \/ cause[a.token].by = t
              /\ UNCHANGED <<issued, family, revoked, handlers, burned, raced>>
<1>. USE DEF TokensInv, Tokens!TypeOK
<1>1. PICK a \in answers :
          /\ a.tab = t /\ a.verdict # 0 /\ flight[t]
          /\ answers' = answers \ {a}
          /\ store' = a.verdict
          /\ flight' = [flight EXCEPT ![t] = FALSE]
          /\ cause' = [cause EXCEPT ![a.token].heard = @ \/ cause[a.token].by = t]
          /\ UNCHANGED <<issued, family, revoked, handlers, burned, raced>>
  BY DEF Tokens!Stored
<1>2. a.token \in Tokens!Token
  BY DEF Tokens!Answers
<1>3. /\ \A k \in Tokens!Token : k # a.token => cause'[k] = cause[k]
      /\ cause'[a.token].by = cause[a.token].by
      /\ cause'[a.token].heard => cause[a.token].heard \/ cause[a.token].by = t
  BY <1>1, <1>2
<1>. QED
  BY <1>1, <1>3

LEMMA ErrorFacts ==
    ASSUME TokensInv, NEW h \in handlers, Tokens!ServerError(h)
    PROVE  /\ revoked' \in {revoked, revoked \cup {h.token}}
           /\ revoked' # revoked => h.passed
           /\ \A k \in Tokens!Token : cause'[k].heard => cause'[k] = cause[k]
           /\ Tokens!Answer(h, 0)
           /\ UNCHANGED <<issued, family, store, flight, burned, raced>>
<1>1. {h.token} \in SUBSET (1 .. issued) /\ h.tab \in Tabs
  BY FamilyOfHandler DEF TokensInv
<1>2. Tokens!Retire(h) => /\ revoked' = revoked \cup {h.token}
                          /\ \A k \in Tokens!Token : cause'[k].heard => cause'[k] = cause[k]
  BY <1>1, RevokeFacts DEF TokensInv, Tokens!Retire
<1>. QED
  BY <1>2 DEF Tokens!ServerError

LEMMA RotateFacts ==
    ASSUME TokensInv, NEW h \in handlers, Tokens!Rotate(h)
    PROVE  /\ h.passed /\ revoked' = revoked \cup {h.token}
           /\ \A k \in Tokens!Token : cause'[k].heard => cause'[k] = cause[k]
           /\ issued' = issued + 1 /\ issued' \in Tokens!Token
           /\ family'[issued'] = family[h.token] /\ family[h.token] \in Tokens!Family
           /\ \A k \in Tokens!Token : k # issued' => family'[k] = family[k]
           /\ Tokens!Answer(h, issued')
           /\ UNCHANGED <<store, flight, burned, raced>>
<1>1. /\ {h.token} \in SUBSET (1 .. issued) /\ h.tab \in Tabs
      /\ family[h.token] \in Tokens!Family
  BY FamilyOfHandler DEF TokensInv
<1>2. /\ revoked' = revoked \cup {h.token}
      /\ \A k \in Tokens!Token : cause'[k].heard => cause'[k] = cause[k]
  BY <1>1, RevokeFacts DEF TokensInv, Tokens!Rotate, Tokens!Retire
<1>3. /\ issued' = issued + 1 /\ issued' \in Tokens!Token
      /\ family'[issued'] = family[h.token]
      /\ \A k \in Tokens!Token : k # issued' => family'[k] = family[k]
  BY <1>1, IssueFacts DEF TokensInv, Tokens!Rotate
<1>. QED
  BY <1>1, <1>2, <1>3 DEF Tokens!Rotate

\* A whole family is revoked: by a replay, or by a sign-out on the server.
LEMMA FamilyEnds ==
    ASSUME TokensInv, NEW f \in Tokens!Family, NEW by \in {"reuse", "logout"},
           Tokens!Revoke(Tokens!Of(f), by)
    PROVE  /\ revoked' = revoked \cup {k \in 1 .. issued : family[k] = f}
           /\ \A k \in Tokens!Token : cause'[k].heard => cause'[k] = cause[k]
<1>1. Tokens!Of(f) \in SUBSET (1 .. issued)
  BY DEF Tokens!Of
<1>. QED
  BY <1>1, RevokeFacts DEF TokensInv, Tokens!Of

LEMMA LoginFacts ==
    ASSUME TokensInv, NEW t \in Tabs, Tokens!Login(t)
    PROVE  \E f \in Tokens!Family :
              /\ \A k \in 1 .. issued : family[k] # f
              /\ issued' = issued + 1 /\ issued' \in Tokens!Token /\ store' = issued'
              /\ family'[issued'] = f
              /\ \A k \in Tokens!Token : k # issued' => family'[k] = family[k]
              /\ UNCHANGED <<revoked, flight, handlers, answers, cause, burned, raced>>
<1>1. PICK f \in Tokens!Family : Tokens!Of(f) = {} /\ Tokens!Issue(f)
  BY DEF Tokens!Login
<1>2. \A k \in 1 .. issued : family[k] # f
  BY <1>1 DEF Tokens!Of
<1>. QED
  BY <1>1, <1>2, IssueFacts DEF TokensInv, Tokens!Login

-----------------------------------------------------------------------------
Still == UNCHANGED <<issued, family, revoked, cause, burned, raced>>

LEMMA TokensSplit ==
    ASSUME TokensInv, TokensNext
    PROVE  \/ Still /\ UNCHANGED <<flight, handlers, answers>> /\ store' \in {store, 0}
           \/ \E t \in Tabs : Still /\ Tokens!Leaves(t) /\ store' \in {store, 0}
           \/ \E t \in Tabs, c \in Calls : Tokens!Refused(t, c)
           \/ \E t \in Tabs : Tokens!Login(t) \/ Tokens!Stored(t)
           \/ \E h \in handlers : \/ Tokens!Check(h) \/ Tokens!Reuse(h)
                                  \/ Tokens!Rotate(h) \/ Tokens!ServerError(h)
           \/ \E k \in Tokens!Token : Tokens!Logout(k)
  BY DEF TokensNext, Tokens!Next, Tokens!Requests, Tokens!Landing, Tokens!Server,
     Still, Tokens!Ask, Tokens!GivesUp, Tokens!SignOut, Tokens!Dropped,
     Tokens!NoAnswer, tokensVars

\* The rows of kh.refresh_tokens that are usable, family by family.
LEMMA RowsStep ==
    ASSUME TokensInv, TokensNext PROVE RowsIssued'
<1>. USE DEF TokensInv, RowsIssued
<1>0. /\ issued \in Nat /\ Tokens!Token = 1 .. MaxTokens /\ MaxTokens \in Nat
      /\ issued <= MaxTokens
  BY NumbersAssumption DEF Tokens!TypeOK, Tokens!Token
<1>1. CASE Still /\ UNCHANGED <<flight, handlers, answers>>
  BY <1>1 DEF Still
<1>2. ASSUME NEW t \in Tabs, Still, Tokens!Leaves(t) PROVE RowsIssued'
  BY <1>2, LeavesFacts DEF Still
<1>3. ASSUME NEW t \in Tabs, NEW c \in Calls, Tokens!Refused(t, c) PROVE RowsIssued'
  BY <1>3, RefusedFacts
<1>4. ASSUME NEW t \in Tabs, Tokens!Login(t) PROVE RowsIssued'
  <2>1. PICK f \in Tokens!Family :
          /\ issued' = issued + 1 /\ issued' \in Tokens!Token /\ family'[issued'] = f
          /\ \A k \in Tokens!Token : k # issued' => family'[k] = family[k]
          /\ UNCHANGED <<handlers, answers, cause, burned>>
    BY <1>4, LoginFacts
  <2>2. f # 0
    BY DEF Tokens!Family
  <2>3. \A k \in 1 .. issued : family'[k] = family[k]
    BY <1>0, <2>1
  <2>4. \A f2 \in burned' : \E k \in 1 .. issued' : family'[k] = f2
    BY <1>0, <2>1, <2>3
  <2>5. \A k \in Tokens!Token : family'[k] = 0 <=> k > issued'
    BY <1>0, <2>1, <2>2
  <2>. QED
    BY <1>0, <2>1, <2>4, <2>5
<1>5. ASSUME NEW t \in Tabs, Tokens!Stored(t) PROVE RowsIssued'
  BY <1>0, <1>5, StoredFacts
<1>6. ASSUME NEW h \in handlers, Tokens!Check(h) PROVE RowsIssued'
  BY <1>6, CheckFacts DEF Tokens!Check
<1>7. ASSUME NEW h \in handlers, Tokens!Reuse(h) PROVE RowsIssued'
  <2>1. family[h.token] \in Tokens!Family /\ h.token \in 1 .. issued
    BY FamilyOfHandler
  <2>2. \A k \in Tokens!Token : cause'[k].heard => cause'[k] = cause[k]
    BY <1>7, <2>1, FamilyEnds DEF Tokens!Reuse, Tokens!Detect
  <2>3. \A f \in burned' : f \in burned \/ f = family[h.token]
    BY <1>7 DEF Tokens!Reuse
  <2>4. /\ handlers' \subseteq handlers
        /\ \A a \in answers' : a \in answers \/ (a.token = h.token /\ a.verdict = 0)
    BY <1>7, AnswerFacts DEF Tokens!Reuse
  <2>. QED
    BY <1>0, <1>7, <2>1, <2>2, <2>3, <2>4 DEF Tokens!Reuse
<1>8. ASSUME NEW h \in handlers, Tokens!Rotate(h) PROVE RowsIssued'
  <2>1. /\ handlers' \subseteq handlers
        /\ \A a \in answers' : a \in answers \/ (a.token = h.token /\ a.verdict = issued')
    BY <1>8, RotateFacts, AnswerFacts
  <2>. QED
    BY <1>0, <1>8, <2>1, RotateFacts DEF Tokens!Family
<1>9. ASSUME NEW h \in handlers, Tokens!ServerError(h) PROVE RowsIssued'
  <2>1. /\ handlers' \subseteq handlers
        /\ \A a \in answers' : a \in answers \/ (a.token = h.token /\ a.verdict = 0)
    BY <1>9, ErrorFacts, AnswerFacts
  <2>. QED
    BY <1>0, <1>9, <2>1, ErrorFacts
<1>10. ASSUME NEW k \in Tokens!Token, Tokens!Logout(k) PROVE RowsIssued'
  <2>1. family[k] \in Tokens!Family
    BY <1>10 DEF Tokens!Logout, Tokens!TypeOK
  <2>. QED
    BY <1>0, <1>10, <2>1, FamilyEnds DEF Tokens!Logout
<1>. QED
  BY <1>1, <1>2, <1>3, <1>4, <1>5, <1>6, <1>7, <1>8, <1>9, <1>10, TokensSplit

LEMMA AloneStep ==
    ASSUME TokensInv, TokensNext PROVE Alone'
<1>. USE DEF TokensInv, Alone
<1>0. \A h \in handlers : /\ h.token \in 1 .. issued /\ h.token \in Tokens!Token
                          /\ family[h.token] \in Tokens!Family
                          /\ h.token # issued + 1
  BY FamilyOfHandler DEF Tokens!TypeOK
<1>1. CASE Still /\ UNCHANGED <<flight, handlers, answers>>
  BY <1>1 DEF Still
<1>2. ASSUME NEW t \in Tabs, Still, Tokens!Leaves(t) PROVE Alone'
  <2>1. ASSUME NEW g \in handlers', NEW h \in handlers',
               g.passed, h.passed, family[g.token] = family[h.token],
               family[h.token] \notin raced
        PROVE  g = h /\ h.token \notin revoked
    <3>. DEFINE Gone(x) == IF x.tab = t THEN [x EXCEPT !.heard = FALSE] ELSE x
    <3>1. PICK u \in handlers : g = Gone(u)
      BY <1>2 DEF Tokens!Leaves
    <3>2. PICK v \in handlers : h = Gone(v)
      BY <1>2 DEF Tokens!Leaves
    <3>3. \A x \in handlers : Gone(x).passed = x.passed /\ Gone(x).token = x.token
      BY DEF Tokens!TypeOK, Tokens!Handlers
    <3>4. u = v /\ v.token \notin revoked
      BY <2>1, <3>1, <3>2, <3>3
    <3>. QED
      BY <3>1, <3>2, <3>3, <3>4
  <2>. QED
    BY <1>2, <2>1 DEF Still
<1>3. ASSUME NEW t \in Tabs, NEW c \in Calls, Tokens!Refused(t, c) PROVE Alone'
  BY <1>3, RefusedFacts
<1>4. ASSUME NEW t \in Tabs, Tokens!Login(t) PROVE Alone'
  BY <1>0, <1>4, LoginFacts
<1>5. ASSUME NEW t \in Tabs, Tokens!Stored(t) PROVE Alone'
  BY <1>5, StoredFacts
<1>6. ASSUME NEW h \in handlers, Tokens!Check(h) PROVE Alone'
  <2>1. \A g \in handlers : g.passed /\ family[g.token] = family[h.token]
                               => family[h.token] \in raced'
    BY <1>0, <1>6, OverlapFacts DEF Tokens!Check
  <2>2. raced \subseteq raced' /\ h.token \notin revoked
    BY <1>0, <1>6, OverlapFacts DEF Tokens!Check
  <2>3. ASSUME NEW f \in handlers', NEW g \in handlers', f.passed, g.passed,
               family[f.token] = family[g.token], family[g.token] \notin raced'
        PROVE  f = g /\ g.token \notin revoked
    <3>1. \A x \in {f, g} : \/ x \in handlers \ {h}
                            \/ x.token = h.token /\ x = [h EXCEPT !.passed = TRUE]
      BY <1>6, CheckFacts
    <3>2. CASE f \in handlers \ {h} /\ g \in handlers \ {h}
      BY <2>2, <2>3, <3>2
    <3>3. CASE f \notin handlers \ {h} \/ g \notin handlers \ {h}
      <4>1. family[g.token] = family[h.token]
        BY <2>3, <3>1, <3>3
      <4>2. f \notin handlers \ {h} /\ g \notin handlers \ {h}
        BY <2>1, <2>3, <4>1
      <4>. QED
        BY <2>2, <3>1, <4>2
    <3>. QED
      BY <3>2, <3>3
  <2>. QED
    BY <1>6, <2>3 DEF Tokens!Check
<1>7. ASSUME NEW h \in handlers, Tokens!Reuse(h) PROVE Alone'
  <2>1. /\ revoked' = revoked \cup {k \in 1 .. issued : family[k] = family[h.token]}
        /\ raced \subseteq raced'
        /\ \A g \in handlers : g.passed /\ family[g.token] = family[h.token]
                                 => family[h.token] \in raced'
    BY <1>0, <1>7, FamilyEnds, OverlapFacts DEF Tokens!Reuse, Tokens!Detect
  <2>2. handlers' \subseteq handlers
    BY <1>7, AnswerFacts DEF Tokens!Reuse
  <2>. QED
    BY <1>7, <2>1, <2>2 DEF Tokens!Reuse
<1>8. ASSUME NEW h \in handlers, Tokens!Rotate(h) PROVE Alone'
  <2>1. handlers' = handlers \ {h}
    BY <1>8, RotateFacts, AnswerFacts
  <2>2. \A g \in handlers : family'[g.token] = family[g.token]
    BY <1>0, <1>8, RotateFacts
  <2>. QED
    BY <1>8, <2>1, <2>2, RotateFacts
<1>9. ASSUME NEW h \in handlers, Tokens!ServerError(h) PROVE Alone'
  <2>1. handlers' = handlers \ {h}
    BY <1>9, ErrorFacts, AnswerFacts
  <2>. QED
    BY <1>9, <2>1, ErrorFacts
<1>10. ASSUME NEW k \in Tokens!Token, Tokens!Logout(k) PROVE Alone'
  <2>1. family[k] \in Tokens!Family
    BY <1>10 DEF Tokens!Logout, RowsIssued, Tokens!TypeOK
  <2>2. /\ revoked' = revoked \cup {j \in 1 .. issued : family[j] = family[k]}
        /\ raced \subseteq raced'
        /\ \A g \in handlers : g.passed /\ family[g.token] = family[k]
                                 => family[k] \in raced'
    BY <1>10, <2>1, FamilyEnds, OverlapFacts DEF Tokens!Logout
  <2>. QED
    BY <1>10, <2>2 DEF Tokens!Logout
<1>. QED
  BY <1>1, <1>2, <1>3, <1>4, <1>5, <1>6, <1>7, <1>8, <1>9, <1>10, TokensSplit

LEMMA UsableStep ==
    ASSUME TokensInv, TokensNext PROVE OneUsable' /\ NoneUsable'
<1>. USE DEF TokensInv, OneUsable, NoneUsable
<1>0. /\ \A h \in handlers : /\ h.token \in 1 .. issued /\ h.token \in Tokens!Token
                             /\ family[h.token] \in Tokens!Family
      /\ issued \in Nat /\ \A k \in 1 .. issued : k \in Tokens!Token
  BY FamilyOfHandler, NumbersAssumption DEF Tokens!TypeOK, Tokens!Token
<1>1. CASE Still
  BY <1>1 DEF Still
<1>2. ASSUME NEW t \in Tabs, NEW c \in Calls, Tokens!Refused(t, c)
      PROVE  OneUsable' /\ NoneUsable'
  BY <1>2, RefusedFacts
<1>3. ASSUME NEW t \in Tabs, Tokens!Login(t) PROVE OneUsable' /\ NoneUsable'
  <2>1. PICK f \in Tokens!Family :
            /\ \A k \in 1 .. issued : family[k] # f
            /\ issued' = issued + 1 /\ issued' \in Tokens!Token
            /\ family'[issued'] = f
            /\ \A k \in Tokens!Token : k # issued' => family'[k] = family[k]
            /\ UNCHANGED <<revoked, burned, raced>>
    BY <1>3, LoginFacts
  <2>2. f \notin burned
    BY <2>1 DEF RowsIssued
  <2>3. \A k \in 1 .. issued' : k = issued' \/ k \in 1 .. issued
    BY <1>0, <2>1
  <2>4. \A k \in 1 .. issued : family'[k] = family[k]
    BY <1>0, <2>1
  <2>. QED
    BY <2>1, <2>2, <2>3, <2>4
<1>4. ASSUME NEW t \in Tabs, Tokens!Stored(t) PROVE OneUsable' /\ NoneUsable'
  BY <1>4, StoredFacts
<1>5. ASSUME NEW h \in handlers, Tokens!Check(h) PROVE OneUsable' /\ NoneUsable'
  BY <1>0, <1>5, OverlapFacts DEF Tokens!Check
<1>6. ASSUME NEW h \in handlers, Tokens!Reuse(h) PROVE OneUsable' /\ NoneUsable'
  <2>1. /\ revoked' = revoked \cup {k \in 1 .. issued : family[k] = family[h.token]}
        /\ raced \subseteq raced'
    BY <1>0, <1>6, FamilyEnds, OverlapFacts DEF Tokens!Reuse, Tokens!Detect
  <2>. QED
    BY <1>6, <2>1 DEF Tokens!Reuse
<1>7. ASSUME NEW h \in handlers, Tokens!Rotate(h) PROVE OneUsable' /\ NoneUsable'
  <2>1. /\ h.passed /\ revoked' = revoked \cup {h.token}
        /\ issued' = issued + 1 /\ family'[issued'] = family[h.token]
        /\ \A k \in 1 .. issued : family'[k] = family[k]
        /\ UNCHANGED <<burned, raced>>
    BY <1>0, <1>7, RotateFacts
  <2>2. \A k \in 1 .. issued' : k = issued' \/ k \in 1 .. issued
    BY <1>0, <2>1
  <2>3. family[h.token] \notin raced => h.token \notin revoked
    BY <2>1 DEF Alone
  <2>4. family[h.token] \in burned => family[h.token] \in raced
    BY <1>0, <2>3
  <2>. QED
    BY <1>0, <2>1, <2>2, <2>3, <2>4
<1>8. ASSUME NEW h \in handlers, Tokens!ServerError(h) PROVE OneUsable' /\ NoneUsable'
  BY <1>8, ErrorFacts
<1>9. ASSUME NEW k \in Tokens!Token, Tokens!Logout(k) PROVE OneUsable' /\ NoneUsable'
  <2>1. family[k] \in Tokens!Family
    BY <1>9 DEF Tokens!Logout, RowsIssued, Tokens!TypeOK
  <2>2. /\ revoked' = revoked \cup {j \in 1 .. issued : family[j] = family[k]}
        /\ raced \subseteq raced'
    BY <1>9, <2>1, FamilyEnds, OverlapFacts DEF Tokens!Logout
  <2>. QED
    BY <1>9, <2>2 DEF Tokens!Logout
<1>. QED
  BY <1>1, <1>2, <1>3, <1>4, <1>5, <1>6, <1>7, <1>8, <1>9, TokensSplit

LEMMA FlightStep ==
    ASSUME TokensInv, TokensNext PROVE OneFlight'
<1>. USE DEF TokensInv, OneFlight
<1>0. /\ \A h \in handlers : h.tab \in Tabs
      /\ \A a \in answers : a.tab \in Tabs
  BY DEF Tokens!TypeOK, Tokens!Handlers, Tokens!Answers
<1>1. CASE Still /\ UNCHANGED <<flight, handlers, answers>>
  BY <1>1 DEF Still
<1>2. ASSUME NEW t \in Tabs, Still, Tokens!Leaves(t) PROVE OneFlight'
  <2>1. /\ \A u \in Tabs : flight'[u] <=> u # t /\ flight[u]
        /\ answers' = {a \in answers : a.tab # t}
    BY <1>2, LeavesFacts
  <2>2. \A h \in handlers' : h.heard => h \in handlers /\ h.tab # t
    <3>. SUFFICES ASSUME NEW h \in handlers', h.heard PROVE h \in handlers /\ h.tab # t
      OBVIOUS
    <3>1. PICK g \in handlers : h = IF g.tab = t THEN [g EXCEPT !.heard = FALSE] ELSE g
      BY <1>2 DEF Tokens!Leaves
    <3>2. g.tab # t
      BY <3>1 DEF Tokens!TypeOK, Tokens!Handlers
    <3>. QED
      BY <3>1, <3>2
  <2>. QED
    BY <1>0, <2>1, <2>2
<1>3. ASSUME NEW t \in Tabs, NEW c \in Calls, Tokens!Refused(t, c) PROVE OneFlight'
  <2>. DEFINE new == [tab |-> t, token |-> store, passed |-> FALSE, heard |-> TRUE]
  <2>0. (\A u \in Tabs : flight'[u] <=> u = t \/ flight[u]) /\ answers' = answers
    BY <1>3, RefusedFacts
  <2>1. \/ handlers' = handlers
        \/ ~flight[t] /\ handlers' = handlers \cup {new}
    BY <1>3, RefusedFacts
  <2>2. new.tab = t
    OBVIOUS
  <2>. HIDE DEF new
  <2>3. CASE handlers' = handlers
    BY <1>0, <2>0, <2>3
  <2>4. CASE ~flight[t] /\ handlers' = handlers \cup {new}
    <3>1. /\ \A h \in handlers : h.heard => h.tab # t
          /\ \A a \in answers : a.tab # t
      BY <2>4
    <3>. QED
      BY <1>0, <2>0, <2>2, <2>4, <3>1
  <2>. QED
    BY <2>1, <2>3, <2>4
<1>4. ASSUME NEW t \in Tabs, Tokens!Login(t) PROVE OneFlight'
  BY <1>4, LoginFacts
<1>5. ASSUME NEW t \in Tabs, Tokens!Stored(t) PROVE OneFlight'
  BY <1>0, <1>5, StoredFacts
<1>6. ASSUME NEW h \in handlers, Tokens!Check(h) PROVE OneFlight'
  <2>1. UNCHANGED <<flight, answers>>
    BY <1>6 DEF Tokens!Check
  <2>2. \A g \in handlers' : \/ g \in handlers \ {h}
                             \/ /\ g.tab = h.tab /\ g.heard = h.heard
                                /\ g = [h EXCEPT !.passed = TRUE]
    BY <1>6, CheckFacts
  <2>. QED
    BY <2>1, <2>2
<1>7. ASSUME NEW h \in handlers, NEW v \in Tokens!Token \cup {0},
             Tokens!Answer(h, v), flight' = flight
      PROVE  OneFlight'
  <2>1. /\ handlers' = handlers \ {h}
        /\ \A a \in answers' : \/ a \in answers
                               \/ h.heard /\ a.tab = h.tab
                                  /\ a = [tab |-> h.tab, token |-> h.token, verdict |-> v]
    BY <1>7, AnswerFacts
  <2>. QED
    BY <1>7, <2>1
<1>8. ASSUME NEW h \in handlers,
             Tokens!Reuse(h) \/ Tokens!Rotate(h) \/ Tokens!ServerError(h)
      PROVE  OneFlight'
  BY <1>7, <1>8, RotateFacts, ErrorFacts DEF Tokens!Reuse
<1>9. ASSUME NEW k \in Tokens!Token, Tokens!Logout(k) PROVE OneFlight'
  BY <1>9 DEF Tokens!Logout
<1>. QED
  BY <1>1, <1>2, <1>3, <1>4, <1>5, <1>6, <1>8, <1>9, TokensSplit

LEMMA UnseenStep ==
    ASSUME TokensInv, TokensNext PROVE Unseen'
<1>. USE DEF TokensInv, Unseen
<1>0. /\ \A h \in handlers : h.token \in 1 .. issued
      /\ \A a \in answers : a.token \in 1 .. issued /\ a.verdict \in 0 .. issued
      /\ issued \in Nat /\ \A k \in 1 .. issued : k \in Tokens!Token
      /\ store \in 0 .. issued
  BY NumbersAssumption DEF RowsIssued, Tokens!TypeOK, Tokens!Token
<1>1. CASE Still /\ UNCHANGED <<flight, handlers, answers>> /\ store' \in {store, 0}
  BY <1>1 DEF Still
<1>2. ASSUME NEW t \in Tabs, Still, Tokens!Leaves(t), store' \in {store, 0} PROVE Unseen'
  BY <1>2, LeavesFacts DEF Still
<1>3. ASSUME NEW t \in Tabs, NEW c \in Calls, Tokens!Refused(t, c) PROVE Unseen'
  BY <1>3, RefusedFacts
<1>4. ASSUME NEW t \in Tabs, Tokens!Login(t) PROVE Unseen'
  <2>1. store' = issued + 1 /\ UNCHANGED <<handlers, answers, cause>>
    BY <1>4, LoginFacts
  <2>. QED
    BY <1>0, <2>1
<1>5. ASSUME NEW t \in Tabs, Tokens!Stored(t) PROVE Unseen'
  <2>1. PICK a \in answers :
          /\ a.verdict # 0 /\ answers' = answers \ {a} /\ store' = a.verdict
          /\ \A k \in Tokens!Token : k # a.token => cause'[k] = cause[k]
          /\ handlers' = handlers
    BY <1>5, StoredFacts
  <2>2. \A b \in answers' : b.verdict # 0 =>
           b.verdict # a.token /\ b.verdict # a.verdict /\ b.verdict \in Tokens!Token
    BY <1>0, <2>1
  <2>. QED
    BY <2>1, <2>2
<1>6. ASSUME NEW h \in handlers, Tokens!Check(h) PROVE Unseen'
  BY <1>6, CheckFacts DEF Tokens!Check
<1>7. ASSUME NEW h \in handlers, Tokens!Answer(h, 0), store' = store,
             \A k \in Tokens!Token : cause'[k].heard => cause'[k] = cause[k]
      PROVE  Unseen'
  <2>1. /\ handlers' = handlers \ {h}
        /\ \A a \in answers' : a \in answers \/ (a.token = h.token /\ a.verdict = 0)
    BY <1>7, AnswerFacts
  <2>2. \A a \in answers : a.verdict # 0 => ~cause'[a.verdict].heard
    BY <1>0, <1>7
  <2>. QED
    BY <1>7, <2>1, <2>2
<1>8. ASSUME NEW h \in handlers, Tokens!Reuse(h) \/ Tokens!ServerError(h) PROVE Unseen'
  <2>1. family[h.token] \in Tokens!Family
    BY FamilyOfHandler
  <2>. QED
    BY <1>7, <1>8, <2>1, ErrorFacts, FamilyEnds DEF Tokens!Reuse, Tokens!Detect
<1>9. ASSUME NEW h \in handlers, Tokens!Rotate(h) PROVE Unseen'
  <2>. DEFINE v == issued + 1
              new == [tab |-> h.tab, token |-> h.token, verdict |-> v]
  <2>1. /\ handlers' = handlers \ {h} /\ store' = store
        /\ \A a \in answers' : a \in answers \/ a = new
        /\ \A k \in Tokens!Token : cause'[k].heard => cause'[k] = cause[k]
        /\ v \in Tokens!Token
    BY <1>9, RotateFacts, AnswerFacts
  <2>2. ~cause'[v].heard
    BY <1>0, <2>1 DEF RowsIssued
  <2>3. \A a \in answers : a.verdict # 0 => ~cause'[a.verdict].heard
    BY <1>0, <2>1
  <2>4. new.token = h.token /\ new.verdict = v
    OBVIOUS
  <2>5. v \notin 0 .. issued
    BY <1>0
  <2>. HIDE DEF v, new
  <2>. QED
    BY <1>0, <2>1, <2>2, <2>3, <2>4, <2>5
<1>10. ASSUME NEW k \in Tokens!Token, Tokens!Logout(k) PROVE Unseen'
  <2>1. family[k] \in Tokens!Family
    BY <1>10 DEF Tokens!Logout, RowsIssued, Tokens!TypeOK
  <2>2. \A j \in Tokens!Token : cause'[j].heard => cause'[j] = cause[j]
    BY <1>10, <2>1, FamilyEnds DEF Tokens!Logout
  <2>. QED
    BY <1>0, <1>10, <2>2 DEF Tokens!Logout
<1>. QED
  BY <1>1, <1>2, <1>3, <1>4, <1>5, <1>6, <1>8, <1>9, <1>10, TokensSplit

LEMMA UnspentStep ==
    ASSUME TokensInv, TokensNext PROVE Unspent'
<1>. USE DEF TokensInv, Unspent
<1>0. /\ \A h \in handlers : h.token \in 1 .. issued /\ h.tab \in Tabs
      /\ \A a \in answers : a.token \in 1 .. issued /\ a.verdict \in 0 .. issued
      /\ issued \in Nat /\ \A k \in 1 .. issued : k \in Tokens!Token
      /\ store \in 0 .. issued
  BY NumbersAssumption
     DEF RowsIssued, Tokens!TypeOK, Tokens!Token, Tokens!Handlers
<1>1. CASE Still /\ UNCHANGED <<flight, handlers, answers>> /\ store' \in {store, 0}
  BY <1>1 DEF Still
<1>2. ASSUME NEW t \in Tabs, Still, Tokens!Leaves(t), store' \in {store, 0} PROVE Unspent'
  BY <1>2, LeavesFacts DEF Still
<1>3. ASSUME NEW t \in Tabs, NEW c \in Calls, Tokens!Refused(t, c) PROVE Unspent'
  BY <1>0, <1>3, RefusedFacts
<1>4. ASSUME NEW t \in Tabs, Tokens!Login(t) PROVE Unspent'
  <2>1. /\ store' = issued + 1 /\ issued + 1 \in Tokens!Token
        /\ UNCHANGED <<handlers, cause>>
    BY <1>4, LoginFacts
  <2>2. ~cause[issued + 1].heard
    BY <1>0, <2>1 DEF RowsIssued
  <2>. QED
    BY <2>1, <2>2
<1>5. ASSUME NEW t \in Tabs, Tokens!Stored(t) PROVE Unspent'
  <2>1. PICK a \in answers :
          /\ a.tab = t /\ a.verdict # 0 /\ store' = a.verdict
          /\ \A k \in Tokens!Token : k # a.token => cause'[k] = cause[k]
          /\ cause'[a.token].by = cause[a.token].by
          /\ cause'[a.token].heard => cause[a.token].heard \/ cause[a.token].by = t
          /\ handlers' = handlers
    BY <1>5, StoredFacts
  <2>2. a.verdict # a.token /\ ~cause[a.verdict].heard /\ a.verdict \in Tokens!Token
    BY <1>0, <2>1 DEF Unseen
  <2>3. \A h \in handlers : h.heard => h.tab # t
    BY <2>1 DEF OneFlight
  <2>4. \A h \in handlers : h.heard /\ cause'[h.token].heard => cause'[h.token].by # h.tab
    BY <1>0, <2>1, <2>3
  <2>. QED
    BY <2>1, <2>2, <2>4
<1>6. ASSUME NEW h \in handlers, Tokens!Check(h) PROVE Unspent'
  BY <1>6, CheckFacts DEF Tokens!Check
<1>7. ASSUME handlers' \subseteq handlers, store' = store,
             \A k \in Tokens!Token : cause'[k].heard => cause'[k] = cause[k]
      PROVE  Unspent'
  <2>1. store # 0 => ~cause'[store].heard
    BY <1>0, <1>7
  <2>2. \A h \in handlers : h.heard /\ cause'[h.token].heard => cause'[h.token].by # h.tab
    BY <1>0, <1>7
  <2>. QED
    BY <1>7, <2>1, <2>2
<1>8. ASSUME NEW h \in handlers,
             Tokens!Reuse(h) \/ Tokens!Rotate(h) \/ Tokens!ServerError(h)
      PROVE  Unspent'
  <2>1. family[h.token] \in Tokens!Family
    BY FamilyOfHandler
  <2>2. handlers' \subseteq handlers
    BY <1>8, AnswerFacts, RotateFacts, ErrorFacts DEF Tokens!Reuse
  <2>. QED
    BY <1>7, <1>8, <2>1, <2>2, RotateFacts, ErrorFacts, FamilyEnds
       DEF Tokens!Reuse, Tokens!Detect
<1>9. ASSUME NEW k \in Tokens!Token, Tokens!Logout(k) PROVE Unspent'
  <2>1. family[k] \in Tokens!Family
    BY <1>9 DEF Tokens!Logout, RowsIssued, Tokens!TypeOK
  <2>. QED
    BY <1>7, <1>9, <2>1, FamilyEnds DEF Tokens!Logout
<1>. QED
  BY <1>1, <1>2, <1>3, <1>4, <1>5, <1>6, <1>8, <1>9, TokensSplit

LEMMA TokensStep == TokensInv /\ TokensNext => TokensInv'
  BY TokensTypeStep, RowsStep, AloneStep, UsableStep, FlightStep, UnseenStep,
     UnspentStep DEF TokensInv

LEMMA TokensCount == \A S : Tokens!Cardinality(S) = Cardinality(S)
  BY DEF Tokens!Cardinality, Cardinality

LEMMA TokensHold ==
    ASSUME TokensInv
    PROVE  /\ Tokens!OneTokenPerFamily /\ Tokens!BurnedStaysBurned
           /\ Tokens!ReuseHasACauseStep
<1>. USE DEF TokensInv
<1>1. ASSUME NEW f \in Tokens!Family \ raced
      PROVE  Tokens!Cardinality(Tokens!Live(f)) <= 1
  <2>1. \A j, k \in Tokens!Live(f) : j = k
    BY DEF OneUsable, Tokens!Live, Tokens!Of
  <2>2. CASE Tokens!Live(f) = {}
    BY <2>2, TokensCount, FS_EmptySet
  <2>3. CASE Tokens!Live(f) # {}
    <3>1. PICK k \in Tokens!Live(f) : Tokens!Live(f) = {k}
      BY <2>1, <2>3
    <3>. QED
      BY <3>1, TokensCount, FS_Singleton
  <2>. QED
    BY <2>2, <2>3
<1>2. Tokens!BurnedStaysBurned
  BY DEF NoneUsable, Tokens!BurnedStaysBurned, Tokens!Live, Tokens!Of
<1>3. Tokens!ReuseHasACauseStep
  BY DEF Unspent, Tokens!ReuseHasACauseStep
<1>. QED
  BY <1>1, <1>2, <1>3 DEF Tokens!OneTokenPerFamily

-----------------------------------------------------------------------------
(* The dialog that creates a shipment.                                      *)

WizardNext == [Wizard!Next]_wizardVars

\* A create that carries a load follows the update that wrote it.
WizardInv ==
    /\ Wizard!TypeOK
    /\ creation.at = "create" /\ creation.load /\ rivals = 0
         => booking[creation.order].load = "wizard"

LEMMA WizardInitHolds == Wizard!Init => WizardInv
  BY NumbersAssumption
     DEF Wizard!Init, WizardInv, Wizard!TypeOK, Wizard!Order, Wizard!Load,
         Wizard!Status, Wizard!Session, Wizard!Consignee, Wizard!Untracked,
         Wizard!Blank, Wizard!Idle, Wizard!CallState

\* The form's own steps move neither the order nor the call, but for Submit,
\* which carries a load only into an update.
LEMMA FormStep ==
    ASSUME WizardInv,
           \/ \E o \in Orders \cup {Nobody} : Wizard!ChooseOrder(o)
           \/ \E c \in Customers \cup {Nobody} : Wizard!ChooseConsignee(c)
           \/ Wizard!EditLines \/ Wizard!Refetch \/ Wizard!Submit
    PROVE  WizardInv' /\ booking' = booking
<1>. USE DEF WizardInv, Wizard!TypeOK, Wizard!Consignee
<1>1. ASSUME NEW l \in [Orders -> Customers \cup {Nobody}], NEW w,
             w \in [order : Orders \cup {Nobody}, customer : Customers \cup {Nobody},
                    lines : BOOLEAN]
      PROVE  Wizard!Adopt(w, l) \in [order : Orders \cup {Nobody},
                                     customer : Customers \cup {Nobody}, lines : BOOLEAN]
  BY <1>1 DEF Wizard!Adopt, Wizard!SelectedCustomer
<1>2. ASSUME NEW o \in Orders \cup {Nobody}, Wizard!ChooseOrder(o)
      PROVE  WizardInv' /\ booking' = booking
  BY <1>1, <1>2 DEF Wizard!ChooseOrder
<1>3. ASSUME NEW c \in Customers \cup {Nobody}, Wizard!ChooseConsignee(c)
      PROVE  WizardInv' /\ booking' = booking
  BY <1>3 DEF Wizard!ChooseConsignee
<1>4. ASSUME Wizard!EditLines PROVE WizardInv' /\ booking' = booking
  BY <1>4 DEF Wizard!EditLines
<1>5. ASSUME Wizard!Refetch PROVE WizardInv' /\ booking' = booking
  <2>1. list' \in [Orders -> Customers \cup {Nobody}]
    BY <1>5 DEF Wizard!Refetch, Wizard!Untracked, Wizard!Order
  <2>. QED
    BY <1>1, <1>5, <2>1 DEF Wizard!Refetch
<1>6. ASSUME Wizard!Submit PROVE WizardInv' /\ booking' = booking
  <2>1. draft.order \in Orders
    BY <1>6 DEF Wizard!Submit
  <2>2. creation' \in Wizard!CallState
    BY <1>6, <2>1 DEF Wizard!Submit, Wizard!CallState, Wizard!Changed
  <2>3. creation'.at = "create" => ~creation'.load
    BY <1>6 DEF Wizard!Submit
  <2>. QED
    BY <1>6, <2>2, <2>3 DEF Wizard!Submit
<1>. QED
  BY <1>2, <1>3, <1>4, <1>5, <1>6

LEMMA RewriteFacts ==
    ASSUME booking \in [Orders -> Wizard!Order], NEW o \in Orders,
           NEW c \in Customers \cup {Nobody}, NEW load \in BOOLEAN
    PROVE  /\ Wizard!Rewrite(o, c, load) \in [Orders -> Wizard!Order]
           /\ \A x \in Orders : x # o => Wizard!Rewrite(o, c, load)[x] = booking[x]
           /\ Wizard!Rewrite(o, c, load)[o].session = booking[o].session
           /\ Wizard!Rewrite(o, c, load)[o].load =
                 IF load THEN "wizard" ELSE booking[o].load
  BY DEF Wizard!Rewrite, Wizard!Order, Wizard!Load, Wizard!Consignee

\* What a call under way carries.
LEMMA CallFacts ==
    ASSUME WizardInv, creation.at # "idle"
    PROVE  /\ creation.at \in {"update", "create", "event", "status"}
           /\ creation.order \in Orders /\ creation.load \in BOOLEAN
           /\ creation.customer \in Customers \cup {Nobody}
           /\ \A x \in {"create", "event", "status"} :
                 /\ [creation EXCEPT !.at = x] \in Wizard!CallState
                 /\ [creation EXCEPT !.at = x].at = x
                 /\ [creation EXCEPT !.at = x].order = creation.order
                 /\ [creation EXCEPT !.at = x].load = creation.load
  BY DEF WizardInv, Wizard!TypeOK, Wizard!CallState, Wizard!Idle, Wizard!Consignee

\* What a step of the server, or of another dispatcher, keeps.
Kept == Wizard!ManifestFirstStep /\ Wizard!LoadIsNeverErasedStep

LEMMA ServingStep ==
    ASSUME WizardInv, Wizard!Serving \/ \E o \in Orders : Wizard!Other(o)
    PROVE  WizardInv' /\ Kept
<1>. USE NumbersAssumption
     DEF WizardInv, Wizard!TypeOK, Kept, Wizard!ManifestFirstStep,
         Wizard!LoadIsNeverErasedStep
<1>0. Wizard!Idle \in Wizard!CallState /\ Wizard!Idle.at = "idle"
  BY DEF Wizard!Idle, Wizard!CallState
<1>1. ASSUME Wizard!Update PROVE WizardInv' /\ Kept
  <2>1. PICK o \in Orders, c \in Customers \cup {Nobody}, l \in BOOLEAN :
          creation.order = o /\ creation.customer = c /\ creation.load = l
    BY <1>1, CallFacts DEF Wizard!Update
  <2>2. booking' = Wizard!Rewrite(o, c, l)
    BY <1>1, <2>1 DEF Wizard!Update
  <2>3. /\ creation' \in Wizard!CallState /\ creation'.at = "create"
        /\ creation'.order = o /\ creation'.load = l
    BY <1>1, <2>1, CallFacts DEF Wizard!Update
  <2>4. \A x \in Orders : /\ booking[x].load # "none" => booking'[x].load # "none"
                         /\ booking'[x].session = booking[x].session
    BY <2>2, RewriteFacts
  <2>5. booking' \in [Orders -> Wizard!Order] /\ (l => booking'[o].load = "wizard")
    BY <2>2, RewriteFacts
  <2>6. UNCHANGED <<list, draft, chosen, setbacks, rivals>>
    BY <1>1 DEF Wizard!Update
  <2>. QED
    BY <2>3, <2>4, <2>5, <2>6
<1>2. ASSUME Wizard!Insert PROVE WizardInv' /\ Kept
  <2>1. /\ booking' \in [Orders -> Wizard!Order]
        /\ \A o \in Orders : booking'[o].load = booking[o].load
        /\ \A o \in Orders : o # creation.order => booking'[o].session = booking[o].session
    BY <1>2, CallFacts DEF Wizard!Insert, Wizard!Order, Wizard!Session
  <2>. QED
    BY <1>2, <2>1, CallFacts DEF Wizard!Insert
<1>3. ASSUME Wizard!Conflict \/ Wizard!LogCreated PROVE WizardInv' /\ Kept
  BY <1>0, <1>3, CallFacts DEF Wizard!Conflict, Wizard!LogCreated
<1>4. ASSUME Wizard!Dispatch PROVE WizardInv' /\ Kept
  <2>1. /\ booking' \in [Orders -> Wizard!Order]
        /\ \A o \in Orders : /\ booking'[o].load = booking[o].load
                             /\ booking'[o].session = booking[o].session
    BY <1>4, CallFacts DEF Wizard!Dispatch, Wizard!Order, Wizard!Status
  <2>2. list' \in [Orders -> Wizard!Consignee]
    BY <1>4, <2>1 DEF Wizard!Dispatch, Wizard!Untracked, Wizard!Order, Wizard!Consignee
  <2>. QED
    BY <1>0, <1>4, <2>1, <2>2 DEF Wizard!Dispatch, Wizard!Blank, Wizard!Consignee
<1>5. ASSUME Wizard!Fails PROVE WizardInv' /\ Kept
  <2>1. CASE booking' = booking
    BY <1>0, <1>5, <2>1 DEF Wizard!Fails
  <2>2. CASE creation.at = "update"
              /\ booking' = Wizard!Rewrite(creation.order, creation.customer, creation.load)
    <3>1. PICK o \in Orders, c \in Customers \cup {Nobody}, l \in BOOLEAN :
            booking' = Wizard!Rewrite(o, c, l)
      BY <2>2, CallFacts
    <3>2. \A x \in Orders : /\ booking[x].load # "none" => booking'[x].load # "none"
                           /\ booking'[x].session = booking[x].session
      BY <3>1, RewriteFacts
    <3>3. booking' \in [Orders -> Wizard!Order]
      BY <3>1, RewriteFacts
    <3>. QED
      BY <1>0, <1>5, <3>2, <3>3 DEF Wizard!Fails
  <2>. QED
    BY <1>5, <2>1, <2>2 DEF Wizard!Fails
<1>6. ASSUME NEW o \in Orders, Wizard!Other(o) PROVE WizardInv' /\ Kept
  <2>1. /\ booking' \in [Orders -> Wizard!Order]
        /\ \A x \in Orders : booking[x].load # "none" => booking'[x].load # "none"
        /\ \A x \in Orders : booking'[x].session = "mine" => booking[x].session = "mine"
    <3>. DEFINE Good ==
           /\ booking' \in [Orders -> Wizard!Order]
           /\ \A x \in Orders : booking[x].load # "none" => booking'[x].load # "none"
           /\ \A x \in Orders : booking'[x].session = "mine" => booking[x].session = "mine"
    <3>0. /\ booking[o].customer \in Customers
          /\ booking[o].load \in {"none", "desk", "wizard"}
          /\ booking[o].status \in {"PENDING", "DISPATCHED"}
          /\ booking[o].session \in {"none", "mine", "other"}
      BY DEF Wizard!Order, Wizard!Load, Wizard!Session, Wizard!Status
    <3>2. ASSUME NEW c \in Customers, NEW l \in {booking[o].load, "desk"},
                 booking' = [booking EXCEPT ![o].customer = c, ![o].load = l]
          PROVE  Good
      <4>1. \A x \in Orders : /\ booking'[x].session = booking[x].session
                             /\ booking'[x].load = IF x = o THEN l ELSE booking[x].load
        BY <3>2 DEF Wizard!Order
      <4>0. l \in Wizard!Load
        BY <3>0 DEF Wizard!Load
      <4>2. booking' \in [Orders -> Wizard!Order]
        BY <4>0, <3>2 DEF Wizard!Order
      <4>. QED
        BY <4>1, <4>2
    <3>3. ASSUME booking' = [booking EXCEPT ![o].session = "other", ![o].status = "DISPATCHED"]
          PROVE  Good
      <4>1. \A x \in Orders : /\ booking'[x].load = booking[x].load
                             /\ booking'[x].session = IF x = o THEN "other"
                                                      ELSE booking[x].session
        BY <3>3 DEF Wizard!Order
      <4>2. booking' \in [Orders -> Wizard!Order]
        BY <3>0, <3>3 DEF Wizard!Order, Wizard!Session, Wizard!Status
      <4>. QED
        BY <4>1, <4>2
    <3>4. ASSUME booking' = [booking EXCEPT ![o].session = "none"] PROVE Good
      <4>1. \A x \in Orders : /\ booking'[x].load = booking[x].load
                             /\ booking'[x].session = IF x = o THEN "none"
                                                      ELSE booking[x].session
        BY <3>4 DEF Wizard!Order
      <4>2. booking' \in [Orders -> Wizard!Order]
        BY <3>0, <3>4 DEF Wizard!Order, Wizard!Session
      <4>. QED
        BY <4>1, <4>2
    <3>. QED
      BY <1>6, <3>2, <3>3, <3>4 DEF Wizard!Other
  <2>2. rivals' \in 1 .. MaxUpsets
    BY <1>6 DEF Wizard!Other
  <2>. QED
    BY <1>6, <2>1, <2>2 DEF Wizard!Other
<1>. QED
  BY <1>1, <1>2, <1>3, <1>4, <1>5, <1>6 DEF Wizard!Serving

LEMMA WizardStep == WizardInv /\ WizardNext => WizardInv' /\ Kept
<1>. SUFFICES ASSUME WizardInv, WizardNext PROVE WizardInv' /\ Kept
  OBVIOUS
<1>1. CASE Wizard!Serving \/ \E o \in Orders : Wizard!Other(o)
  BY <1>1, ServingStep
<1>2. CASE booking' = booking /\ WizardInv'
  BY <1>2 DEF Kept, Wizard!ManifestFirstStep, Wizard!LoadIsNeverErasedStep
<1>3. CASE UNCHANGED wizardVars
  BY <1>3 DEF wizardVars, WizardInv, Wizard!TypeOK, Kept, Wizard!ManifestFirstStep,
              Wizard!LoadIsNeverErasedStep
<1>. QED
  BY <1>1, <1>2, <1>3, FormStep DEF WizardNext, Wizard!Next, Wizard!Consignee

-----------------------------------------------------------------------------
(* The links of a shipment.                                                 *)

ShareNext == [Share!Next]_shareVars

\* What a panel holds agrees with the links l: it lists links that were minted,
\* revokes one of those, and no answer that waits to land lists a link the panel
\* was told is revoked.
Agrees(e, l) ==
    /\ \A k \in e.rows \cup e.answer : l[k].made
    /\ e.revoke # "none" => e.which \in Links /\ l[e.which].made
    /\ e.revoke = "done" => l[e.which].revoked # 0
    /\ \A k \in e.told : l[k].revoked # 0
    /\ e.fetch = "done" => e.answer \cap e.told = {}

ShareInv ==
    /\ Share!TypeOK
    /\ \A k \in Links : link[k].revoked # 0 => link[k].made
    /\ \A t \in Tabs : Agrees(tab[t], link)

LEMMA ShareInitHolds == Share!Init => ShareInv
  BY NumbersAssumption
     DEF Share!Init, ShareInv, Share!TypeOK, Share!Link, Share!NoLink, Share!Panel,
         Share!Fresh, Share!Stage, Share!Tokens, Share!Listing, Agrees

\* A minted link stays minted, and a revoked one keeps the time it was revoked.
Grows ==
    /\ now' \in 1 .. MaxTime /\ listings' \in 0 .. MaxListings
    /\ link' \in [Links -> Share!Link]
    /\ \A k \in Links : /\ link'[k].made => link'[k].expires > 1
                        /\ link[k].made => link'[k].made
                        /\ link[k].revoked # 0 => link'[k].revoked = link[k].revoked
                        /\ link'[k].revoked # 0 => link'[k].made

LEMMA MintLink ==
    ASSUME ShareInv, NEW t \in Tabs, Share!MintCommits(t) PROVE Grows
<1>. USE DEF ShareInv, Share!TypeOK
<1>1. PICK k \in Links, wish \in [route : BOOLEAN, driver : BOOLEAN, life : {1, 2}] :
        /\ ~link[k].made
        /\ link' = [link EXCEPT ![k] = [Share!NoLink EXCEPT !.made = TRUE,
                       !.route = wish.route, !.driver = wish.driver, !.expires = now + wish.life]]
  BY DEF Share!MintCommits
<1>2. PICK x \in 0 .. MaxTime + 2 : x = now + wish.life /\ x > 1
  BY NumbersAssumption
<1>. DEFINE row == [Share!NoLink EXCEPT !.made = TRUE, !.route = wish.route,
                         !.driver = wish.driver, !.expires = x]
<1>3. row \in Share!Link /\ row.made /\ row.expires = x /\ row.revoked = 0
  <2>1. wish.route \in BOOLEAN /\ wish.driver \in BOOLEAN /\ 0 \in 0 .. MaxTime
    BY NumbersAssumption
  <2>. QED
    BY <1>2, <2>1 DEF Share!NoLink, Share!Link
<1>4. link' = [link EXCEPT ![k] = row]
  BY <1>1, <1>2
<1>5. link[k].revoked = 0
  BY <1>1
<1>. HIDE DEF row
<1>6. link' \in [Links -> Share!Link]
  BY <1>3, <1>4
<1>. QED
  BY <1>2, <1>3, <1>4, <1>5, <1>6 DEF Grows, Share!MintCommits

LEMMA RevokeLink ==
    ASSUME ShareInv, NEW t \in Tabs, Share!RevokeCommits(t)
    PROVE  Grows /\ link'[tab[t].which].revoked # 0
<1>. USE DEF ShareInv, Share!TypeOK
<1>1. PICK k \in Links : k = tab[t].which /\ link[k].made
  BY DEF Agrees, Share!RevokeCommits
<1>2. link' = [link EXCEPT ![k].revoked = IF @ = 0 THEN now ELSE @]
  BY <1>1 DEF Share!RevokeCommits, Share!Revoked
<1>3. link' \in [Links -> Share!Link] /\ link'[k].revoked # 0
  BY <1>2, NumbersAssumption DEF Share!Link
<1>4. \A x \in Links :
        /\ link'[x].made = link[x].made /\ link'[x].expires = link[x].expires
        /\ link[x].revoked # 0 => link'[x].revoked = link[x].revoked
        /\ x # k => link'[x].revoked = link[x].revoked
  BY <1>2 DEF Share!Link
<1>. QED
  BY <1>1, <1>3, <1>4 DEF Grows, Share!RevokeCommits

LEMMA LinkStep == ShareInv /\ ShareNext => Grows
<1>. SUFFICES ASSUME ShareInv, ShareNext PROVE Grows
  OBVIOUS
<1>. USE DEF ShareInv, Share!TypeOK
<1>1. ASSUME link' = link, now' \in 1 .. MaxTime, listings' \in 0 .. MaxListings
      PROVE  Grows
  BY <1>1 DEF Grows
<1>2. CASE Share!DayPasses
  BY <1>1, <1>2, NumbersAssumption DEF Share!DayPasses
<1>3. CASE UNCHANGED shareVars
  BY <1>1, <1>3 DEF shareVars
<1>4. ASSUME NEW t \in Tabs, Share!AskList(t) PROVE Grows
  BY <1>1, <1>4, NumbersAssumption DEF Share!AskList
<1>5. ASSUME NEW t \in Tabs,
             \/ Share!ListReads(t) \/ Share!AskMint(t) \/ Share!AskRevoke(t)
             \/ Share!ListLands(t) \/ Share!ListFails(t) \/ Share!Minted(t)
             \/ Share!WasRevoked(t) \/ Share!PressFails(t)
      PROVE  Grows
  BY <1>1, <1>5
     DEF Share!ListReads, Share!AskMint, Share!AskRevoke, Share!ListLands, Share!ListFails,
         Share!Minted, Share!WasRevoked, Share!PressFails
<1>. QED
  BY <1>2, <1>3, <1>4, <1>5, MintLink, RevokeLink DEF ShareNext, Share!Next, shareVars, Share!vars

\* What a panel holds goes on agreeing with links that grow.
LEMMA StillAgrees ==
    ASSUME ShareInv, Grows, NEW e \in Share!Panel, Agrees(e, link)
    PROVE  Agrees(e, link')
  BY DEF Agrees, Grows, Share!Panel, Share!Listing

\* A panel that is written into.
Written(t, e) ==
    /\ tab' = [tab EXCEPT ![t] = e] /\ e \in Share!Panel /\ Agrees(e, link')
    /\ tab[t].fetch = "done" /\ e.fetch = "none" => e.rows \cap tab[t].told = {}

LEMMA PanelStep ==
    ASSUME ShareInv, Grows, NEW t \in Tabs,
           \/ Share!MintCommits(t) \/ Share!RevokeCommits(t) \/ Share!ListReads(t)
           \/ Share!AskMint(t) \/ Share!AskRevoke(t) \/ Share!AskList(t)
           \/ Share!ListLands(t) \/ Share!ListFails(t)
           \/ Share!Minted(t) \/ Share!WasRevoked(t) \/ Share!PressFails(t)
    PROVE  \E e : Written(t, e)
<1>1. PICK p \in Share!Panel : p = tab[t] /\ Agrees(p, link')
  BY StillAgrees DEF ShareInv, Share!TypeOK
<1>2. /\ p.rows \subseteq Links /\ p.answer \subseteq Links /\ p.told \subseteq Links
      /\ p.fetch \in Share!Stage /\ p.mint \in Share!Stage /\ p.revoke \in Share!Stage
      /\ p.which \in Share!Tokens
  BY DEF Share!Panel, Share!Listing
<1>. USE <1>1, <1>2 DEF Written, Share!Panel, Share!Listing, Share!Stage, Agrees
<1>3. ASSUME NEW f \in {"mint", "fetch"}, NEW x \in Share!Stage, Share!Set(t, f, x),
             f = "fetch" => x # "done" /\ tab[t].fetch # "done"
      PROVE  \E e : Written(t, e)
  <2>1. CASE f = "mint"
    <3>. DEFINE e == [p EXCEPT !.mint = x]
    <3>1. tab' = [tab EXCEPT ![t] = e]
      BY <1>3, <2>1 DEF Share!Set
    <3>2. Written(t, e)
      BY <3>1
    <3>. QED
      BY <3>2
  <2>2. CASE f = "fetch"
    <3>. DEFINE e == [p EXCEPT !.fetch = x]
    <3>1. tab' = [tab EXCEPT ![t] = e]
      BY <1>3, <2>2 DEF Share!Set
    <3>2. Written(t, e)
      BY <1>3, <2>2, <3>1
    <3>. QED
      BY <3>2
  <2>. QED
    BY <2>1, <2>2
<1>4. ASSUME \/ Share!MintCommits(t) \/ Share!AskMint(t) \/ Share!AskList(t)
             \/ Share!ListFails(t)
      PROVE  \E e : Written(t, e)
  BY <1>3, <1>4 DEF Share!MintCommits, Share!AskMint, Share!AskList, Share!ListFails
<1>5. ASSUME Share!RevokeCommits(t) PROVE \E e : Written(t, e)
  <2>. DEFINE e == [p EXCEPT !.revoke = "done"]
  <2>1. tab' = [tab EXCEPT ![t] = e] /\ p.revoke = "asked"
    BY <1>5 DEF Share!RevokeCommits, Share!Set
  <2>2. Written(t, e)
    BY <1>5, <2>1, RevokeLink
  <2>. QED
    BY <2>2
<1>6. ASSUME Share!ListReads(t) PROVE \E e : Written(t, e)
  <2>. DEFINE e == [p EXCEPT !.fetch = "done", !.answer = Share!List]
  <2>1. tab' = [tab EXCEPT ![t] = e] /\ p.fetch = "asked" /\ link' = link
    BY <1>6 DEF Share!ListReads
  <2>2. /\ Share!List \subseteq Links /\ Share!List \cap p.told = {}
        /\ \A k \in Share!List : link[k].made
    BY <2>1 DEF Share!List, Share!Active
  <2>3. Written(t, e)
    BY <2>1, <2>2
  <2>. QED
    BY <2>3
<1>7. ASSUME Share!AskRevoke(t) PROVE \E e : Written(t, e)
  <2>1. PICK k \in p.rows :
          tab' = [tab EXCEPT ![t] = [p EXCEPT !.revoke = "asked", !.which = k]]
    BY <1>7 DEF Share!AskRevoke
  <2>2. Written(t, [p EXCEPT !.revoke = "asked", !.which = k])
    BY <2>1 DEF Share!Tokens
  <2>. QED
    BY <2>2
<1>8. ASSUME Share!ListLands(t) PROVE \E e : Written(t, e)
  <2>. DEFINE e == [p EXCEPT !.rows = p.answer, !.fetch = "none", !.answer = {}]
  <2>1. tab' = [tab EXCEPT ![t] = e] /\ p.fetch = "done"
    BY <1>8 DEF Share!ListLands
  <2>2. Written(t, e)
    BY <2>1
  <2>. QED
    BY <2>2
<1>9. ASSUME Share!Minted(t) PROVE \E e : Written(t, e)
  <2>. DEFINE e == [p EXCEPT !.mint = "none", !.fetch = "asked", !.answer = {}]
  <2>1. tab' = [tab EXCEPT ![t] = e]
    BY <1>9 DEF Share!Minted, Share!Invalidated
  <2>2. Written(t, e)
    BY <2>1
  <2>. QED
    BY <2>2
<1>10. ASSUME Share!WasRevoked(t) PROVE \E e : Written(t, e)
  <2>. DEFINE e == [p EXCEPT !.revoke = "none", !.which = Guess, !.told = p.told \cup {p.which},
                            !.fetch = "asked", !.answer = {}]
  <2>1. p.revoke = "done"
    BY <1>10 DEF Share!WasRevoked
  <2>. DEFINE d == [p EXCEPT !.revoke = "none", !.which = Guess, !.told = p.told \cup {p.which}]
  <2>a. tab' = [tab EXCEPT ![t] = Share!Invalidated(d)]
    <3>1. tab' = [tab EXCEPT ![t] = Share!Invalidated(
                   [tab[t] EXCEPT !.revoke = "none", !.which = Guess,
                                  !.told = tab[t].told \cup {tab[t].which}])]
      BY <1>10 DEF Share!WasRevoked
    <3>. QED
      BY <1>1, <3>1
  <2>b. Share!Invalidated(d) = e
    BY DEF Share!Invalidated
  <2>2. tab' = [tab EXCEPT ![t] = e]
    BY <2>a, <2>b
  <2>3. Written(t, e)
    BY <2>1, <2>2 DEF Share!Tokens
  <2>. QED
    BY <2>3
<1>11. ASSUME Share!PressFails(t) PROVE \E e : Written(t, e)
  <2>1. CASE Share!Set(t, "mint", "none")
    BY <1>3, <2>1
  <2>2. CASE tab' = [tab EXCEPT ![t] = [p EXCEPT !.revoke = "none", !.which = Guess]]
    <3>1. Written(t, [p EXCEPT !.revoke = "none", !.which = Guess])
      BY <2>2 DEF Share!Tokens
    <3>. QED
      BY <3>1
  <2>. QED
    BY <1>11, <2>1, <2>2 DEF Share!PressFails
<1>. QED
  BY <1>4, <1>5, <1>6, <1>7, <1>8, <1>9, <1>10, <1>11

LEMMA ShareStep ==
    ShareInv /\ ShareNext
      => ShareInv' /\ Share!FirstRevocationKeptStep /\ Share!NothingComesBackStep
<1>. SUFFICES ASSUME ShareInv, ShareNext
     PROVE  ShareInv' /\ Share!FirstRevocationKeptStep /\ Share!NothingComesBackStep
  OBVIOUS
<1>1. Grows
  BY LinkStep
<1>2. ASSUME tab' \in [Tabs -> Share!Panel], \A t \in Tabs : Agrees(tab'[t], link')
      PROVE  ShareInv' /\ Share!FirstRevocationKeptStep
  BY <1>1, <1>2 DEF ShareInv, Share!TypeOK, Grows, Share!FirstRevocationKeptStep
<1>3. \A t \in Tabs : Agrees(tab[t], link')
  BY <1>1, StillAgrees DEF ShareInv, Share!TypeOK
<1>4. CASE tab' = tab
  BY <1>2, <1>3, <1>4 DEF ShareInv, Share!TypeOK, Share!NothingComesBackStep
<1>5. ASSUME NEW t \in Tabs, NEW e, Written(t, e)
      PROVE  ShareInv' /\ Share!FirstRevocationKeptStep /\ Share!NothingComesBackStep
  <2>1. tab' = [tab EXCEPT ![t] = e] /\ e \in Share!Panel /\ Agrees(e, link')
    BY <1>5 DEF Written
  <2>2. tab' \in [Tabs -> Share!Panel] /\ \A u \in Tabs : tab'[u] = IF u = t THEN e ELSE tab[u]
    BY <2>1 DEF ShareInv, Share!TypeOK
  <2>3. \A u \in Tabs : Agrees(tab'[u], link')
    BY <1>3, <2>1, <2>2
  <2>4. Share!NothingComesBackStep
    BY <1>5, <2>2 DEF Written, Share!NothingComesBackStep
  <2>. QED
    BY <1>2, <2>2, <2>3, <2>4
<1>6. CASE Share!DayPasses \/ UNCHANGED shareVars
  BY <1>4, <1>6 DEF Share!DayPasses, shareVars
<1>. QED
  BY <1>1, <1>5, <1>6, PanelStep DEF ShareNext, Share!Next, shareVars

LEMMA ShareHolds == Share!RevokedSaysNothing
<1>. SUFFICES ASSUME NEW k \in Links, NEW reader \in Share!Readers,
                     NEW country \in {"IQ", "TR"}, link[k].made, link[k].revoked # 0
     PROVE  [Share!Page(k, reader, country) EXCEPT !.token = Guess]
              = Share!Page(Guess, reader, country)
  BY DEF Share!RevokedSaysNothing
<1>1. Share!Resolve(k) = "unknown" /\ Share!Resolve(Guess) = "unknown"
  BY DEF Share!Resolve
<1>2. /\ Share!Page(k, reader, country) = Share!Notice(k, 404, reader)
      /\ Share!Page(Guess, reader, country) = Share!Notice(Guess, 404, reader)
  BY <1>1 DEF Share!Page
<1>. QED
  BY <1>2 DEF Share!Notice

-----------------------------------------------------------------------------
(* The record of a shipment in one tab.                                     *)

PageNext == [Page!Next]_pageVars

Stages == {"idle", "asked", "committed", "refused", "answered"}
Results == 0 .. MaxCodes + MaxMessages
MutationCalls ==
    [Page!Mutations -> [stage : Stages, what : Page!Actions \cup Texts \cup {Empty},
                        result : Results]]
Row == [status : Page!Status, code : 0 .. MaxCodes, codes : 0 .. MaxCodes, thread : Seq(0 .. 2)]

\* A request about the shipment is one of the four, and a message that was
\* committed is in the thread.
PageTypes ==
    /\ Page!TypeOK
    /\ calls["action"].stage # "idle" => calls["action"].what \in Page!Actions
    /\ calls["send"].stage \in {"committed", "answered"}
          => calls["send"].result \in DOMAIN server.thread

Told == \E i \in DOMAIN wire : wire[i] = "message"
Whole(d) == DOMAIN d = DOMAIN server.thread

\* A thread that is not whole is marked, being read, or about to be: a frame or
\* the answer to a message says so.
ThreadCatchesUp ==
    \/ thread.behind \/ Told \/ calls["send"].stage = "committed"
    \/ thread.stage = "asked"
    \/ thread.stage = "answered" /\ Whole(thread.answer)
    \/ thread.stage = "idle" /\ Whole(thread.data)

NotRevoked(detail) == detail.code = 0 \/ detail.code >= shown.mine

\* No code the tab may show is older than the one its dispatcher asked for.
CodesAreNew ==
    /\ shown.mine <= server.codes /\ calls["regenerate"].result <= server.codes
    /\ session.stage = "answered" => NotRevoked(session.answer)
    /\ session.stage = "idle" /\ ~session.behind => NotRevoked(session.data)

PageInv == PageTypes /\ Page!DialogIsOfTheRequest /\ ThreadCatchesUp /\ CodesAreNew

-----------------------------------------------------------------------------
\* What the operators of a query, a frame, a call and the row do.

LEMMA QueryFacts ==
    ASSUME NEW D, NEW q \in Page!Query(D)
    PROVE  /\ q.behind \in BOOLEAN /\ q.data \in D
           /\ q.stage \in {"idle", "asked", "answered"}
           /\ q.stage = "answered" => q.answer \in D
  BY DEF Page!Query

LEMMA AskedFacts ==
    ASSUME NEW D, NEW q \in Page!Query(D)
    PROVE  /\ Page!Invalidated(q) \in Page!Query(D) /\ Page!Invalidated(q).stage = "asked"
           /\ Page!Failed(q) \in Page!Query(D) /\ Page!Failed(q).stage = "idle"
           /\ Page!Failed(q).behind
  BY DEF Page!Query, Page!Invalidated, Page!Failed

LEMMA AnsweredFacts ==
    ASSUME NEW D, NEW q \in Page!Query(D), NEW v \in D
    PROVE  /\ Page!Answered(q, v) \in Page!Query(D)
           /\ Page!Answered(q, v).stage = "answered" /\ Page!Answered(q, v).answer = v
  BY DEF Page!Query, Page!Answered

LEMMA LandedFacts ==
    ASSUME NEW D, NEW q \in Page!Query(D), q.stage = "answered"
    PROVE  /\ Page!Landed(q) \in Page!Query(D) /\ Page!Landed(q).stage = "idle"
           /\ Page!Landed(q).data = q.answer /\ Page!Landed(q).behind = q.behind
  BY DEF Page!Query, Page!Landed

LEMMA MarkedFacts ==
    ASSUME NEW D, NEW q \in Page!Query(D), NEW b \in BOOLEAN
    PROVE  /\ [q EXCEPT !.behind = b] \in Page!Query(D)
           /\ [q EXCEPT !.behind = b].behind = b
           /\ [q EXCEPT !.behind = b].stage = q.stage
           /\ [q EXCEPT !.behind = b].data = q.data
           /\ [q EXCEPT !.behind = b].answer = q.answer
  BY DEF Page!Query

LEMMA FilledFacts ==
    ASSUME NEW D, NEW q \in Page!Query(D), NEW d \in D
    PROVE  /\ [q EXCEPT !.data = d] \in Page!Query(D)
           /\ [q EXCEPT !.data = d].behind = q.behind
           /\ [q EXCEPT !.data = d].stage = q.stage
           /\ [q EXCEPT !.data = d].data = d
           /\ [q EXCEPT !.data = d].answer = q.answer
  BY DEF Page!Query

\* A query that is at most marked.
Marked(q, r) ==
    /\ r.stage = q.stage /\ r.data = q.data /\ r.answer = q.answer
    /\ q.behind => r.behind

LEMMA BehindFacts ==
    ASSUME PageTypes, NEW F, Page!Behind(F)
    PROVE  /\ session' \in Page!Query(Page!Details) /\ Marked(session, session')
           /\ thread' \in Page!Query(Page!Threads) /\ Marked(thread, thread')
           /\ "message" \in F => thread'.behind
<1>1. /\ session \in Page!Query(Page!Details) /\ session.behind \in BOOLEAN
      /\ thread \in Page!Query(Page!Threads) /\ thread.behind \in BOOLEAN
  BY QueryFacts DEF PageTypes, Page!TypeOK
<1>2. PICK a \in BOOLEAN : a <=> session.behind \/ F \cap Page!Status # {}
  OBVIOUS
<1>3. PICK b \in BOOLEAN : b <=> thread.behind \/ "message" \in F
  OBVIOUS
<1>4. session' = [session EXCEPT !.behind = a] /\ thread' = [thread EXCEPT !.behind = b]
  BY <1>2, <1>3 DEF Page!Behind
<1>. QED
  BY <1>1, <1>2, <1>3, <1>4, MarkedFacts DEF Marked

LEMMA PublishFacts ==
    ASSUME PageTypes, NEW f \in Page!Frames, Page!Publish(f)
    PROVE  /\ session' \in Page!Query(Page!Details) /\ Marked(session, session')
           /\ thread' \in Page!Query(Page!Threads) /\ Marked(thread, thread')
           /\ wire' \in Seq(Page!Frames)
           /\ Told => Told'
           /\ f = "message" => Told' \/ thread'.behind
<1>. USE DEF PageTypes, Page!TypeOK
<1>1. CASE shown.connected
  <2>1. wire' = Append(wire, f) /\ session' = session /\ thread' = thread
    BY <1>1 DEF Page!Publish
  <2>2. /\ wire' \in Seq(Page!Frames) /\ Len(wire) + 1 \in DOMAIN wire'
        /\ wire'[Len(wire) + 1] = f
        /\ \A i \in DOMAIN wire : i \in DOMAIN wire' /\ wire'[i] = wire[i]
    BY <2>1
  <2>. QED
    BY <2>1, <2>2 DEF Told, Marked
<1>2. CASE ~shown.connected
  <2>1. Page!Behind({f}) /\ wire' = wire
    BY <1>2 DEF Page!Publish
  <2>. QED
    BY <2>1, BehindFacts DEF Told
<1>. QED
  BY <1>1, <1>2

\* A call that moves on, one that is over and one that is made.
LEMMA SetFacts ==
    ASSUME calls \in MutationCalls, NEW m \in Page!Mutations, NEW s \in Stages,
           NEW r \in Results, Page!Set(m, s, r)
    PROVE  /\ calls' \in MutationCalls
           /\ calls'[m].stage = s /\ calls'[m].result = r /\ calls'[m].what = calls[m].what
           /\ \A n \in Page!Mutations : n # m => calls'[n] = calls[n]
  BY DEF Page!Set, MutationCalls

LEMMA DoneFacts ==
    ASSUME calls \in MutationCalls, NEW m \in Page!Mutations, Page!Done(m)
    PROVE  /\ calls' \in MutationCalls
           /\ calls'[m].stage = "idle" /\ calls'[m].result = 0
           /\ \A n \in Page!Mutations : n # m => calls'[n] = calls[n]
  BY NumbersAssumption DEF Page!Done, Page!Quiet, MutationCalls, Stages, Results

LEMMA AsksFacts ==
    ASSUME calls \in MutationCalls, NEW m \in Page!Mutations,
           NEW w \in Page!Actions \cup Texts \cup {Empty}, Page!Asks(m, w),
           presses \in 0 .. MaxPresses
    PROVE  /\ calls' \in MutationCalls /\ calls[m].stage = "idle"
           /\ calls'[m].stage = "asked" /\ calls'[m].result = 0 /\ calls'[m].what = w
           /\ \A n \in Page!Mutations : n # m => calls'[n] = calls[n]
           /\ presses' \in 0 .. MaxPresses
           /\ UNCHANGED <<server, wire, session, thread, others, hitches>>
<1>. DEFINE Blank == [stage : {"idle"}, what : {Empty}, result : {0}]
            Made == [stage : Stages, what : Page!Actions \cup Texts \cup {Empty}, result : Results]
<1>0. Page!Quiet \in Blank
  BY DEF Page!Quiet
<1>1. PICK q \in Blank : q = Page!Quiet
  BY <1>0
<1>. DEFINE made == [q EXCEPT !.stage = "asked", !.what = w]
<1>2. made \in Made /\ made.stage = "asked" /\ made.what = w /\ made.result = 0
  <2>1. 0 \in Results /\ "asked" \in Stages
    BY NumbersAssumption DEF Results, Stages
  <2>. QED
    BY <1>1, <2>1
<1>3. calls' = [calls EXCEPT ![m] = made]
  BY <1>1 DEF Page!Asks
<1>. HIDE DEF made
<1>4. /\ calls' \in MutationCalls /\ calls'[m] = made
      /\ \A n \in Page!Mutations : n # m => calls'[n] = calls[n]
  BY <1>2, <1>3 DEF MutationCalls
<1>5. calls[m].stage = "idle"
  BY DEF Page!Asks, Page!Pending
<1>6. /\ presses' \in 0 .. MaxPresses
      /\ UNCHANGED <<server, wire, session, thread, others, hitches>>
  BY NumbersAssumption DEF Page!Asks, Page!Mine
<1>. QED
  BY <1>2, <1>4, <1>5, <1>6

\* What the server, a colleague or the phone does to the row.
RowGrows ==
    /\ server' \in Row /\ server'.code \in {0, server'.codes}
    /\ Len(server'.thread) <= MaxMessages
    /\ DOMAIN server.thread \subseteq DOMAIN server'.thread
    /\ server.codes <= server'.codes
SameThread == RowGrows /\ DOMAIN server'.thread = DOMAIN server.thread

LEMMA RowFacts ==
    ASSUME PageTypes
    PROVE  /\ server \in Row /\ server.code \in {0, server.codes}
           /\ server.codes \in 0 .. MaxCodes /\ server.status \in Page!Status
           /\ server.thread \in Seq(0 .. 2) /\ Len(server.thread) <= MaxMessages
           /\ MaxCodes \in Nat /\ MaxMessages \in Nat
  BY NumbersAssumption DEF PageTypes, Page!TypeOK, Row

LEMMA RowSame == PageTypes /\ server' = server => SameThread
  BY RowFacts DEF RowGrows, SameThread

\* A step that changes a status and may take the code away.
LEMMA StatusFacts ==
    ASSUME PageTypes, NEW s \in Page!Status,
           \/ server' = [server EXCEPT !.status = s]
           \/ server' = [server EXCEPT !.status = s, !.code = 0]
    PROVE  SameThread /\ server'.status = s
<1>1. /\ server' \in Row /\ server'.code \in {0, server.code} /\ server'.codes = server.codes
      /\ server'.thread = server.thread /\ server'.status = s
  <2>1. PICK r \in Row : r = server
    BY RowFacts
  <2>2. 0 \in 0 .. MaxCodes
    BY RowFacts
  <2>3. CASE server' = [server EXCEPT !.status = s]
    BY <2>1, <2>3 DEF Row
  <2>4. CASE server' = [server EXCEPT !.status = s, !.code = 0]
    BY <2>1, <2>2, <2>4 DEF Row
  <2>. QED
    BY <2>3, <2>4
<1>. QED
  BY <1>1, RowFacts DEF SameThread, RowGrows

LEMMA ChangesFacts ==
    ASSUME PageTypes, NEW a \in Page!Actions, Page!Changes(a)
    PROVE  SameThread /\ server'.status \in Page!Status
<1>1. {"PAUSED", "ACTIVE", "COMPLETED", "CANCELLED"} \subseteq Page!Status
  BY DEF Page!Status, Page!Closed
<1>2. \E s \in Page!Status : \/ server' = [server EXCEPT !.status = s]
                             \/ server' = [server EXCEPT !.status = s, !.code = 0]
  BY <1>1 DEF Page!Changes, Page!Actions
<1>. QED
  BY <1>2, StatusFacts

LEMMA NewCodeFacts ==
    ASSUME PageTypes, Page!NewCode
    PROVE  SameThread /\ server'.code \in Results /\ server'.code = server'.codes
<1>1. PICK n \in 1 .. MaxCodes : n = server.codes + 1
  BY RowFacts DEF Page!NewCode
<1>2. server' = [server EXCEPT !.status = "ASSIGNED", !.code = n, !.codes = n]
  BY <1>1 DEF Page!NewCode
<1>3. /\ server' \in Row /\ server'.code = n /\ server'.codes = n
      /\ server'.thread = server.thread
  <2>1. PICK r \in Row : r = server
    BY RowFacts
  <2>2. n \in 0 .. MaxCodes /\ "ASSIGNED" \in Page!Status
    BY <1>1, RowFacts DEF Page!Status
  <2>. QED
    BY <1>2, <2>1, <2>2 DEF Row
<1>. QED
  BY <1>1, <1>3, RowFacts DEF SameThread, RowGrows, Results

LEMMA NewMessageFacts ==
    ASSUME PageTypes, Page!NewMessage
    PROVE  /\ RowGrows /\ Len(server'.thread) \in DOMAIN server'.thread
           /\ Len(server'.thread) \in Results
<1>1. PICK th \in Seq(0 .. 2) : th = server.thread /\ Len(th) < MaxMessages
  BY RowFacts DEF Page!NewMessage
<1>2. PICK n \in Nat : n = Len(th)
  BY <1>1
<1>3. /\ Append(th, 0) \in Seq(0 .. 2) /\ Len(Append(th, 0)) = n + 1
      /\ DOMAIN Append(th, 0) = 1 .. n + 1 /\ DOMAIN th = 1 .. n
  BY <1>1, <1>2
<1>4. server' = [server EXCEPT !.thread = Append(th, 0)]
  BY <1>1 DEF Page!NewMessage
<1>5. /\ server' \in Row /\ server'.thread = Append(th, 0)
      /\ server'.code = server.code /\ server'.codes = server.codes
  BY <1>3, <1>4, RowFacts DEF Row
<1>6. /\ 1 .. n \subseteq 1 .. n + 1 /\ n + 1 \in 1 .. n + 1
      /\ n + 1 <= MaxMessages /\ n + 1 \in Results
  BY <1>1, <1>2, RowFacts DEF Results
<1>. QED
  BY <1>1, <1>3, <1>5, <1>6, RowFacts DEF RowGrows

LEMMA ThreadTypes ==
    ASSUME PageTypes
    PROVE  server.thread \in Page!Threads /\ Page!Detail \in Page!Details
<1>1. PICK n \in Nat : n = Len(server.thread)
  BY RowFacts
<1>2. 1 .. n \in SUBSET (1 .. MaxMessages)
  BY <1>1, RowFacts
<1>3. server.thread \in [1 .. n -> 0 .. 2]
  BY <1>1, RowFacts
<1>4. server.thread \in Page!Threads
  BY <1>2, <1>3 DEF Page!Threads
<1>5. Page!Detail \in Page!Details
  <2>1. server.code \in 0 .. MaxCodes
    BY RowFacts DEF Row
  <2>. QED
    BY <2>1, RowFacts DEF Page!Detail, Page!Details
<1>. QED
  BY <1>4, <1>5

-----------------------------------------------------------------------------
\* From what a step does to each variable to the invariant.

Screen == [connected : BOOLEAN, frame : Page!Status \cup {Empty},
           confirming : Page!Actions \cup {Empty}, draft : Texts \cup {Empty},
           mine : 0 .. MaxCodes]

Counters == /\ presses' \in 0 .. MaxPresses
            /\ others' \in 0 .. MaxUpsets /\ hitches' \in 0 .. MaxUpsets

LEMMA PageFacts ==
    ASSUME PageTypes
    PROVE  /\ shown \in Screen /\ calls \in MutationCalls /\ wire \in Seq(Page!Frames)
           /\ session \in Page!Query(Page!Details) /\ thread \in Page!Query(Page!Threads)
           /\ presses \in 0 .. MaxPresses
           /\ others \in 0 .. MaxUpsets /\ hitches \in 0 .. MaxUpsets /\ MaxUpsets \in Nat
           /\ 0 \in Results
<1>1. 0 \in Results /\ MaxUpsets \in Nat
  BY RowFacts, NumbersAssumption DEF Results
<1>2. /\ shown \in Screen /\ calls \in MutationCalls /\ wire \in Seq(Page!Frames)
      /\ session \in Page!Query(Page!Details) /\ thread \in Page!Query(Page!Threads)
  BY DEF PageTypes, Page!TypeOK, Screen, MutationCalls, Stages, Results
<1>3. /\ presses \in 0 .. MaxPresses
      /\ others \in 0 .. MaxUpsets /\ hitches \in 0 .. MaxUpsets
  BY DEF PageTypes, Page!TypeOK
<1>. QED
  BY <1>1, <1>2, <1>3

LEMMA TypesKept ==
    ASSUME RowGrows, wire' \in Seq(Page!Frames), shown' \in Screen,
           session' \in Page!Query(Page!Details), thread' \in Page!Query(Page!Threads),
           calls' \in MutationCalls, Counters,
           calls'["action"].stage # "idle" => calls'["action"].what \in Page!Actions,
           calls'["send"].stage \in {"committed", "answered"}
              => calls'["send"].result \in DOMAIN server'.thread
    PROVE  PageTypes'
<1>1. Page!TypeOK'
  BY DEF RowGrows, Row, Screen, MutationCalls, Stages, Results, Counters, Page!TypeOK
<1>. QED
  BY <1>1 DEF PageTypes

\* The calls that do not move keep what is known of them.
LEMMA CallsKept ==
    ASSUME PageTypes, RowGrows
    PROVE  /\ calls'["action"] = calls["action"] \/ calls'["action"].stage = "idle"
                 => (calls'["action"].stage # "idle" => calls'["action"].what \in Page!Actions)
           /\ calls'["send"] = calls["send"] \/ calls'["send"].stage \notin {"committed", "answered"}
                 => (calls'["send"].stage \in {"committed", "answered"}
                       => calls'["send"].result \in DOMAIN server'.thread)
  BY DEF PageTypes, RowGrows

LEMMA DialogKept ==
    ASSUME Page!DialogIsOfTheRequest,
           shown'.confirming \in {shown.confirming, Empty},
           calls'["action"].what = calls["action"].what \/ calls'["action"].stage = "idle",
           calls["action"].stage # "idle" \/ calls'["action"].stage = "idle"
    PROVE  Page!DialogIsOfTheRequest'
  BY DEF Page!DialogIsOfTheRequest, Page!Pending

LEMMA ThreadKept ==
    ASSUME ThreadCatchesUp, Marked(thread, thread'), Told => Told',
           DOMAIN server'.thread = DOMAIN server.thread,
           calls["send"].stage = "committed" => calls'["send"].stage = "committed"
    PROVE  ThreadCatchesUp'
  BY DEF ThreadCatchesUp, Marked, Whole

LEMMA CodesKept ==
    ASSUME PageInv, RowGrows, shown'.mine = shown.mine,
           calls'["regenerate"].result \in {0, calls["regenerate"].result},
           Marked(session, session') \/ session'.stage = "asked"
    PROVE  CodesAreNew'
<1>1. /\ server'.codes \in Nat /\ server.codes \in Nat /\ shown.mine \in Nat
      /\ calls["regenerate"].result \in Nat
  BY RowFacts, PageFacts
     DEF PageInv, RowGrows, Row, Screen, MutationCalls, Results, Page!Mutations
<1>2. shown'.mine <= server'.codes /\ calls'["regenerate"].result <= server'.codes
  BY <1>1 DEF PageInv, CodesAreNew, RowGrows
<1>3. CASE Marked(session, session')
  BY <1>2, <1>3 DEF PageInv, CodesAreNew, Marked, NotRevoked
<1>4. CASE session'.stage = "asked"
  BY <1>2, <1>4 DEF CodesAreNew
<1>. QED
  BY <1>3, <1>4

LEMMA PageInitHolds == Page!Init => PageInv
<1>. SUFFICES ASSUME Page!Init PROVE PageInv
  OBVIOUS
<1>1. PICK s \in Page!Status, c \in {0, 1} :
        server = [status |-> s, code |-> c, codes |-> 1, thread |-> <<>>]
  BY DEF Page!Init
<1>2. /\ <<>> \in Seq(0 .. 2) /\ <<>> \in Seq(Page!Frames) /\ Len(<<>>) = 0 /\ DOMAIN <<>> = {}
      /\ <<>> \in [{} -> 0 .. 2]
  OBVIOUS
<1>3. <<>> \in Page!Threads
  BY <1>2 DEF Page!Threads
<1>4. /\ server \in Row /\ server.code \in {0, server.codes} /\ Len(server.thread) <= MaxMessages
      /\ server.codes = 1 /\ server.thread = <<>>
  BY <1>1, <1>2, NumbersAssumption DEF Row
<1>5. /\ session \in Page!Query(Page!Details) /\ session.stage = "idle"
      /\ session.data = Page!Detail
  BY <1>1, NumbersAssumption DEF Page!Init, Page!Query, Page!Detail, Page!Details
<1>6. /\ thread \in Page!Query(Page!Threads) /\ thread.stage = "idle" /\ thread.data = <<>>
  BY <1>3 DEF Page!Init, Page!Query
<1>7. /\ shown \in Screen /\ shown.mine = 0
  BY NumbersAssumption DEF Page!Init, Screen
<1>8. /\ calls \in MutationCalls
      /\ \A m \in Page!Mutations : calls[m].stage = "idle" /\ calls[m].result = 0
  BY NumbersAssumption DEF Page!Init, MutationCalls, Stages, Results, Page!Quiet
<1>9. /\ presses \in 0 .. MaxPresses /\ others \in 0 .. MaxUpsets /\ hitches \in 0 .. MaxUpsets
      /\ wire = <<>>
  BY NumbersAssumption DEF Page!Init
<1>10. Page!TypeOK
  BY <1>2, <1>4, <1>5, <1>6, <1>7, <1>8, <1>9
     DEF Page!TypeOK, Row, Screen, MutationCalls, Stages, Results
<1>11. PageTypes /\ Page!DialogIsOfTheRequest
  BY <1>8, <1>10
     DEF PageTypes, Page!DialogIsOfTheRequest, Page!Pending, Page!Mutations
<1>12. ThreadCatchesUp
  BY <1>4, <1>6 DEF ThreadCatchesUp, Whole
<1>13. NotRevoked(session.data)
  BY <1>1, <1>5, <1>7 DEF NotRevoked, Page!Detail
<1>14. CodesAreNew
  BY <1>4, <1>5, <1>7, <1>8, <1>13 DEF CodesAreNew, Page!Mutations
<1>. QED
  BY <1>11, <1>12, <1>14 DEF PageInv

-----------------------------------------------------------------------------
\* The steps.

\* One step of a query: as it was, asked, answered with what the server holds,
\* landed or failed.
Stepped(q, r, held) ==
    \/ r = q
    \/ r.stage = "asked"
    \/ r.stage = "answered" /\ r.answer = held
    \/ q.stage = "answered" /\ r.stage = "idle" /\ r.data = q.answer /\ r.behind = q.behind
    \/ r.stage = "idle" /\ r.behind

LEMMA QueriesFacts ==
    ASSUME PageTypes,
           Page!Poll \/ Page!QueryAnswers \/ Page!QueryLands \/ Page!QueryFails
    PROVE  /\ UNCHANGED <<server, wire, shown, calls, presses, others>>
           /\ hitches' \in 0 .. MaxUpsets
           /\ session' \in Page!Query(Page!Details)
           /\ Stepped(session, session', Page!Detail)
           /\ thread' \in Page!Query(Page!Threads)
           /\ Stepped(thread, thread', server.thread)
<1>1. CASE Page!Poll
  BY <1>1, PageFacts, AskedFacts DEF Page!Poll, Stepped
<1>2. CASE Page!QueryAnswers
  BY <1>2, PageFacts, ThreadTypes, AnsweredFacts DEF Page!QueryAnswers, Stepped
<1>3. CASE Page!QueryLands
  BY <1>3, PageFacts, LandedFacts DEF Page!QueryLands, Stepped
<1>4. CASE Page!QueryFails
  BY <1>4, PageFacts, AskedFacts DEF Page!QueryFails, Stepped
<1>. QED
  BY <1>1, <1>2, <1>3, <1>4

LEMMA QueriesStep ==
    ASSUME PageInv,
           Page!Poll \/ Page!QueryAnswers \/ Page!QueryLands \/ Page!QueryFails
    PROVE  PageInv'
<1>. USE DEF PageInv
<1>1. SameThread
  BY QueriesFacts, RowSame
<1>2. PageTypes'
  BY <1>1, QueriesFacts, PageFacts, TypesKept DEF SameThread, Counters, PageTypes
<1>3. Page!DialogIsOfTheRequest'
  BY QueriesFacts DEF Page!DialogIsOfTheRequest, Page!Pending
<1>4. ThreadCatchesUp'
  <2>1. UNCHANGED <<server, wire, calls>> /\ Stepped(thread, thread', server.thread)
    BY QueriesFacts
  <2>. QED
    BY <2>1 DEF ThreadCatchesUp, Whole, Told, Stepped
<1>5. CodesAreNew'
  <2>1. UNCHANGED <<server, shown, calls>> /\ Stepped(session, session', Page!Detail)
    BY QueriesFacts
  <2>2. NotRevoked(Page!Detail)
    BY RowFacts DEF NotRevoked, Page!Detail, CodesAreNew
  <2>. QED
    BY <2>1, <2>2 DEF CodesAreNew, NotRevoked, Stepped
<1>. QED
  BY <1>2, <1>3, <1>4, <1>5

LEMMA FrameStep ==
    ASSUME PageInv, Page!Frame PROVE PageInv'
<1>. USE DEF PageInv
<1>1. PICK f \in Page!Frames : f = Head(wire)
  BY PageFacts DEF Page!Frame
<1>2. /\ wire' \in Seq(Page!Frames) /\ wire # <<>>
      /\ Told => f = "message" \/ Told'
  <2>1. PICK w \in Seq(Page!Frames) : w = wire /\ w # <<>> /\ wire' = Tail(w)
    BY PageFacts DEF Page!Frame
  <2>2. PICK n \in Nat : n = Len(w)
    BY <2>1
  <2>3. /\ Tail(w) \in Seq(Page!Frames) /\ DOMAIN w = 1 .. n /\ DOMAIN Tail(w) = 1 .. n - 1
        /\ \A i \in 1 .. n - 1 : Tail(w)[i] = w[i + 1]
    BY <2>1, <2>2
  <2>4. ASSUME NEW i \in DOMAIN wire, wire[i] = "message", f # "message" PROVE Told'
    <3>1. i # 1
      BY <1>1, <2>1, <2>4
    <3>2. i - 1 \in 1 .. n - 1 /\ i - 1 + 1 = i
      BY <2>1, <2>3, <2>4, <3>1
    <3>. QED
      BY <2>1, <2>3, <2>4, <3>2 DEF Told
  <2>. QED
    BY <2>1, <2>3, <2>4 DEF Told
<1>3. UNCHANGED <<server, calls, presses, others, hitches>>
  BY DEF Page!Frame
<1>4. SameThread
  BY <1>3, RowSame
<1>5. CASE f = "message"
  <2>1. thread' = Page!Invalidated(thread) /\ shown' = shown /\ session' = session
    BY <1>1, <1>5 DEF Page!Frame
  <2>2. thread' \in Page!Query(Page!Threads) /\ thread'.stage = "asked"
    BY <2>1, PageFacts, AskedFacts
  <2>3. PageTypes'
    BY <1>2, <1>3, <1>4, <2>1, <2>2, PageFacts, TypesKept DEF SameThread, Counters, PageTypes
  <2>4. Page!DialogIsOfTheRequest'
    BY <1>3, <2>1 DEF Page!DialogIsOfTheRequest, Page!Pending
  <2>5. ThreadCatchesUp'
    BY <2>2 DEF ThreadCatchesUp
  <2>6. CodesAreNew'
    BY <1>3, <2>1 DEF CodesAreNew, NotRevoked
  <2>. QED
    BY <2>3, <2>4, <2>5, <2>6
<1>6. CASE f # "message"
  <2>1. /\ shown' = [shown EXCEPT !.frame = f]
        /\ session' \in {session, Page!Invalidated(session)} /\ thread' = thread
    BY <1>1, <1>6 DEF Page!Frame
  <2>2. f \in Page!Status
    BY <1>6 DEF Page!Frames
  <2>3. /\ shown' \in Screen /\ shown'.mine = shown.mine
        /\ shown'.confirming = shown.confirming
    BY <2>1, <2>2, PageFacts DEF Screen
  <2>4. /\ session' \in Page!Query(Page!Details)
        /\ session' = session \/ session'.stage = "asked"
    BY <2>1, PageFacts, AskedFacts
  <2>5. PageTypes'
    BY <1>2, <1>3, <1>4, <2>1, <2>3, <2>4, PageFacts, TypesKept DEF SameThread, Counters, PageTypes
  <2>6. Page!DialogIsOfTheRequest'
    BY <1>3, <2>3 DEF Page!DialogIsOfTheRequest, Page!Pending
  <2>7. ThreadCatchesUp'
    BY <1>2, <1>3, <1>6, <2>1 DEF ThreadCatchesUp, Whole
  <2>8. CodesAreNew'
    BY <1>3, <2>3, <2>4 DEF CodesAreNew, NotRevoked
  <2>. QED
    BY <2>5, <2>6, <2>7, <2>8
<1>. QED
  BY <1>5, <1>6

LEMMA SocketStep ==
    ASSUME PageInv, Page!Disconnect \/ Page!Reconnect PROVE PageInv'
<1>. USE DEF PageInv
<1>0. UNCHANGED <<server, calls, presses, others>> /\ SameThread
  BY RowSame DEF Page!Disconnect, Page!Reconnect
<1>1. /\ shown' \in Screen /\ shown'.mine = shown.mine
      /\ shown'.confirming = shown.confirming
  BY PageFacts DEF Page!Disconnect, Page!Reconnect, Screen
<1>2. hitches' \in 0 .. MaxUpsets
  BY PageFacts DEF Page!Disconnect, Page!Reconnect
<1>3. /\ wire' \in Seq(Page!Frames)
      /\ session' \in Page!Query(Page!Details) /\ Marked(session, session')
      /\ thread' \in Page!Query(Page!Threads) /\ Marked(thread, thread')
      /\ Told => Told' \/ thread'.behind
  <2>1. CASE Page!Disconnect
    <3>1. wire' = <<>> /\ Page!Behind({wire[i] : i \in DOMAIN wire})
      BY <2>1 DEF Page!Disconnect
    <3>2. Told => "message" \in {wire[i] : i \in DOMAIN wire}
      BY DEF Told
    <3>. QED
      BY <3>1, <3>2, BehindFacts
  <2>2. CASE Page!Reconnect
    BY <2>2, PageFacts DEF Page!Reconnect, Marked, Told
  <2>. QED
    BY <2>1, <2>2
<1>4. PageTypes'
  BY <1>0, <1>1, <1>2, <1>3, PageFacts, TypesKept DEF SameThread, Counters, PageTypes
<1>5. Page!DialogIsOfTheRequest'
  BY <1>0, <1>1 DEF Page!DialogIsOfTheRequest, Page!Pending
<1>6. ThreadCatchesUp'
  BY <1>0, <1>3 DEF ThreadCatchesUp, Whole, Marked
<1>7. CodesAreNew'
  BY <1>0, <1>1, <1>3, CodesKept DEF SameThread
<1>. QED
  BY <1>4, <1>5, <1>6, <1>7

\* The hand at the page: the row, the frames and the queries do not move.
LEMMA HandStep ==
    ASSUME PageInv, UNCHANGED <<server, wire, session, thread, others, hitches>>,
           shown' \in Screen, shown'.mine = shown.mine, presses' \in 0 .. MaxPresses,
           calls' \in MutationCalls, Page!DialogIsOfTheRequest',
           calls'["action"] = calls["action"] \/ calls'["action"].what \in Page!Actions,
           \/ calls'["send"] = calls["send"]
           \/ calls["send"].stage = "idle" /\ calls'["send"].stage = "asked",
           calls'["regenerate"].result \in {0, calls["regenerate"].result}
    PROVE  PageInv'
<1>. USE DEF PageInv
<1>1. SameThread
  BY RowSame
<1>2. PageTypes'
  BY <1>1, PageFacts, TypesKept DEF SameThread, Counters, PageTypes
<1>3. Told => Told'
  BY DEF Told
<1>4. ThreadCatchesUp'
  BY <1>3, ThreadKept DEF Marked
<1>5. CodesAreNew'
  BY <1>1, CodesKept DEF Marked, SameThread
<1>. QED
  BY <1>2, <1>4, <1>5

LEMMA ScreenFacts ==
    ASSUME PageTypes
    PROVE  /\ \A a \in Page!Actions \cup {Empty} :
                /\ [shown EXCEPT !.confirming = a] \in Screen
                /\ [shown EXCEPT !.confirming = a].confirming = a
                /\ [shown EXCEPT !.confirming = a].mine = shown.mine
                /\ [shown EXCEPT !.confirming = a].draft = shown.draft
           /\ \A d \in Texts \cup {Empty} :
                /\ [shown EXCEPT !.draft = d] \in Screen
                /\ [shown EXCEPT !.draft = d].draft = d
                /\ [shown EXCEPT !.draft = d].mine = shown.mine
                /\ [shown EXCEPT !.draft = d].confirming = shown.confirming
           /\ \A c \in 0 .. MaxCodes :
                /\ [shown EXCEPT !.mine = c] \in Screen
                /\ [shown EXCEPT !.mine = c].draft = shown.draft
                /\ [shown EXCEPT !.mine = c].mine = c
                /\ [shown EXCEPT !.mine = c].confirming = shown.confirming
           /\ shown.confirming \in Page!Actions \cup {Empty}
           /\ shown.draft \in Texts \cup {Empty}
  BY PageFacts DEF Screen

LEMMA DispatcherStep ==
    ASSUME PageInv, Page!Dispatcher
    PROVE  PageInv' /\ Page!BoxIsEmptiedForHeldStep
<1>. USE DEF PageInv
<1>0. \A m \in {"action", "send", "regenerate"} : m \in Page!Mutations
  BY DEF Page!Mutations
<1>1. ASSUME NEW a \in Page!Actions, Page!Ask(a) PROVE PageInv' /\ Page!BoxIsEmptiedForHeldStep
  <2>1. /\ shown' = [shown EXCEPT !.confirming = a] /\ calls["action"].stage = "idle"
        /\ UNCHANGED <<server, wire, session, thread, others, hitches, calls, presses>>
    BY <1>1 DEF Page!Ask, Page!Looks, Page!Mine, Page!Pending
  <2>2. Page!DialogIsOfTheRequest'
    BY <2>1 DEF Page!DialogIsOfTheRequest, Page!Pending
  <2>. QED
    BY <2>1, <2>2, HandStep, ScreenFacts, PageFacts DEF Page!BoxIsEmptiedForHeldStep
<1>2. ASSUME Page!Dismiss PROVE PageInv' /\ Page!BoxIsEmptiedForHeldStep
  <2>1. /\ shown' = [shown EXCEPT !.confirming = Empty]
        /\ UNCHANGED <<server, wire, session, thread, others, hitches, calls, presses>>
    BY <1>2 DEF Page!Dismiss, Page!Looks, Page!Mine
  <2>2. Page!DialogIsOfTheRequest'
    BY <2>1, ScreenFacts DEF Page!DialogIsOfTheRequest, Page!Pending
  <2>. QED
    BY <2>1, <2>2, HandStep, ScreenFacts, PageFacts DEF Page!BoxIsEmptiedForHeldStep
<1>3. ASSUME NEW text \in Texts, Page!Type(text)
      PROVE  PageInv' /\ Page!BoxIsEmptiedForHeldStep
  <2>1. /\ shown' = [shown EXCEPT !.draft = text]
        /\ UNCHANGED <<server, wire, session, thread, others, hitches, calls, presses>>
    BY <1>3 DEF Page!Type, Page!Looks, Page!Mine
  <2>2. Page!DialogIsOfTheRequest'
    BY <2>1, ScreenFacts DEF Page!DialogIsOfTheRequest, Page!Pending
  <2>3. Page!BoxIsEmptiedForHeldStep
    BY <2>1, ScreenFacts, OutsidersAssumption DEF Page!BoxIsEmptiedForHeldStep
  <2>. QED
    BY <2>1, <2>2, <2>3, HandStep, ScreenFacts, PageFacts
<1>4. ASSUME Page!Confirm PROVE PageInv' /\ Page!BoxIsEmptiedForHeldStep
  <2>1. PICK a \in Page!Actions : a = shown.confirming /\ Page!Asks("action", a) /\ shown' = shown
    BY <1>4, ScreenFacts DEF Page!Confirm
  <2>2. /\ calls' \in MutationCalls /\ calls'["action"].what = a
        /\ \A n \in Page!Mutations : n # "action" => calls'[n] = calls[n]
        /\ presses' \in 0 .. MaxPresses
        /\ UNCHANGED <<server, wire, session, thread, others, hitches>>
    BY <1>0, <2>1, AsksFacts, PageFacts
  <2>3. Page!DialogIsOfTheRequest'
    BY <2>1, <2>2 DEF Page!DialogIsOfTheRequest
  <2>4. calls'["send"] = calls["send"] /\ calls'["regenerate"] = calls["regenerate"]
    BY <1>0, <2>2
  <2>. QED
    BY <2>1, <2>2, <2>3, <2>4, HandStep, PageFacts DEF Page!BoxIsEmptiedForHeldStep
<1>5. ASSUME Page!Regenerate PROVE PageInv' /\ Page!BoxIsEmptiedForHeldStep
  <2>1. Page!Asks("regenerate", Empty) /\ shown' = shown
    BY <1>5 DEF Page!Regenerate
  <2>2. /\ calls' \in MutationCalls /\ calls'["regenerate"].result = 0
        /\ \A n \in Page!Mutations : n # "regenerate" => calls'[n] = calls[n]
        /\ presses' \in 0 .. MaxPresses
        /\ UNCHANGED <<server, wire, session, thread, others, hitches>>
    BY <1>0, <2>1, AsksFacts, PageFacts
  <2>3. calls'["send"] = calls["send"] /\ calls'["action"] = calls["action"]
    BY <1>0, <2>2
  <2>4. Page!DialogIsOfTheRequest'
    BY <2>1, <2>3 DEF Page!DialogIsOfTheRequest, Page!Pending
  <2>. QED
    BY <2>1, <2>2, <2>3, <2>4, HandStep, PageFacts DEF Page!BoxIsEmptiedForHeldStep
<1>6. ASSUME Page!Submit PROVE PageInv' /\ Page!BoxIsEmptiedForHeldStep
  <2>1. PICK d \in Texts : d = shown.draft /\ Page!Asks("send", d) /\ shown' = shown
    BY <1>6, ScreenFacts DEF Page!Submit
  <2>2. /\ calls' \in MutationCalls
        /\ calls["send"].stage = "idle" /\ calls'["send"].stage = "asked"
        /\ \A n \in Page!Mutations : n # "send" => calls'[n] = calls[n]
        /\ presses' \in 0 .. MaxPresses
        /\ UNCHANGED <<server, wire, session, thread, others, hitches>>
    BY <1>0, <2>1, AsksFacts, PageFacts
  <2>3. calls'["action"] = calls["action"] /\ calls'["regenerate"] = calls["regenerate"]
    BY <1>0, <2>2
  <2>4. Page!DialogIsOfTheRequest'
    BY <2>1, <2>3 DEF Page!DialogIsOfTheRequest, Page!Pending
  <2>. QED
    BY <2>1, <2>2, <2>3, <2>4, HandStep, PageFacts DEF Page!BoxIsEmptiedForHeldStep
<1>. QED
  BY <1>1, <1>2, <1>3, <1>4, <1>5, <1>6 DEF Page!Dispatcher

LEMMA MutationNames == /\ "action" \in Page!Mutations /\ "send" \in Page!Mutations
                       /\ "regenerate" \in Page!Mutations
                       /\ \A m \in Page!Mutations : m \in {"action", "send", "regenerate"}
  BY DEF Page!Mutations

LEMMA CommitStep ==
    ASSUME PageInv, Page!Commit PROVE PageInv'
<1>. USE MutationNames DEF PageInv
<1>0. UNCHANGED <<wire, shown, session, thread, presses, others, hitches>>
  BY DEF Page!Commit
<1>1. Told => Told'
  BY <1>0 DEF Told
<1>2. CASE /\ calls["action"].stage = "asked" /\ Page!Changes(calls["action"].what)
           /\ Page!Set("action", "committed", 0)
  <2>1. PICK a \in Page!Actions : a = calls["action"].what
    BY <1>2 DEF PageTypes
  <2>2. SameThread
    BY <1>2, <2>1, ChangesFacts
  <2>3. /\ calls' \in MutationCalls /\ calls'["action"].what = a
        /\ calls'["send"] = calls["send"] /\ calls'["regenerate"] = calls["regenerate"]
    BY <1>2, <2>1, PageFacts, SetFacts DEF Stages
  <2>4. PageTypes'
    BY <1>0, <2>2, <2>3, PageFacts, TypesKept DEF SameThread, RowGrows, Counters, PageTypes
  <2>5. Page!DialogIsOfTheRequest'
    BY <1>0, <1>2, <2>1, <2>3 DEF Page!DialogIsOfTheRequest, Page!Pending
  <2>6. ThreadCatchesUp'
    BY <1>0, <1>1, <2>2, <2>3, ThreadKept DEF Marked, SameThread
  <2>7. CodesAreNew'
    BY <1>0, <2>2, <2>3, CodesKept DEF Marked, SameThread
  <2>. QED
    BY <2>4, <2>5, <2>6, <2>7
<1>3. CASE /\ calls["regenerate"].stage = "asked" /\ Page!NewCode
           /\ Page!Set("regenerate", "committed", server'.code)
  <2>1. PICK r \in Results : r = server'.code /\ r = server'.codes
    BY <1>3, NewCodeFacts
  <2>2. SameThread
    BY <1>3, NewCodeFacts
  <2>3. /\ calls' \in MutationCalls /\ calls'["regenerate"].result = r
        /\ calls'["send"] = calls["send"] /\ calls'["action"] = calls["action"]
    BY <1>3, <2>1, PageFacts, SetFacts DEF Stages
  <2>4. PageTypes'
    BY <1>0, <2>2, <2>3, PageFacts, TypesKept DEF SameThread, RowGrows, Counters, PageTypes
  <2>5. Page!DialogIsOfTheRequest'
    BY <1>0, <2>3 DEF Page!DialogIsOfTheRequest, Page!Pending
  <2>6. ThreadCatchesUp'
    BY <1>0, <1>1, <2>2, <2>3, ThreadKept DEF Marked, SameThread
  <2>7. /\ shown.mine <= server'.codes /\ r <= server'.codes
    <3>1. /\ server.codes \in Nat /\ server'.codes \in Nat /\ shown.mine \in Nat
          /\ server.codes <= server'.codes /\ shown.mine <= server.codes
      BY <2>2, RowFacts, PageFacts DEF SameThread, RowGrows, Row, Screen, CodesAreNew
    <3>. QED
      BY <2>1, <3>1
  <2>8. CodesAreNew'
    BY <1>0, <2>3, <2>7 DEF CodesAreNew, NotRevoked
  <2>. QED
    BY <2>4, <2>5, <2>6, <2>8
<1>4. CASE /\ calls["send"].stage = "asked" /\ Page!NewMessage
           /\ Page!Set("send", "committed", Len(server'.thread))
  <2>1. PICK r \in Results : r = Len(server'.thread) /\ r \in DOMAIN server'.thread
    BY <1>4, NewMessageFacts
  <2>2. RowGrows
    BY <1>4, NewMessageFacts
  <2>3. /\ calls' \in MutationCalls /\ calls'["send"].result = r
        /\ calls'["send"].stage = "committed"
        /\ calls'["regenerate"] = calls["regenerate"] /\ calls'["action"] = calls["action"]
    BY <1>4, <2>1, PageFacts, SetFacts DEF Stages
  <2>4. PageTypes'
    BY <1>0, <2>1, <2>2, <2>3, PageFacts, TypesKept DEF Counters, PageTypes
  <2>5. Page!DialogIsOfTheRequest'
    BY <1>0, <2>3 DEF Page!DialogIsOfTheRequest, Page!Pending
  <2>6. ThreadCatchesUp'
    BY <2>3 DEF ThreadCatchesUp
  <2>7. CodesAreNew'
    BY <1>0, <2>2, <2>3, CodesKept DEF Marked
  <2>. QED
    BY <2>4, <2>5, <2>6, <2>7
<1>. QED
  BY <1>2, <1>3, <1>4 DEF Page!Commit

LEMMA RefuseStep ==
    ASSUME PageInv, Page!Refuse PROVE PageInv'
<1>. USE MutationNames DEF PageInv
<1>0. UNCHANGED <<server, wire, shown, session, thread, presses, others, hitches>>
  BY DEF Page!Refuse
<1>1. SameThread /\ (Told => Told')
  BY <1>0, RowSame DEF Told
<1>2. PICK m \in Page!Mutations :
        calls[m].stage = "asked" /\ Page!Set(m, "refused", 0)
  BY DEF Page!Refuse
<1>3. /\ calls' \in MutationCalls /\ calls'[m].what = calls[m].what
      /\ calls'[m].stage = "refused" /\ calls'[m].result = 0
      /\ \A n \in Page!Mutations : n # m => calls'[n] = calls[n]
  BY <1>2, PageFacts, SetFacts DEF Stages
<1>4. PageTypes'
  BY <1>0, <1>1, <1>2, <1>3, PageFacts, TypesKept DEF SameThread, Counters, PageTypes
<1>5. Page!DialogIsOfTheRequest'
  BY <1>0, <1>2, <1>3 DEF Page!DialogIsOfTheRequest, Page!Pending
<1>6. ThreadCatchesUp'
  BY <1>0, <1>1, <1>2, <1>3, ThreadKept DEF Marked, SameThread
<1>7. CodesAreNew'
  BY <1>0, <1>1, <1>3, CodesKept DEF Marked, SameThread
<1>. QED
  BY <1>4, <1>5, <1>6, <1>7

LEMMA AnswerStep ==
    ASSUME PageInv, Page!Answer PROVE PageInv'
<1>. USE MutationNames DEF PageInv
<1>0. UNCHANGED <<server, shown, presses, others, hitches>>
  BY DEF Page!Answer
<1>1. SameThread
  BY <1>0, RowSame
<1>2. PICK m \in Page!Mutations :
        /\ calls[m].stage = "committed" /\ Page!Publish(Page!Published(m))
        /\ Page!Set(m, "answered", calls[m].result)
  BY DEF Page!Answer
<1>3. /\ Page!Published(m) \in Page!Frames
      /\ m = "send" => Page!Published(m) = "message"
  <2>1. m = "action" => calls[m].what \in {"pause", "resume", "complete", "cancel"}
    BY <1>2 DEF PageTypes, Page!Actions
  <2>2. {"message", "ASSIGNED", "PAUSED", "ACTIVE", "COMPLETED", "CANCELLED"} \subseteq Page!Frames
    BY DEF Page!Frames, Page!Status, Page!Closed
  <2>3. CASE m = "action"
    BY <2>1, <2>2, <2>3 DEF Page!Published
  <2>4. CASE m # "action"
    BY <2>2, <2>4 DEF Page!Published
  <2>. QED
    BY <2>3, <2>4
<1>4. PICK f \in Page!Frames : Page!Publish(f) /\ (m = "send" => f = "message")
  BY <1>2, <1>3
<1>5. /\ session' \in Page!Query(Page!Details) /\ Marked(session, session')
      /\ thread' \in Page!Query(Page!Threads) /\ Marked(thread, thread')
      /\ wire' \in Seq(Page!Frames) /\ (Told => Told')
      /\ m = "send" => Told' \/ thread'.behind
  BY <1>4, PublishFacts
<1>6. /\ calls' \in MutationCalls /\ calls'[m].what = calls[m].what
      /\ calls'[m].stage = "answered" /\ calls'[m].result = calls[m].result
      /\ \A n \in Page!Mutations : n # m => calls'[n] = calls[n]
  <2>1. calls[m].result \in Results
    BY PageFacts DEF MutationCalls
  <2>. QED
    BY <1>2, <2>1, PageFacts, SetFacts DEF Stages
<1>7. PageTypes'
  <2>1. calls'["action"].stage # "idle" => calls'["action"].what \in Page!Actions
    BY <1>2, <1>6 DEF PageTypes
  <2>2. calls'["send"].stage \in {"committed", "answered"}
           => calls'["send"].result \in DOMAIN server'.thread
    BY <1>0, <1>2, <1>6 DEF PageTypes
  <2>. QED
    BY <1>0, <1>1, <1>5, <1>6, <2>1, <2>2, PageFacts, TypesKept DEF SameThread, Counters
<1>8. Page!DialogIsOfTheRequest'
  BY <1>0, <1>2, <1>6 DEF Page!DialogIsOfTheRequest, Page!Pending
<1>9. ThreadCatchesUp'
  <2>1. CASE m = "send"
    BY <1>5, <2>1 DEF ThreadCatchesUp
  <2>2. CASE m # "send"
    BY <1>0, <1>5, <1>6, <2>2, ThreadKept
  <2>. QED
    BY <2>1, <2>2
<1>10. CodesAreNew'
  BY <1>0, <1>1, <1>5, <1>6, CodesKept DEF SameThread
<1>. QED
  BY <1>7, <1>8, <1>9, <1>10

\* A colleague or the phone: the row grows, and its frame is published.
LEMMA OtherStep ==
    ASSUME PageInv, Page!Other PROVE PageInv'
<1>. USE MutationNames DEF PageInv
<1>0. /\ UNCHANGED <<shown, calls, presses, hitches>>
      /\ others' \in 0 .. MaxUpsets
  BY PageFacts DEF Page!Other
<1>1. PICK f \in Page!Frames :
        Page!Publish(f) /\ (SameThread \/ (RowGrows /\ f = "message"))
  <2>0. {"message", "ASSIGNED", "CLAIMED", "ACTIVE"} \subseteq Page!Frames
    BY DEF Page!Frames, Page!Status, Page!Closed
  <2>. DEFINE Good == \E f \in Page!Frames :
                        Page!Publish(f) /\ (SameThread \/ (RowGrows /\ f = "message"))
  <2>1. ASSUME NEW a \in Page!Actions, Page!Changes(a), Page!Publish(server'.status)
        PROVE  Good
    <3>1. PICK f \in Page!Frames : f = server'.status
      BY <2>1, ChangesFacts DEF Page!Frames
    <3>2. SameThread /\ Page!Publish(f)
      BY <2>1, <3>1, ChangesFacts
    <3>. QED
      BY <3>2
  <2>2. ASSUME Page!NewCode, Page!Publish("ASSIGNED") PROVE Good
    <3>1. SameThread /\ "ASSIGNED" \in Page!Frames
      BY <2>0, <2>2, NewCodeFacts
    <3>. QED
      BY <2>2, <3>1
  <2>3. ASSUME Page!NewMessage, Page!Publish("message") PROVE Good
    BY <2>0, <2>3, NewMessageFacts
  <2>4. ASSUME server' = [server EXCEPT !.status = "CLAIMED", !.code = 0], Page!Publish("CLAIMED")
        PROVE  Good
    <3>0. "CLAIMED" \in Page!Status /\ "CLAIMED" \in Page!Frames
      BY <2>0 DEF Page!Status
    <3>1. SameThread
      BY <2>4, <3>0, StatusFacts
    <3>. QED
      BY <2>4, <3>0, <3>1
  <2>5. ASSUME server.status \in {"CLAIMED", "ACTIVE", "PAUSED"},
               server' = [server EXCEPT !.status = IF @ = "CLAIMED" THEN "ACTIVE" ELSE @],
               Page!Publish("ACTIVE")
        PROVE  Good
    <3>1. PICK s \in Page!Status : s = IF server.status = "CLAIMED" THEN "ACTIVE" ELSE server.status
      BY RowFacts DEF Page!Status
    <3>2. server' = [server EXCEPT !.status = s]
      BY <2>5, <3>1
    <3>3. SameThread /\ "ACTIVE" \in Page!Frames
      BY <2>0, <3>2, StatusFacts
    <3>. QED
      BY <2>5, <3>3
  <2>6. ASSUME NEW i \in DOMAIN server.thread, NEW tick \in 1 .. 2,
               server' = [server EXCEPT !.thread[i] = tick], Page!Publish("message")
        PROVE  Good
    <3>1. PICK th \in Seq(0 .. 2) : th = server.thread
      BY RowFacts
    <3>2. PICK n \in Nat : n = Len(th)
      BY <3>1
    <3>3. /\ [th EXCEPT ![i] = tick] \in Seq(0 .. 2)
          /\ Len([th EXCEPT ![i] = tick]) = n
          /\ DOMAIN [th EXCEPT ![i] = tick] = DOMAIN th
      BY <2>6, <3>1, <3>2
    <3>4. server' = [server EXCEPT !.thread = [th EXCEPT ![i] = tick]]
      BY <2>6, <3>1
    <3>5. /\ server' \in Row /\ server'.thread = [th EXCEPT ![i] = tick]
          /\ server'.code = server.code /\ server'.codes = server.codes
      BY <3>3, <3>4, RowFacts DEF Row
    <3>6. SameThread
      BY <3>1, <3>2, <3>3, <3>5, RowFacts DEF SameThread, RowGrows
    <3>. QED
      BY <2>0, <2>6, <3>6
  <2>. HIDE DEF Good
  <2>7. Good
    BY <2>1, <2>2, <2>3, <2>4, <2>5, <2>6 DEF Page!Other
  <2>. QED
    BY <2>7 DEF Good
<1>2. RowGrows
  BY <1>1 DEF SameThread
<1>3. /\ session' \in Page!Query(Page!Details) /\ Marked(session, session')
      /\ thread' \in Page!Query(Page!Threads) /\ Marked(thread, thread')
      /\ wire' \in Seq(Page!Frames) /\ (Told => Told')
      /\ f = "message" => Told' \/ thread'.behind
  BY <1>1, PublishFacts
<1>4. PageTypes'
  BY <1>0, <1>2, <1>3, CallsKept, PageFacts, TypesKept DEF Counters
<1>5. Page!DialogIsOfTheRequest'
  BY <1>0 DEF Page!DialogIsOfTheRequest, Page!Pending
<1>6. ThreadCatchesUp'
  <2>1. CASE f = "message"
    BY <1>3, <2>1 DEF ThreadCatchesUp
  <2>2. CASE f # "message"
    BY <1>0, <1>1, <1>3, <2>2, ThreadKept DEF SameThread
  <2>. QED
    BY <2>1, <2>2
<1>7. CodesAreNew'
  BY <1>0, <1>2, <1>3, CodesKept
<1>. QED
  BY <1>4, <1>5, <1>6, <1>7

-----------------------------------------------------------------------------
\* The answers.

LEMMA ActionLandsStep ==
    ASSUME PageInv, Page!ActionLands PROVE PageInv'
<1>. USE MutationNames DEF PageInv
<1>0. UNCHANGED <<server, wire, thread, presses, others, hitches>>
  BY DEF Page!ActionLands
<1>1. SameThread /\ (Told => Told')
  BY <1>0, RowSame DEF Told
<1>2. /\ calls' \in MutationCalls /\ calls'["action"].stage = "idle"
      /\ calls'["send"] = calls["send"] /\ calls'["regenerate"] = calls["regenerate"]
  BY PageFacts, DoneFacts DEF Page!ActionLands
<1>3. shown' \in Screen /\ shown'.mine = shown.mine /\ shown'.confirming = Empty
  BY ScreenFacts DEF Page!ActionLands
<1>4. session' \in Page!Query(Page!Details) /\ session'.stage = "asked"
  BY PageFacts, AskedFacts DEF Page!ActionLands
<1>5. PageTypes'
  BY <1>0, <1>1, <1>2, <1>3, <1>4, CallsKept, PageFacts, TypesKept DEF SameThread, Counters
<1>6. Page!DialogIsOfTheRequest'
  BY <1>2 DEF Page!DialogIsOfTheRequest, Page!Pending
<1>7. ThreadCatchesUp'
  BY <1>0, <1>1, <1>2, ThreadKept DEF Marked, SameThread
<1>8. CodesAreNew'
  BY <1>1, <1>2, <1>3, <1>4, CodesKept DEF SameThread
<1>. QED
  BY <1>5, <1>6, <1>7, <1>8

LEMMA RegenerateLandsStep ==
    ASSUME PageInv, Page!RegenerateLands PROVE PageInv'
<1>. USE MutationNames DEF PageInv
<1>0. UNCHANGED <<server, wire, thread, presses, others, hitches>>
  BY DEF Page!RegenerateLands
<1>1. SameThread /\ (Told => Told')
  BY <1>0, RowSame DEF Told
<1>2. /\ calls' \in MutationCalls /\ calls'["regenerate"].result = 0
      /\ calls'["send"] = calls["send"] /\ calls'["action"] = calls["action"]
  BY PageFacts, DoneFacts DEF Page!RegenerateLands
<1>3. PICK c \in 0 .. MaxCodes : c = calls["regenerate"].result /\ c <= server.codes
  <2>1. calls["regenerate"].result \in Nat
    BY PageFacts DEF MutationCalls, Results
  <2>. QED
    BY <2>1, RowFacts DEF CodesAreNew
<1>4. /\ shown' \in Screen /\ shown'.mine = c /\ shown'.confirming = shown.confirming
      /\ shown'.draft = shown.draft
  BY <1>3, ScreenFacts DEF Page!RegenerateLands
<1>5. session' \in Page!Query(Page!Details) /\ session'.stage = "asked"
  BY PageFacts, AskedFacts DEF Page!RegenerateLands
<1>6. PageTypes'
  BY <1>0, <1>1, <1>2, <1>4, <1>5, CallsKept, PageFacts, TypesKept DEF SameThread, Counters
<1>7. Page!DialogIsOfTheRequest'
  BY <1>2, <1>4 DEF Page!DialogIsOfTheRequest, Page!Pending
<1>8. ThreadCatchesUp'
  BY <1>0, <1>1, <1>2, ThreadKept DEF Marked, SameThread
<1>9. CodesAreNew'
  BY <1>0, <1>2, <1>3, <1>4, <1>5, RowFacts DEF CodesAreNew, NotRevoked
<1>. QED
  BY <1>6, <1>7, <1>8, <1>9

LEMMA SendLandsStep ==
    ASSUME PageInv, Page!SendLands PROVE PageInv'
<1>. USE MutationNames DEF PageInv
<1>0. UNCHANGED <<server, wire, session, presses, others, hitches>>
  BY DEF Page!SendLands
<1>1. SameThread /\ (Told => Told')
  BY <1>0, RowSame DEF Told
<1>2. /\ calls' \in MutationCalls /\ calls'["send"].stage = "idle"
      /\ calls'["action"] = calls["action"] /\ calls'["regenerate"] = calls["regenerate"]
      /\ calls["send"].stage = "answered"
  BY PageFacts, DoneFacts DEF Page!SendLands
<1>3. /\ shown' \in Screen /\ shown'.mine = shown.mine
      /\ shown'.confirming = shown.confirming
  BY ScreenFacts DEF Page!SendLands
<1>4. PICK id : id = calls["send"].result /\ id \in DOMAIN server.thread
  BY <1>2 DEF PageTypes
<1>5. id \in 1 .. MaxMessages
  <2>1. PICK n \in Nat : n = Len(server.thread)
    BY RowFacts
  <2>2. DOMAIN server.thread = 1 .. n /\ n <= MaxMessages
    BY <2>1, RowFacts
  <2>. QED
    BY <1>4, <2>2, RowFacts
<1>6. PICK d \in Page!Threads : d = thread.data
  BY PageFacts, QueryFacts
<1>7. PICK S \in SUBSET (1 .. MaxMessages) : d \in [S -> 0 .. 2]
  BY DEF Page!Threads
<1>. DEFINE longer == [i \in DOMAIN d \cup {id} |-> IF i = id THEN 0 ELSE d[i]]
<1>8. longer \in Page!Threads /\ DOMAIN longer = DOMAIN d \cup {id}
  <2>1. longer \in [S \cup {id} -> 0 .. 2] /\ DOMAIN d = S
    <3>1. DOMAIN d = S
      BY <1>7
    <3>2. \A i \in S \cup {id} : (IF i = id THEN 0 ELSE d[i]) \in 0 .. 2
      BY <1>7
    <3>. QED
      BY <3>1, <3>2
  <2>2. S \cup {id} \in SUBSET (1 .. MaxMessages)
    BY <1>5
  <2>3. \A T \in SUBSET (1 .. MaxMessages) : [T -> 0 .. 2] \subseteq Page!Threads
    BY DEF Page!Threads
  <2>. QED
    BY <2>1, <2>2, <2>3
<1>9. thread' = [thread EXCEPT !.data = longer]
  BY <1>4, <1>6 DEF Page!SendLands
<1>. HIDE DEF longer
<1>10. /\ thread' \in Page!Query(Page!Threads) /\ thread'.stage = thread.stage
       /\ thread'.answer = thread.answer /\ thread'.behind = thread.behind
       /\ thread'.data = longer
  BY <1>8, <1>9, PageFacts, FilledFacts
<1>11. PageTypes'
  BY <1>0, <1>1, <1>2, <1>3, <1>10, CallsKept, PageFacts, TypesKept DEF SameThread, Counters
<1>12. Page!DialogIsOfTheRequest'
  BY <1>2, <1>3 DEF Page!DialogIsOfTheRequest, Page!Pending
<1>13. ThreadCatchesUp'
  <2>1. Whole(d) => DOMAIN longer = DOMAIN server.thread
    BY <1>4, <1>8 DEF Whole
  <2>. QED
    BY <1>0, <1>1, <1>2, <1>6, <1>10, <2>1 DEF ThreadCatchesUp, Whole
<1>14. CodesAreNew'
  BY <1>0, <1>1, <1>2, <1>3, CodesKept DEF SameThread, Marked
<1>. QED
  BY <1>11, <1>12, <1>13, <1>14

LEMMA CallFailsStep ==
    ASSUME PageInv, Page!CallFails PROVE PageInv'
<1>. USE MutationNames DEF PageInv
<1>0. UNCHANGED <<server, wire, shown, thread, presses, others>>
  BY DEF Page!CallFails
<1>1. SameThread /\ (Told => Told')
  BY <1>0, RowSame DEF Told
<1>2. PICK m \in Page!Mutations :
        /\ calls[m].stage \in {"asked", "refused", "answered"} /\ Page!Done(m)
        /\ session' \in {session, Page!Invalidated(session)}
        /\ hitches' \in {hitches, hitches + 1} /\ hitches' \in 0 .. MaxUpsets
  <2>1. PICK m \in Page!Mutations :
          /\ calls[m].stage \in {"asked", "refused", "answered"}
          /\ IF calls[m].stage = "refused" THEN UNCHANGED hitches
             ELSE hitches + others < MaxUpsets /\ hitches' = hitches + 1
          /\ session' = IF m = "send" /\ calls[m].stage = "refused"
                        THEN Page!Invalidated(session) ELSE session
          /\ Page!Done(m)
    BY DEF Page!CallFails
  <2>2. hitches' \in {hitches, hitches + 1} /\ hitches' \in 0 .. MaxUpsets
    BY <2>1, PageFacts
  <2>3. session' \in {session, Page!Invalidated(session)}
    BY <2>1
  <2>. QED
    BY <2>1, <2>2, <2>3
<1>3. /\ calls' \in MutationCalls /\ calls'[m].stage = "idle" /\ calls'[m].result = 0
      /\ \A n \in Page!Mutations : n # m => calls'[n] = calls[n]
  BY <1>2, PageFacts, DoneFacts
<1>4. /\ session' \in Page!Query(Page!Details)
      /\ session' = session \/ session'.stage = "asked"
  BY <1>2, PageFacts, AskedFacts
<1>5. PageTypes'
  BY <1>0, <1>1, <1>2, <1>3, <1>4, CallsKept, PageFacts, TypesKept DEF SameThread, Counters
<1>6. Page!DialogIsOfTheRequest'
  BY <1>0, <1>3 DEF Page!DialogIsOfTheRequest, Page!Pending
<1>7. ThreadCatchesUp'
  BY <1>0, <1>1, <1>2, <1>3, ThreadKept DEF Marked, SameThread
<1>8. CodesAreNew'
  BY <1>0, <1>1, <1>3, <1>4, CodesKept DEF Marked, SameThread
<1>. QED
  BY <1>5, <1>6, <1>7, <1>8

LEMMA PageStep ==
    PageInv /\ PageNext => PageInv' /\ Page!BoxIsEmptiedForHeldStep
<1>. SUFFICES ASSUME PageInv, PageNext PROVE PageInv' /\ Page!BoxIsEmptiedForHeldStep
  OBVIOUS
<1>1. CASE shown'.draft = shown.draft /\ PageInv'
  BY <1>1 DEF Page!BoxIsEmptiedForHeldStep
<1>2. CASE Page!Poll \/ Page!QueryAnswers \/ Page!QueryLands \/ Page!QueryFails
  BY <1>1, <1>2, QueriesStep, QueriesFacts DEF PageInv
<1>3. CASE Page!Frame
  <2>1. shown'.draft = shown.draft
    BY <1>3, PageFacts DEF Page!Frame, PageInv, Screen
  <2>. QED
    BY <1>1, <1>3, <2>1, FrameStep
<1>4. CASE Page!Disconnect \/ Page!Reconnect
  <2>1. shown'.draft = shown.draft
    BY <1>4, PageFacts DEF Page!Disconnect, Page!Reconnect, PageInv, Screen
  <2>. QED
    BY <1>1, <1>4, <2>1, SocketStep
<1>5. CASE Page!Dispatcher
  BY <1>5, DispatcherStep
<1>6. CASE Page!Commit \/ Page!Refuse \/ Page!Answer \/ Page!Other
  <2>1. shown' = shown
    BY <1>6 DEF Page!Commit, Page!Refuse, Page!Answer, Page!Other
  <2>. QED
    BY <1>1, <1>6, <2>1, CommitStep, RefuseStep, AnswerStep, OtherStep
<1>7. CASE Page!ActionLands \/ Page!RegenerateLands
  <2>1. shown'.draft = shown.draft
    BY <1>7, PageFacts DEF Page!ActionLands, Page!RegenerateLands, PageInv, Screen
  <2>. QED
    BY <1>1, <1>7, <2>1, ActionLandsStep, RegenerateLandsStep
<1>8. CASE Page!SendLands
  <2>1. calls["send"].stage = "answered"
    BY <1>8 DEF Page!SendLands
  <2>. QED
    BY <1>8, <2>1, SendLandsStep DEF Page!BoxIsEmptiedForHeldStep
<1>9. CASE Page!CallFails
  <2>1. shown' = shown
    BY <1>9 DEF Page!CallFails
  <2>. QED
    BY <1>1, <1>9, <2>1, CallFailsStep
<1>10. CASE UNCHANGED pageVars
  BY <1>1, <1>10
     DEF pageVars, PageInv, PageTypes, Page!TypeOK, Page!DialogIsOfTheRequest, Page!Pending,
         ThreadCatchesUp, Told, Whole, CodesAreNew, NotRevoked
<1>. QED
  BY <1>2, <1>3, <1>4, <1>5, <1>6, <1>7, <1>8, <1>9, <1>10 DEF PageNext, Page!Next

LEMMA PageHolds ==
    ASSUME PageInv
    PROVE  /\ Page!QuietThreadIsWhole /\ Page!RevokedCodeIsNotReadOut
           /\ Page!DialogIsOfTheRequest
<1>1. Page!QuietThreadIsWhole
  <2>. SUFFICES ASSUME wire = <<>>, calls["send"].stage = "idle", thread.stage = "idle",
                       ~thread.behind
       PROVE  DOMAIN thread.data = DOMAIN server.thread
    BY DEF Page!QuietThreadIsWhole, Page!Pending
  <2>. QED
    BY DEF PageInv, ThreadCatchesUp, Told, Whole
<1>. QED
  BY <1>1 DEF PageInv, CodesAreNew, NotRevoked, Page!RevokedCodeIsNotReadOut

-----------------------------------------------------------------------------
(* The carriers page and the catalog behind it.                             *)

CarriersNext == [Fleet!Next]_carriersVars

Files == [Codes -> [Fleet!Kinds -> SUBSET Names] \cup {Nobody}]
Dialogs == [expanded : Codes \cup {Nobody}, adding : Fleet!Kinds \cup {Nobody},
            name : Names \cup {Nobody}, call : 0 .. MaxPresses,
            carrier : BOOLEAN, code : Codes \cup {Nobody}]
Addition == [kind : Fleet!Kinds \cup {"carrier"}, carrier : Codes,
             name : Names \cup {Nobody}, here : BOOLEAN,
             stage : {"asked", "done", "refused", "landed", "failed"}]
CompanyLists == Fleet!Lists \cup {Nobody}
RosterLists == (SUBSET Names) \cup {Nobody}

Known(c) == file[c] # Nobody

\* What a request adds is on file.
Filed(x, f) ==
    f[x.carrier] # Nobody /\ (x.kind # "carrier" => x.name \in f[x.carrier][x.kind])

\* A list q lacks nothing: neither as it is shown, nor as it was answered.
ShowsCompany(q, c) ==
    /\ q.stage = "idle" /\ ~q.old => q.data[c] # Nobody
    /\ q.answer # Nobody => q.answer[c] # Nobody
ShowsName(q, n) ==
    /\ q.stage = "idle" /\ ~q.old /\ q.data # Nobody => n \in q.data
    /\ q.answer # Nobody => n \in q.answer

\* The row that is open, the rows the list shows and the lists being read are of
\* carriers on file.
RowsAreKnown ==
    /\ dialogs.expanded # Nobody => Known(dialogs.expanded)
    /\ \A c \in Codes :
          /\ companies.data # Nobody /\ companies.data[c] # Nobody => Known(c)
          /\ companies.answer # Nobody /\ companies.answer[c] # Nobody => Known(c)
          /\ \A k \in Fleet!Kinds : rosters[c][k].stage = "asked" => Known(c)

\* A request that was served is on file, and one that landed is in every list
\* that is not to be read again.
RequestsAreFiled ==
    \A i \in DOMAIN requests :
       LET x == requests[i] IN
       /\ x.kind # "carrier" => Known(x.carrier) /\ x.name \in Names
       /\ x.stage \in {"done", "landed"} => Filed(x, file)
       /\ x.stage = "landed" =>
             IF x.kind = "carrier" THEN ShowsCompany(companies, x.carrier)
             ELSE ShowsName(rosters[x.carrier][x.kind], x.name)

CarriersInv ==
    /\ Fleet!TypeOK /\ requests \in Seq(Addition)
    /\ RowsAreKnown /\ RequestsAreFiled

-----------------------------------------------------------------------------
\* Queries.

LEMMA ReadFacts ==
    ASSUME NEW V, NEW q \in Fleet!Query(V)
    PROVE  /\ q.data \in V /\ q.old \in BOOLEAN /\ q.stage \in {"idle", "asked"}
           /\ q.answer \in V \cup {Nobody} /\ (q.stage = "idle" => q.answer = Nobody)
  BY DEF Fleet!Query

\* One step of a list q: as it was, asked, answered with what is on file now,
\* marked as old or landed.
Turned(q, r, held) ==
    \/ r = q
    \/ /\ r.data = q.data /\ r.stage = "asked"
       /\ r.answer = Nobody \/ (q.stage = "asked" /\ r.answer = held)
    \/ r.data = q.data /\ r.stage = "idle" /\ r.old /\ r.answer = Nobody
    \/ /\ q.stage = "asked" /\ r.stage = "idle" /\ r.answer = Nobody
       /\ r.data = IF q.answer = Nobody THEN held ELSE q.answer

\* What landed since is in the list when it is next read.
Reread(r) == r.answer = Nobody /\ (r.stage = "asked" \/ r.old)

LEMMA AskFacts ==
    ASSUME NEW V, NEW q \in Fleet!Query(V)
    PROVE  /\ Fleet!Ask(q) \in Fleet!Query(V) /\ Fleet!Ask(q).stage = "asked"
           /\ Fleet!Ask(q).answer = Nobody /\ Fleet!Ask(q).data = q.data
           /\ Fleet!Failed(q) \in Fleet!Query(V) /\ Fleet!Failed(q).stage = "idle"
           /\ Fleet!Failed(q).old /\ Fleet!Failed(q).answer = Nobody
           /\ Fleet!Failed(q).data = q.data
  BY DEF Fleet!Query, Fleet!Ask, Fleet!Failed

LEMMA InvalidatedFacts ==
    ASSUME NEW V, NEW q \in Fleet!Query(V), NEW b
    PROVE  /\ Fleet!Invalidated(q, b) \in Fleet!Query(V)
           /\ Reread(Fleet!Invalidated(q, b)) /\ Fleet!Invalidated(q, b).data = q.data
           /\ Fleet!Invalidated(q, b).stage \in {"idle", "asked"}
<1>1. CASE b
  BY <1>1, AskFacts DEF Fleet!Invalidated, Reread
<1>2. CASE ~b
  BY <1>2 DEF Fleet!Invalidated, Fleet!Query, Reread
<1>. QED
  BY <1>1, <1>2

LEMMA LandFacts ==
    ASSUME NEW V, NEW q \in Fleet!Query(V), NEW held \in V
    PROVE  /\ Fleet!Landed(q, held) \in Fleet!Query(V)
           /\ Fleet!Landed(q, held).stage = "idle" /\ Fleet!Landed(q, held).answer = Nobody
           /\ Fleet!Landed(q, held).data = IF q.answer = Nobody THEN held ELSE q.answer
<1>. DEFINE Plain == [data : {Nobody}, stage : {"idle"}, old : {FALSE}, answer : {Nobody}]
<1>1. Fleet!Unread \in Plain
  BY DEF Fleet!Unread
<1>2. PICK u \in Plain : u = Fleet!Unread
  BY <1>1
<1>3. PICK d \in V : d = IF q.answer = Nobody THEN held ELSE q.answer
  BY ReadFacts
<1>4. Fleet!Landed(q, held) = [u EXCEPT !.data = d]
  BY <1>2, <1>3 DEF Fleet!Landed
<1>5. /\ [u EXCEPT !.data = d] \in Fleet!Query(V)
      /\ [u EXCEPT !.data = d].stage = "idle" /\ [u EXCEPT !.data = d].answer = Nobody
      /\ [u EXCEPT !.data = d].data = d
  BY <1>2, <1>3 DEF Fleet!Query
<1>. QED
  BY <1>3, <1>4, <1>5

LEMMA MovedFacts ==
    ASSUME NEW V, NEW q \in Fleet!Query(V), NEW held \in V, NEW b, NEW r,
           Fleet!Moved(q, b, held, r), upsets \in 0 .. MaxUpsets
    PROVE  /\ r \in Fleet!Query(V) /\ Turned(q, r, held)
           /\ upsets' \in 0 .. MaxUpsets
           /\ b \/ r.stage = "idle"
<1>1. /\ Fleet!Upset => upsets' \in 0 .. MaxUpsets
      /\ UNCHANGED upsets => upsets' \in 0 .. MaxUpsets
  BY NumbersAssumption DEF Fleet!Upset
<1>2. CASE q.stage = "asked" /\ r = Fleet!Landed(q, held) /\ UNCHANGED upsets
  BY <1>1, <1>2, LandFacts DEF Turned
<1>3. CASE q.stage = "asked" /\ r = Fleet!Failed(q) /\ Fleet!Upset
  BY <1>1, <1>3, AskFacts DEF Turned
<1>4. CASE /\ q.stage = "idle" /\ b /\ r = Fleet!Ask(q)
           /\ IF q.old THEN UNCHANGED upsets ELSE Fleet!Upset
  BY <1>1, <1>4, AskFacts DEF Turned
<1>. QED
  BY <1>2, <1>3, <1>4 DEF Fleet!Moved

LEMMA ListAnswerFacts ==
    ASSUME NEW V, NEW q \in Fleet!Query(V), NEW held \in V, NEW r \in Fleet!Answered(q, held)
    PROVE  /\ r \in Fleet!Query(V) /\ Turned(q, r, held)
           /\ r.stage = q.stage
  BY DEF Fleet!Query, Fleet!Answered, Turned

LEMMA MountedFacts ==
    ASSUME NEW V, NEW q \in Fleet!Query(V), NEW held
    PROVE  Fleet!Mounted(q) \in Fleet!Query(V) /\ Turned(q, Fleet!Mounted(q), held)
  BY AskFacts DEF Fleet!Mounted, Turned

-----------------------------------------------------------------------------
\* The figures of a carrier.

LEMMA FleetCount == \A S : Fleet!Cardinality(S) = Cardinality(S)
  BY DEF Fleet!Cardinality, Cardinality

LEMMA Products ==
    ASSUME NEW n \in Nat, NEW a \in 0 .. n, NEW b \in 0 .. n
    PROVE  a * b \in 0 .. n * n /\ a * 1 \in 0 .. n * n
<1>1. a * b <= n * b /\ n * b <= n * n /\ 0 <= a * b /\ a * b \in Nat
  OBVIOUS
<1>2. a = 0 \/ 1 <= n
  OBVIOUS
<1>3. n <= n * n \/ n = 0
  OBVIOUS
<1>. QED
  BY <1>1, <1>2, <1>3

LEMMA ListedFacts ==
    ASSUME NEW f \in Files
    PROVE  /\ Fleet!OnFile(f) \in Fleet!Lists
           /\ \A c \in Codes : Fleet!OnFile(f)[c] # Nobody <=> f[c] # Nobody
<1>1. PICK n \in Nat : n = Fleet!Cardinality(Names)
  BY FleetCount, FS_CardinalityType, OutsidersAssumption
<1>2. ASSUME NEW S \in SUBSET Names PROVE Fleet!Cardinality(S) \in 0 .. n
  <2>1. IsFiniteSet(S) /\ Cardinality(S) <= Cardinality(Names)
    BY FS_Subset, OutsidersAssumption
  <2>. QED
    BY <1>1, <2>1, FleetCount, FS_CardinalityType
<1>3. ASSUME NEW c \in Codes, f[c] # Nobody
      PROVE  Fleet!Listed(f, c) \in Fleet!Figures
  <2>1. f[c] \in [Fleet!Kinds -> SUBSET Names]
    BY <1>3 DEF Files
  <2>2. ASSUME NEW k \in Fleet!Kinds, NEW j \in Fleet!Kinds
        PROVE  Fleet!Cardinality(f[c][k])
                  * (IF f[c][j] = {} THEN 1 ELSE Fleet!Cardinality(f[c][j])) \in 0 .. n * n
    <3>1. PICK a \in 0 .. n, b \in 0 .. n :
            a = Fleet!Cardinality(f[c][k]) /\ b = Fleet!Cardinality(f[c][j])
      BY <1>2, <2>1
    <3>. QED
      BY <3>1, Products
  <2>3. Fleet!Listed(f, c) \in [Fleet!Kinds -> 0 .. n * n]
    BY <1>3, <2>2 DEF Fleet!Listed, Fleet!Kinds
  <2>. QED
    BY <1>1, <2>3 DEF Fleet!Figures
<1>4. \A c \in Codes : /\ f[c] = Nobody => Fleet!Listed(f, c) = Nobody
                       /\ f[c] # Nobody => Fleet!Listed(f, c) \in Fleet!Figures
  BY <1>3 DEF Fleet!Listed
<1>5. \A c \in Codes : Fleet!OnFile(f)[c] = Fleet!Listed(f, c)
  BY DEF Fleet!OnFile
<1>6. Fleet!OnFile(f) \in Fleet!Lists
  BY <1>4 DEF Fleet!OnFile, Fleet!Lists
<1>7. \A c \in Codes : Fleet!Listed(f, c) # Nobody <=> f[c] # Nobody
  BY <1>4, OutsidersAssumption
<1>. QED
  BY <1>5, <1>6, <1>7

-----------------------------------------------------------------------------
\* From what a step does to each variable to the invariant.

LEMMA CarriersFacts ==
    ASSUME CarriersInv
    PROVE  /\ file \in Files /\ dialogs \in Dialogs /\ requests \in Seq(Addition)
           /\ companies \in Fleet!Query(CompanyLists)
           /\ rosters \in [Codes -> [Fleet!Kinds -> Fleet!Query(RosterLists)]]
           /\ Len(requests) <= MaxPresses /\ upsets \in 0 .. MaxUpsets
           /\ Fleet!OnFile(file) \in CompanyLists
           /\ dialogs.adding # Nobody => dialogs.expanded # Nobody /\ ~dialogs.carrier
<1>1. /\ file \in Files /\ dialogs \in Dialogs /\ requests \in Seq(Addition)
      /\ companies \in Fleet!Query(CompanyLists)
      /\ rosters \in [Codes -> [Fleet!Kinds -> Fleet!Query(RosterLists)]]
      /\ Len(requests) <= MaxPresses /\ upsets \in 0 .. MaxUpsets
      /\ dialogs.adding # Nobody => dialogs.expanded # Nobody /\ ~dialogs.carrier
  BY DEF CarriersInv, Fleet!TypeOK, Files, Dialogs, CompanyLists, RosterLists
<1>. QED
  BY <1>1, ListedFacts DEF CompanyLists

\* The lists on file when a roster of a known carrier is read.
LEMMA NamesOnFile ==
    ASSUME CarriersInv, NEW c \in Codes, NEW k \in Fleet!Kinds, Known(c)
    PROVE  file[c][k] \in SUBSET Names /\ file[c][k] \in RosterLists
  BY CarriersFacts DEF Known, Files, RosterLists

FileGrows ==
    /\ file' \in Files
    /\ \A c \in Codes : Known(c) =>
          file'[c] # Nobody /\ \A k \in Fleet!Kinds : file[c][k] \subseteq file'[c][k]

Rosters ==
    /\ rosters' \in [Codes -> [Fleet!Kinds -> Fleet!Query(RosterLists)]]
    /\ \A c \in Codes, k \in Fleet!Kinds :
          /\ Turned(rosters[c][k], rosters'[c][k], file[c][k])
          /\ rosters'[c][k].stage = "asked" => Known(c)

Companies ==
    /\ companies' \in Fleet!Query(CompanyLists)
    /\ Turned(companies, companies', Fleet!OnFile(file))

Panels ==
    /\ dialogs' \in Dialogs
    /\ dialogs'.adding # Nobody => dialogs'.expanded # Nobody /\ ~dialogs'.carrier
    /\ dialogs'.expanded # Nobody => Known(dialogs'.expanded)

\* Request j goes on, is served, is refused or fails, lands, or is new.
Same(j) == /\ j \in DOMAIN requests
           /\ requests'[j].kind = requests[j].kind
           /\ requests'[j].carrier = requests[j].carrier
           /\ requests'[j].name = requests[j].name
Goes(j) ==
    \/ Same(j) /\ requests'[j].stage \in {requests[j].stage, "refused", "failed"}
    \/ Same(j) /\ requests'[j].stage = "done" /\ Filed(requests'[j], file')
    \/ /\ Same(j) /\ requests[j].stage = "done" /\ requests'[j].stage = "landed"
       /\ IF requests[j].kind = "carrier" THEN Reread(companies')
          ELSE Reread(rosters'[requests[j].carrier][requests[j].kind])
    \/ /\ requests'[j].stage = "asked"
       /\ requests'[j].kind # "carrier" =>
             Known(requests'[j].carrier) /\ requests'[j].name \in Names
Requests ==
    /\ requests' \in Seq(Addition) /\ Len(requests') <= MaxPresses
    /\ \A j \in DOMAIN requests' : Goes(j)

LEMMA AdditionFacts ==
    ASSUME NEW s \in Seq(Addition), NEW i \in DOMAIN s
    PROVE  /\ s[i] \in Addition /\ s[i].carrier \in Codes
           /\ s[i].kind \in Fleet!Kinds \cup {"carrier"}
           /\ s[i].kind # "carrier" => s[i].kind \in Fleet!Kinds
<1>1. s[i] \in Addition
  OBVIOUS
<1>. QED
  BY <1>1 DEF Addition

LEMMA CarriersKept ==
    ASSUME CarriersInv, FileGrows, Rosters, Companies, Panels, Requests,
           upsets' \in 0 .. MaxUpsets
    PROVE  CarriersInv'
<1>1. Fleet!TypeOK' /\ requests' \in Seq(Addition)
  <2>1. \A i \in DOMAIN requests' : requests'[i] \in Addition
    BY DEF Requests
  <2>. QED
    BY <2>1 DEF FileGrows, Rosters, Companies, Panels, Requests, Fleet!TypeOK, Files, Dialogs,
                CompanyLists, RosterLists, Addition
<1>2. RowsAreKnown'
  <2>1. \A c \in Codes : Known(c) => Known(c)'
    BY DEF FileGrows, Known
  <2>2. dialogs'.expanded # Nobody => file'[dialogs'.expanded] # Nobody
    <3>1. PICK e \in Codes \cup {Nobody} : e = dialogs'.expanded
      BY DEF Panels, Dialogs
    <3>. QED
      BY <3>1 DEF Panels, FileGrows
  <2>3. \A c \in Codes, k \in Fleet!Kinds : rosters'[c][k].stage = "asked" => Known(c)'
    BY <2>1 DEF Rosters
  <2>4. ASSUME NEW c \in Codes
        PROVE  /\ companies'.data # Nobody /\ companies'.data[c] # Nobody => Known(c)'
               /\ companies'.answer # Nobody /\ companies'.answer[c] # Nobody => Known(c)'
    <3>1. Fleet!OnFile(file)[c] # Nobody => Known(c)
      BY CarriersFacts, ListedFacts DEF Known
    <3>2. /\ companies.data # Nobody /\ companies.data[c] # Nobody => Known(c)
          /\ companies.answer # Nobody /\ companies.answer[c] # Nobody => Known(c)
      BY DEF CarriersInv, RowsAreKnown
    <3>3. Turned(companies, companies', Fleet!OnFile(file))
      BY DEF Companies
    <3>4. /\ companies'.data # Nobody /\ companies'.data[c] # Nobody => Known(c)
          /\ companies'.answer # Nobody /\ companies'.answer[c] # Nobody => Known(c)
      BY <3>1, <3>2, <3>3 DEF Turned
    <3>. QED
      BY <2>1, <3>4
  <2>. QED
    BY <2>2, <2>3, <2>4 DEF RowsAreKnown, Known
<1>3. ASSUME NEW j \in DOMAIN requests'
      PROVE  LET x == requests'[j] IN
             /\ x.kind # "carrier" => file'[x.carrier] # Nobody /\ x.name \in Names
             /\ x.stage \in {"done", "landed"} => Filed(x, file')
             /\ x.stage = "landed" =>
                   IF x.kind = "carrier" THEN ShowsCompany(companies', x.carrier)
                   ELSE ShowsName(rosters'[x.carrier][x.kind], x.name)
  <2>1. PICK x \in Addition : /\ x = requests'[j] /\ x.carrier \in Codes
                              /\ x.kind # "carrier" => x.kind \in Fleet!Kinds
    BY <1>3, AdditionFacts DEF Requests
  <2>2. Goes(j)
    BY <1>3 DEF Requests
  <2>3. CASE ~Same(j)
    BY <2>1, <2>2, <2>3 DEF Goes, FileGrows
  <2>4. CASE Same(j)
    <3>1. PICK y \in Addition : y = requests[j]
      BY <2>4, CarriersFacts, AdditionFacts DEF Same
    <3>2. y.kind = x.kind /\ y.carrier = x.carrier /\ y.name = x.name
      BY <2>1, <2>4, <3>1 DEF Same
    <3>3. /\ x.kind # "carrier" => Known(x.carrier) /\ x.name \in Names
          /\ y.stage \in {"done", "landed"} => Filed(x, file)
          /\ y.stage = "landed" =>
                IF x.kind = "carrier" THEN ShowsCompany(companies, x.carrier)
                ELSE ShowsName(rosters[x.carrier][x.kind], x.name)
      <4>1. /\ y.kind # "carrier" => Known(y.carrier) /\ y.name \in Names
            /\ y.stage \in {"done", "landed"} => Filed(y, file)
            /\ y.stage = "landed" =>
                  IF y.kind = "carrier" THEN ShowsCompany(companies, y.carrier)
                  ELSE ShowsName(rosters[y.carrier][y.kind], y.name)
        BY <2>4, <3>1 DEF CarriersInv, RequestsAreFiled, Same
      <4>. QED
        BY <3>2, <4>1 DEF Filed
    <3>4. Filed(x, file) => Filed(x, file')
      BY <2>1 DEF Filed, FileGrows, Known
    <3>5. x.kind # "carrier" => file'[x.carrier] # Nobody /\ x.name \in Names
      BY <2>1, <3>3 DEF FileGrows
    <3>6. \/ x.stage \in {y.stage, "refused", "failed", "asked"}
          \/ x.stage = "done" /\ Filed(x, file')
          \/ /\ y.stage = "done" /\ x.stage = "landed"
             /\ IF x.kind = "carrier" THEN Reread(companies')
                ELSE Reread(rosters'[x.carrier][x.kind])
      BY <2>1, <2>2, <3>1, <3>2 DEF Goes
    <3>7. x.stage \in {"done", "landed"} => Filed(x, file')
      BY <3>3, <3>4, <3>6
    <3>8. ASSUME x.stage = "landed", x.kind = "carrier"
          PROVE  ShowsCompany(companies', x.carrier)
      <4>1. CASE Reread(companies')
        BY <4>1 DEF Reread, ShowsCompany
      <4>2. CASE y.stage = "landed"
        <5>1. ShowsCompany(companies, x.carrier) /\ Known(x.carrier)
          BY <3>3, <3>8, <4>2 DEF Filed, Known
        <5>2. Fleet!OnFile(file)[x.carrier] # Nobody
          BY <2>1, <5>1, CarriersFacts, ListedFacts DEF Known
        <5>. QED
          BY <5>1, <5>2 DEF Companies, Turned, ShowsCompany
      <4>. QED
        BY <3>6, <3>8, <4>1, <4>2
    <3>9. ASSUME x.stage = "landed", x.kind # "carrier"
          PROVE  ShowsName(rosters'[x.carrier][x.kind], x.name)
      <4>1. CASE Reread(rosters'[x.carrier][x.kind])
        BY <4>1 DEF Reread, ShowsName
      <4>2. CASE y.stage = "landed"
        <5>1. /\ ShowsName(rosters[x.carrier][x.kind], x.name)
              /\ x.name \in file[x.carrier][x.kind]
          BY <3>3, <3>9, <4>2 DEF Filed
        <5>2. Turned(rosters[x.carrier][x.kind], rosters'[x.carrier][x.kind],
                     file[x.carrier][x.kind])
          BY <2>1, <3>9 DEF Rosters
        <5>. QED
          BY <5>1, <5>2 DEF Turned, ShowsName
      <4>. QED
        BY <3>6, <3>9, <4>1, <4>2
    <3>. QED
      BY <2>1, <3>5, <3>7, <3>8, <3>9
  <2>. QED
    BY <2>3, <2>4
<1>4. RequestsAreFiled'
  BY <1>3 DEF RequestsAreFiled, Known
<1>. QED
  BY <1>1, <1>2, <1>4 DEF CarriersInv

\* What stays as it is.
LEMMA FileSame == CarriersInv /\ file' = file => FileGrows
  BY CarriersFacts DEF FileGrows, Known

LEMMA RostersSame == CarriersInv /\ rosters' = rosters => Rosters
  BY CarriersFacts DEF Rosters, Turned, CarriersInv, RowsAreKnown

LEMMA CompaniesSame == CarriersInv /\ companies' = companies => Companies
  BY CarriersFacts DEF Companies, Turned

LEMMA RequestsSame == CarriersInv /\ requests' = requests => Requests
  BY CarriersFacts DEF Requests, Goes, Same

\* A dialog that is written into, and one that is closed.
LEMMA DialogFacts ==
    ASSUME CarriersInv, NEW p \in Dialogs,
           p.adding # Nobody => p.expanded # Nobody /\ ~p.carrier,
           p.expanded # Nobody => Known(p.expanded),
           dialogs' = p
    PROVE  Panels
  BY DEF Panels

LEMMA ClosedFacts ==
    ASSUME NEW p \in Dialogs
    PROVE  /\ Fleet!NoDialog(p) \in Dialogs /\ Fleet!NoDialog(p).adding = Nobody
           /\ Fleet!NoDialog(p).expanded = p.expanded
           /\ Fleet!NoDialog(p).carrier = p.carrier
<1>1. 0 \in 0 .. MaxPresses
  BY NumbersAssumption
<1>. QED
  BY <1>1 DEF Fleet!NoDialog, Dialogs

LEMMA PanelsSame ==
    ASSUME CarriersInv, dialogs' \in {dialogs, Fleet!NoDialog(dialogs)} PROVE Panels
  BY CarriersFacts, ClosedFacts DEF Panels, CarriersInv, RowsAreKnown

LEMMA RowLeavesFacts ==
    ASSUME CarriersInv, Fleet!RowLeaves PROVE Requests
<1>1. ASSUME NEW x \in Addition, NEW b
      PROVE  /\ [x EXCEPT !.here = @ /\ b] \in Addition
             /\ [x EXCEPT !.here = @ /\ b].kind = x.kind
             /\ [x EXCEPT !.here = @ /\ b].carrier = x.carrier
             /\ [x EXCEPT !.here = @ /\ b].name = x.name
             /\ [x EXCEPT !.here = @ /\ b].stage = x.stage
  <2>1. PICK h \in BOOLEAN : h <=> x.here /\ b
    OBVIOUS
  <2>2. [x EXCEPT !.here = @ /\ b] = [x EXCEPT !.here = h]
    BY <2>1 DEF Addition
  <2>. QED
    BY <2>2 DEF Addition
<1>2. \A i \in DOMAIN requests : requests[i] \in Addition
  BY CarriersFacts
<1>3. PICK n \in Nat : n = Len(requests) /\ DOMAIN requests = 1 .. n
  BY CarriersFacts
<1>4. requests' = [i \in 1 .. n |->
                     [requests[i] EXCEPT !.here = @ /\ requests[i].kind = "carrier"]]
  BY <1>3 DEF Fleet!RowLeaves
<1>5. requests' \in [1 .. n -> Addition]
  BY <1>1, <1>2, <1>3, <1>4
<1>6. requests' \in Seq(Addition) /\ Len(requests') = n /\ DOMAIN requests' = 1 .. n
  BY <1>5
<1>7. ASSUME NEW j \in DOMAIN requests' PROVE Goes(j)
  <2>1. PICK x \in Addition : x = requests[j] /\ j \in DOMAIN requests
    BY <1>2, <1>3, <1>6, <1>7
  <2>2. requests'[j] = [x EXCEPT !.here = @ /\ x.kind = "carrier"]
    BY <1>4, <1>6, <1>7, <2>1
  <2>. QED
    BY <1>1, <2>1, <2>2 DEF Goes, Same
<1>. QED
  BY <1>3, <1>6, <1>7, CarriersFacts DEF Requests

LEMMA MountsFacts ==
    ASSUME CarriersInv, NEW c \in Codes \cup {Nobody}, c # Nobody => Known(c),
           Fleet!RowMounts(c)
    PROVE  Rosters
<1>1. CASE c = Nobody
  BY <1>1, RostersSame DEF Fleet!RowMounts
<1>2. CASE c # Nobody
  <2>1. rosters' = [rosters EXCEPT ![c] = [k \in Fleet!Kinds |-> Fleet!Mounted(rosters[c][k])]]
    BY <1>2 DEF Fleet!RowMounts
  <2>2. \A k \in Fleet!Kinds :
          /\ Fleet!Mounted(rosters[c][k]) \in Fleet!Query(RosterLists)
          /\ Turned(rosters[c][k], Fleet!Mounted(rosters[c][k]), file[c][k])
    BY <1>2, CarriersFacts, MountedFacts
  <2>3. rosters' \in [Codes -> [Fleet!Kinds -> Fleet!Query(RosterLists)]]
    BY <1>2, <2>1, <2>2, CarriersFacts
  <2>4. \A d \in Codes, k \in Fleet!Kinds :
          rosters'[d][k] = IF d = c THEN Fleet!Mounted(rosters[c][k]) ELSE rosters[d][k]
    BY <1>2, <2>1, CarriersFacts
  <2>. QED
    BY <1>2, <2>2, <2>3, <2>4 DEF Rosters, Turned, CarriersInv, RowsAreKnown
<1>. QED
  BY <1>1, <1>2

\* One list of one carrier that turns.
LEMMA RosterFacts ==
    ASSUME CarriersInv, NEW c \in Codes, NEW k \in Fleet!Kinds, Known(c),
           NEW r \in Fleet!Query(RosterLists), Turned(rosters[c][k], r, file[c][k]),
           rosters' = [rosters EXCEPT ![c][k] = r]
    PROVE  Rosters
<1>1. rosters' \in [Codes -> [Fleet!Kinds -> Fleet!Query(RosterLists)]]
  BY CarriersFacts
<1>2. \A d \in Codes, j \in Fleet!Kinds :
        rosters'[d][j] = IF d = c /\ j = k THEN r ELSE rosters[d][j]
  BY CarriersFacts
<1>. QED
  BY <1>1, <1>2 DEF Rosters, Turned, CarriersInv, RowsAreKnown

-----------------------------------------------------------------------------
\* The steps.

LEMMA ShownIsKnown ==
    ASSUME CarriersInv, NEW c \in Fleet!Items PROVE c \in Codes /\ Known(c)
  BY DEF Fleet!Items, CarriersInv, RowsAreKnown

LEMMA CompaniesQueryStep ==
    ASSUME CarriersInv, Fleet!CompaniesQuery PROVE CarriersInv'
<1>1. FileGrows
  BY FileSame DEF Fleet!CompaniesQuery
<1>2. Companies /\ upsets' \in 0 .. MaxUpsets
  <2>1. PICK r : Fleet!Moved(companies, TRUE, Fleet!OnFile(file), r) /\ companies' = r
    BY DEF Fleet!CompaniesQuery
  <2>. QED
    BY <2>1, CarriersFacts, MovedFacts DEF Companies
<1>3. Panels
  BY PanelsSame DEF Fleet!CompaniesQuery
<1>4. Requests
  BY RowLeavesFacts, RequestsSame DEF Fleet!CompaniesQuery
<1>5. Rosters
  <2>1. PICK e \in Codes \cup {Nobody} : e = dialogs.expanded /\ (e # Nobody => Known(e))
    BY CarriersFacts DEF Dialogs, CarriersInv, RowsAreKnown
  <2>. QED
    BY <2>1, MountsFacts, RostersSame DEF Fleet!CompaniesQuery
<1>. QED
  BY <1>1, <1>2, <1>3, <1>4, <1>5, CarriersKept

LEMMA FleetQueryStep ==
    ASSUME CarriersInv, NEW c \in Codes, NEW k \in Fleet!Kinds, Fleet!FleetQuery(c, k)
    PROVE  CarriersInv'
<1>1. FileGrows /\ Panels /\ Companies /\ Requests
  BY FileSame, PanelsSame, CompaniesSame, RequestsSame DEF Fleet!FleetQuery
<1>2. Known(c)
  BY ShownIsKnown DEF Fleet!FleetQuery, Fleet!Open, CarriersInv, RowsAreKnown
<1>3. PICK q \in Fleet!Query(RosterLists) : q = rosters[c][k]
  BY CarriersFacts
<1>4. PICK r : /\ Fleet!Moved(q, Fleet!Open(c), file[c][k], r)
               /\ rosters' = [rosters EXCEPT ![c][k] = r]
  BY <1>3 DEF Fleet!FleetQuery
<1>5. /\ r \in Fleet!Query(RosterLists) /\ Turned(q, r, file[c][k])
      /\ upsets' \in 0 .. MaxUpsets
  BY <1>2, <1>4, NamesOnFile, CarriersFacts, MovedFacts
<1>6. Rosters
  BY <1>2, <1>3, <1>4, <1>5, RosterFacts
<1>. QED
  BY <1>1, <1>5, <1>6, CarriersKept

\* The hand at the page.
LEMMA HandsStep ==
    ASSUME CarriersInv,
           \/ \E c \in Codes : Fleet!Toggle(c) \/ Fleet!TypeCode(c)
           \/ \E k \in Fleet!Kinds : Fleet!OpenDialog(k)
           \/ \E n \in Names : Fleet!TypeName(n)
           \/ Fleet!CloseDialog \/ Fleet!OpenCarrier \/ Fleet!CloseCarrier
    PROVE  CarriersInv'
<1>1. ASSUME NEW p \in Dialogs, Fleet!Types(p),
             p.adding # Nobody => p.expanded # Nobody /\ ~p.carrier,
             p.expanded = dialogs.expanded
      PROVE  CarriersInv'
  <2>1. /\ FileGrows /\ Companies /\ Requests /\ Rosters
        /\ dialogs' = p /\ upsets' \in 0 .. MaxUpsets
    BY <1>1, FileSame, CompaniesSame, RequestsSame, RostersSame, CarriersFacts DEF Fleet!Types
  <2>2. p.expanded # Nobody => Known(p.expanded)
    BY <1>1 DEF CarriersInv, RowsAreKnown
  <2>3. Panels
    BY <1>1, <2>1, <2>2, DialogFacts
  <2>. QED
    BY <2>1, <2>3, CarriersKept
<1>2. PICK d \in Dialogs : /\ d = dialogs
                           /\ d.adding # Nobody => d.expanded # Nobody /\ ~d.carrier
  BY CarriersFacts
<1>3. ASSUME NEW c \in Codes, Fleet!Toggle(c) PROVE CarriersInv'
  <2>1. PICK e \in Codes \cup {Nobody} : Fleet!Expands(e) /\ (e # Nobody => Known(e))
    BY <1>3, ShownIsKnown DEF Fleet!Toggle
  <2>2. /\ FileGrows /\ Companies /\ upsets' \in 0 .. MaxUpsets
        /\ Fleet!RowLeaves /\ Fleet!RowMounts(e)
        /\ dialogs' = Fleet!NoDialog([d EXCEPT !.expanded = e])
    BY <1>2, <2>1, FileSame, CompaniesSame, CarriersFacts DEF Fleet!Expands
  <2>3. [d EXCEPT !.expanded = e] \in Dialogs /\ [d EXCEPT !.expanded = e].expanded = e
    BY <1>2 DEF Dialogs
  <2>4. Panels
    BY <2>1, <2>2, <2>3, ClosedFacts DEF Panels
  <2>. QED
    BY <2>1, <2>2, <2>4, RowLeavesFacts, MountsFacts, CarriersKept
<1>4. ASSUME NEW c \in Codes, Fleet!TypeCode(c) PROVE CarriersInv'
  <2>1. /\ [d EXCEPT !.code = c] \in Dialogs /\ [d EXCEPT !.code = c].expanded = d.expanded
        /\ [d EXCEPT !.code = c].adding = d.adding /\ [d EXCEPT !.code = c].carrier = d.carrier
    BY <1>2 DEF Dialogs
  <2>2. Fleet!Types([d EXCEPT !.code = c])
    BY <1>2, <1>4 DEF Fleet!TypeCode
  <2>. QED
    BY <1>1, <1>2, <2>1, <2>2
<1>5. ASSUME NEW k \in Fleet!Kinds, Fleet!OpenDialog(k) PROVE CarriersInv'
  <2>1. d.expanded # Nobody /\ ~d.carrier
    BY <1>2, <1>5, ShownIsKnown, OutsidersAssumption
       DEF Fleet!OpenDialog, Fleet!Open, Fleet!Modal
  <2>2. /\ [d EXCEPT !.adding = k] \in Dialogs /\ [d EXCEPT !.adding = k].expanded = d.expanded
        /\ [d EXCEPT !.adding = k].carrier = d.carrier
    BY <1>2 DEF Dialogs
  <2>3. Fleet!Types([d EXCEPT !.adding = k])
    BY <1>2, <1>5 DEF Fleet!OpenDialog
  <2>. QED
    BY <1>1, <1>2, <2>1, <2>2, <2>3
<1>6. ASSUME NEW n \in Names, Fleet!TypeName(n) PROVE CarriersInv'
  <2>1. /\ [d EXCEPT !.name = n] \in Dialogs /\ [d EXCEPT !.name = n].expanded = d.expanded
        /\ [d EXCEPT !.name = n].adding = d.adding /\ [d EXCEPT !.name = n].carrier = d.carrier
    BY <1>2 DEF Dialogs
  <2>2. Fleet!Types([d EXCEPT !.name = n])
    BY <1>2, <1>6 DEF Fleet!TypeName
  <2>. QED
    BY <1>1, <1>2, <2>1, <2>2
<1>7. ASSUME Fleet!CloseDialog PROVE CarriersInv'
  <2>1. Fleet!Types(Fleet!NoDialog(d))
    BY <1>2, <1>7 DEF Fleet!CloseDialog
  <2>. QED
    BY <1>1, <1>2, <2>1, ClosedFacts
<1>8. ASSUME NEW b \in BOOLEAN, Fleet!Types([d EXCEPT !.carrier = b]), b => d.adding = Nobody
      PROVE  CarriersInv'
  <2>1. /\ [d EXCEPT !.carrier = b] \in Dialogs
        /\ [d EXCEPT !.carrier = b].expanded = d.expanded
        /\ [d EXCEPT !.carrier = b].adding = d.adding /\ [d EXCEPT !.carrier = b].carrier = b
    BY <1>2 DEF Dialogs
  <2>. QED
    BY <1>1, <1>2, <1>8, <2>1
<1>9. CASE Fleet!OpenCarrier \/ Fleet!CloseCarrier
  BY <1>2, <1>8, <1>9 DEF Fleet!OpenCarrier, Fleet!CloseCarrier, Fleet!Modal
<1>. QED
  BY <1>3, <1>4, <1>5, <1>6, <1>7, <1>9

\* A request that is made.
LEMMA MadeFacts ==
    ASSUME CarriersInv, NEW k \in Fleet!Kinds \cup {"carrier"}, NEW c \in Codes,
           NEW n \in Names \cup {Nobody}, Fleet!Request(k, c, n),
           k # "carrier" => Known(c) /\ n \in Names
    PROVE  /\ FileGrows /\ Companies /\ Rosters /\ Requests
           /\ upsets' \in 0 .. MaxUpsets /\ Len(requests') \in 0 .. MaxPresses
<1>. DEFINE x == [kind |-> k, carrier |-> c, name |-> n, here |-> TRUE, stage |-> "asked"]
<1>1. /\ requests' = Append(requests, x) /\ Len(requests) < MaxPresses
      /\ UNCHANGED <<file, companies, rosters, upsets>>
  BY DEF Fleet!Request
<1>2. /\ x \in Addition /\ x.kind = k /\ x.carrier = c /\ x.name = n /\ x.stage = "asked"
  BY DEF Addition
<1>. HIDE DEF x
<1>3. PICK m \in Nat : m = Len(requests) /\ DOMAIN requests = 1 .. m
  BY CarriersFacts
<1>4. /\ requests' \in Seq(Addition) /\ Len(requests') = m + 1 /\ DOMAIN requests' = 1 .. m + 1
      /\ requests'[m + 1] = x /\ \A i \in 1 .. m : requests'[i] = requests[i]
  BY <1>1, <1>2, <1>3, CarriersFacts
<1>5. m + 1 \in 0 .. MaxPresses
  BY <1>1, <1>3, NumbersAssumption
<1>6. ASSUME NEW j \in DOMAIN requests' PROVE Goes(j)
  <2>1. CASE j = m + 1
    BY <1>2, <1>4, <2>1 DEF Goes
  <2>2. CASE j # m + 1
    <3>1. j \in 1 .. m
      BY <1>3, <1>4, <1>6, <2>2
    <3>. QED
      BY <1>3, <1>4, <3>1 DEF Goes, Same
  <2>. QED
    BY <2>1, <2>2
<1>7. Requests
  BY <1>4, <1>5, <1>6, NumbersAssumption DEF Requests
<1>. QED
  BY <1>1, <1>4, <1>5, <1>7, FileSame, CompaniesSame, RostersSame, CarriersFacts

LEMMA AddStep ==
    ASSUME CarriersInv, Fleet!Add \/ Fleet!AddCarrier PROVE CarriersInv'
<1>1. PICK d \in Dialogs : /\ d = dialogs
                           /\ d.adding # Nobody => d.expanded # Nobody /\ ~d.carrier
                           /\ d.expanded # Nobody => Known(d.expanded)
  BY CarriersFacts DEF CarriersInv, RowsAreKnown
<1>2. CASE Fleet!Add
  <2>1. PICK k \in Fleet!Kinds, c \in Codes, n \in Names :
          /\ k = d.adding /\ c = d.expanded /\ n = d.name
          /\ Fleet!Request(k, c, n) /\ dialogs' = [d EXCEPT !.call = Len(requests')]
    BY <1>1, <1>2 DEF Fleet!Add, Dialogs
  <2>2. /\ FileGrows /\ Companies /\ Rosters /\ Requests
        /\ upsets' \in 0 .. MaxUpsets /\ Len(requests') \in 0 .. MaxPresses
    <3>1. Known(c) /\ k \in Fleet!Kinds \cup {"carrier"} /\ n \in Names \cup {Nobody}
      <4>1. c = d.expanded /\ d.expanded # Nobody
        BY <1>1, <1>2, <2>1 DEF Fleet!Add
      <4>. QED
        BY <1>1, <4>1
    <3>. QED
      BY <2>1, <3>1, MadeFacts
  <2>3. PICK l \in 0 .. MaxPresses : l = Len(requests')
    BY <2>2
  <2>4. /\ [d EXCEPT !.call = l] \in Dialogs /\ [d EXCEPT !.call = l].adding = d.adding
        /\ [d EXCEPT !.call = l].expanded = d.expanded
        /\ [d EXCEPT !.call = l].carrier = d.carrier
    BY <1>1 DEF Dialogs
  <2>5. Panels
    BY <1>1, <2>1, <2>3, <2>4, DialogFacts
  <2>. QED
    BY <2>2, <2>5, CarriersKept
<1>3. CASE Fleet!AddCarrier
  <2>1. PICK c \in Codes : Fleet!Request("carrier", c, Nobody) /\ dialogs' = dialogs
    BY <1>1, <1>3 DEF Fleet!AddCarrier, Dialogs
  <2>2. /\ FileGrows /\ Companies /\ Rosters /\ Requests
        /\ upsets' \in 0 .. MaxUpsets
    BY <2>1, MadeFacts
  <2>. QED
    BY <2>1, <2>2, PanelsSame, CarriersKept
<1>. QED
  BY <1>2, <1>3

\* One request that moves, the others as they are.
LEMMA MoveFacts ==
    ASSUME CarriersInv, NEW i \in DOMAIN requests,
           NEW s \in {"done", "refused", "landed", "failed"}, Fleet!Moves(i, s)
    PROVE  /\ requests' \in Seq(Addition) /\ Len(requests') <= MaxPresses
           /\ DOMAIN requests' = DOMAIN requests
           /\ Same(i) /\ requests'[i].stage = s
           /\ \A j \in DOMAIN requests : j # i => Goes(j)
<1>1. PICK n \in Nat : n = Len(requests) /\ DOMAIN requests = 1 .. n
  BY CarriersFacts
<1>2. PICK x \in Addition : x = requests[i]
  BY CarriersFacts, AdditionFacts
<1>3. requests' = [requests EXCEPT ![i] = [x EXCEPT !.stage = s]]
  BY <1>2 DEF Fleet!Moves
<1>4. /\ [x EXCEPT !.stage = s] \in Addition /\ [x EXCEPT !.stage = s].stage = s
      /\ [x EXCEPT !.stage = s].kind = x.kind /\ [x EXCEPT !.stage = s].carrier = x.carrier
      /\ [x EXCEPT !.stage = s].name = x.name
  BY <1>2 DEF Addition
<1>. DEFINE y == [x EXCEPT !.stage = s]
<1>. HIDE DEF y
<1>5. requests' = [requests EXCEPT ![i] = y] /\ y \in Addition
  BY <1>3, <1>4 DEF y
<1>6. /\ requests' \in Seq(Addition) /\ Len(requests') = n /\ DOMAIN requests' = 1 .. n
      /\ requests'[i] = y /\ \A j \in 1 .. n : j # i => requests'[j] = requests[j]
  BY <1>1, <1>5, CarriersFacts
<1>7. Same(i) /\ requests'[i].stage = s
  BY <1>2, <1>4, <1>6 DEF Same, y
<1>. QED
  BY <1>1, <1>6, <1>7, CarriersFacts DEF Goes, Same

LEMMA ServeStep ==
    ASSUME CarriersInv, NEW i \in DOMAIN requests, Fleet!Serve(i) PROVE CarriersInv'
<1>1. PICK x \in Addition : /\ x = requests[i] /\ x.carrier \in Codes
                            /\ x.kind # "carrier" => x.kind \in Fleet!Kinds
  BY CarriersFacts, AdditionFacts
<1>2. x.kind # "carrier" => Known(x.carrier) /\ x.name \in Names
  BY <1>1 DEF CarriersInv, RequestsAreFiled
<1>3. Panels /\ upsets' \in 0 .. MaxUpsets
  BY PanelsSame, CarriersFacts DEF Fleet!Serve
<1>4. CASE Fleet!Taken(x)
  <2>1. UNCHANGED <<file, companies, rosters>> /\ Fleet!Moves(i, "refused")
    BY <1>1, <1>4 DEF Fleet!Serve
  <2>2. Requests
    BY <2>1, MoveFacts DEF Requests, Goes
  <2>. QED
    BY <1>3, <2>1, <2>2, FileSame, CompaniesSame, RostersSame, CarriersKept
<1>5. CASE ~Fleet!Taken(x)
  <2>1. Fleet!Insert(x) /\ Fleet!Moves(i, "done") /\ Fleet!Overtakes(x)
    BY <1>1, <1>5 DEF Fleet!Serve
  <2>2. FileGrows /\ Filed(x, file')
    <3>1. CASE x.kind = "carrier"
      <4>1. file' = [file EXCEPT ![x.carrier] = [k \in Fleet!Kinds |-> {}]]
            /\ ~Known(x.carrier)
        BY <1>5, <2>1, <3>1 DEF Fleet!Insert, Fleet!Taken, Known
      <4>2. [k \in Fleet!Kinds |-> {}] \in [Fleet!Kinds -> SUBSET Names]
        OBVIOUS
      <4>3. PICK e \in [Fleet!Kinds -> SUBSET Names] : e = [k \in Fleet!Kinds |-> {}]
        BY <4>2
      <4>4. e # Nobody
        BY OutsidersAssumption
      <4>5. file' = [file EXCEPT ![x.carrier] = e]
        BY <4>1, <4>3
      <4>6. /\ file' \in Files
            /\ \A c \in Codes : file'[c] = IF c = x.carrier THEN e ELSE file[c]
        BY <1>1, <4>5, CarriersFacts DEF Files
      <4>. QED
        BY <1>1, <3>1, <4>1, <4>4, <4>6 DEF FileGrows, Filed, Known
    <3>2. CASE x.kind # "carrier"
      <4>1. PICK g \in [Fleet!Kinds -> SUBSET Names] : g = file[x.carrier]
        BY <1>1, <1>2, <3>2, CarriersFacts DEF Known, Files
      <4>. DEFINE h == [g EXCEPT ![x.kind] = @ \cup {x.name}]
      <4>2. /\ h \in [Fleet!Kinds -> SUBSET Names] /\ x.name \in h[x.kind]
            /\ \A k \in Fleet!Kinds : g[k] \subseteq h[k]
        BY <1>1, <1>2, <3>2
      <4>3. file' = [file EXCEPT ![x.carrier] = h]
        BY <1>1, <2>1, <3>2, <4>1, CarriersFacts DEF Fleet!Insert, Files
      <4>. HIDE DEF h
      <4>4. h # Nobody
        BY <4>2, OutsidersAssumption
      <4>. QED
        BY <1>1, <4>1, <4>2, <4>3, <4>4, CarriersFacts DEF FileGrows, Filed, Known, Files
    <3>. QED
      BY <3>1, <3>2
  <2>3. Companies
    BY <2>1, CarriersFacts, ListAnswerFacts DEF Fleet!Overtakes, Companies
  <2>4. Rosters
    <3>1. CASE x.kind = "carrier"
      BY <2>1, <3>1, RostersSame DEF Fleet!Overtakes
    <3>2. CASE x.kind # "carrier"
      <4>1. PICK q \in Fleet!Query(RosterLists) : q = rosters[x.carrier][x.kind]
        BY <1>1, <3>2, CarriersFacts
      <4>2. PICK r : /\ r \in Fleet!Answered(q, file[x.carrier][x.kind])
                     /\ rosters' = [rosters EXCEPT ![x.carrier][x.kind] = r]
        BY <2>1, <3>2, <4>1 DEF Fleet!Overtakes
      <4>3. /\ r \in Fleet!Query(RosterLists)
            /\ Turned(rosters[x.carrier][x.kind], r, file[x.carrier][x.kind])
        BY <1>1, <1>2, <3>2, <4>1, <4>2, NamesOnFile, ListAnswerFacts
      <4>. QED
        BY <1>1, <1>2, <3>2, <4>2, <4>3, RosterFacts
    <3>. QED
      BY <3>1, <3>2
  <2>5. Requests
    <3>1. Goes(i)
      <4>1. Same(i) /\ requests'[i].stage = "done"
        BY <2>1, MoveFacts
      <4>2. Filed(requests'[i], file')
        BY <1>1, <2>2, <4>1 DEF Filed, Same
      <4>. QED
        BY <4>1, <4>2 DEF Goes
    <3>. QED
      BY <2>1, <3>1, MoveFacts DEF Requests
  <2>. QED
    BY <1>3, <2>2, <2>3, <2>4, <2>5, CarriersKept
<1>. QED
  BY <1>4, <1>5

LEMMA LandsStep ==
    ASSUME CarriersInv, NEW i \in DOMAIN requests, Fleet!Lands(i) PROVE CarriersInv'
<1>1. PICK x \in Addition : /\ x = requests[i] /\ x.carrier \in Codes
                            /\ x.kind # "carrier" => x.kind \in Fleet!Kinds
  BY CarriersFacts, AdditionFacts
<1>2. x.kind # "carrier" => Known(x.carrier) /\ x.name \in Names
  BY <1>1 DEF CarriersInv, RequestsAreFiled
<1>3. /\ FileGrows /\ upsets' \in 0 .. MaxUpsets
      /\ x.stage = "done" /\ Fleet!Moves(i, "landed")
  BY <1>1, FileSame, CarriersFacts DEF Fleet!Lands
<1>4. Companies /\ Reread(companies')
  <2>1. companies' = Fleet!Ask(companies)
    BY DEF Fleet!Lands
  <2>. QED
    BY <2>1, CarriersFacts, AskFacts DEF Companies, Turned, Reread
<1>5. Rosters /\ (x.kind # "carrier" => Reread(rosters'[x.carrier][x.kind]))
  <2>1. CASE x.kind = "carrier"
    BY <1>1, <2>1, RostersSame DEF Fleet!Lands, Fleet!Reread
  <2>2. CASE x.kind # "carrier"
    <3>1. PICK q \in Fleet!Query(RosterLists) : q = rosters[x.carrier][x.kind]
      BY <1>1, <2>2, CarriersFacts
    <3>2. PICK r : /\ r = Fleet!Invalidated(q, Fleet!Open(x.carrier))
                   /\ rosters' = [rosters EXCEPT ![x.carrier][x.kind] = r]
      BY <1>1, <2>2, <3>1 DEF Fleet!Lands, Fleet!Reread
    <3>3. /\ r \in Fleet!Query(RosterLists) /\ Reread(r) /\ r.data = q.data
          /\ r.stage \in {"idle", "asked"}
      BY <3>2, InvalidatedFacts
    <3>4. Turned(rosters[x.carrier][x.kind], r, file[x.carrier][x.kind])
      BY <3>1, <3>3 DEF Turned, Reread
    <3>5. Rosters
      BY <1>1, <1>2, <2>2, <3>2, <3>3, <3>4, RosterFacts
    <3>6. rosters'[x.carrier][x.kind] = r
      BY <1>1, <2>2, <3>2, CarriersFacts
    <3>. QED
      BY <3>3, <3>5, <3>6
  <2>. QED
    BY <2>1, <2>2
<1>6. Panels
  <2>1. CASE x.kind = "carrier"
    <3>1. PICK d \in Dialogs : /\ d = dialogs
                               /\ d.adding # Nobody => d.expanded # Nobody /\ ~d.carrier
                               /\ d.expanded # Nobody => Known(d.expanded)
      BY CarriersFacts DEF CarriersInv, RowsAreKnown
    <3>2. dialogs' = [d EXCEPT !.carrier = FALSE, !.code = Nobody]
      BY <1>1, <2>1, <3>1 DEF Fleet!Lands
    <3>. DEFINE e == [d EXCEPT !.carrier = FALSE, !.code = Nobody]
    <3>3. e \in Dialogs /\ e.adding = d.adding /\ e.expanded = d.expanded /\ ~e.carrier
      BY <3>1 DEF Dialogs
    <3>. HIDE DEF e
    <3>4. dialogs' = e
      BY <3>2 DEF e
    <3>. QED
      BY <3>1, <3>3, <3>4, DialogFacts
  <2>2. CASE x.kind # "carrier"
    <3>1. dialogs' \in {dialogs, Fleet!NoDialog(dialogs)}
      BY <1>1, <2>2 DEF Fleet!Lands
    <3>. QED
      BY <3>1, PanelsSame
  <2>. QED
    BY <2>1, <2>2
<1>7. Requests
  <2>1. Goes(i)
    BY <1>1, <1>3, <1>4, <1>5, MoveFacts DEF Goes
  <2>. QED
    BY <1>3, <2>1, MoveFacts DEF Requests
<1>. QED
  BY <1>3, <1>4, <1>5, <1>6, <1>7, CarriersKept

LEMMA FailsStep ==
    ASSUME CarriersInv, NEW i \in DOMAIN requests, Fleet!CallFails(i) PROVE CarriersInv'
<1>1. /\ UNCHANGED <<file, dialogs, companies, rosters>> /\ Fleet!Moves(i, "failed")
      /\ upsets' \in 0 .. MaxUpsets
  BY CarriersFacts, NumbersAssumption DEF Fleet!CallFails, Fleet!Upset
<1>2. Requests
  BY <1>1, MoveFacts DEF Requests, Goes
<1>. QED
  BY <1>1, <1>2, FileSame, PanelsSame, CompaniesSame, RostersSame, CarriersKept

LEMMA CarriersInitHolds == Fleet!Init => CarriersInv
<1>. SUFFICES ASSUME Fleet!Init PROVE CarriersInv
  OBVIOUS
<1>. DEFINE Plain == [data : {Nobody}, stage : {"idle"}, old : {FALSE}, answer : {Nobody}]
<1>1. PICK u \in Plain : u = Fleet!Unread
  BY DEF Fleet!Unread
<1>2. u \in Fleet!Query(RosterLists) /\ u.stage = "idle"
  <2>1. Nobody \in RosterLists
    BY DEF RosterLists
  <2>. QED
    BY <1>1, <2>1 DEF Fleet!Query
<1>3. /\ companies \in Fleet!Query(CompanyLists)
      /\ companies.data = Nobody /\ companies.answer = Nobody
  <2>1. companies = [u EXCEPT !.stage = "asked"]
    BY <1>1 DEF Fleet!Init
  <2>. QED
    BY <1>1, <2>1 DEF Fleet!Query, CompanyLists
<1>4. \A c \in Codes, k \in Fleet!Kinds : rosters[c][k] = u
  BY <1>1 DEF Fleet!Init
<1>5. rosters \in [Codes -> [Fleet!Kinds -> Fleet!Query(RosterLists)]]
  <2>1. rosters = [c \in Codes |-> [k \in Fleet!Kinds |-> u]]
    BY <1>1 DEF Fleet!Init
  <2>. QED
    BY <1>2, <2>1
<1>6. file \in Files
  BY DEF Fleet!Init, Files
<1>7. dialogs \in Dialogs /\ dialogs.expanded = Nobody /\ dialogs.adding = Nobody
  <2>1. 0 \in 0 .. MaxPresses
    BY NumbersAssumption
  <2>. QED
    BY <2>1 DEF Fleet!Init, Dialogs
<1>8. /\ requests = <<>> /\ requests \in Seq(Addition) /\ Len(requests) = 0
      /\ DOMAIN requests = {} /\ upsets \in 0 .. MaxUpsets
  BY NumbersAssumption DEF Fleet!Init
<1>9. Fleet!TypeOK
  <2>1. 0 <= MaxPresses
    BY NumbersAssumption
  <2>. QED
    BY <1>3, <1>5, <1>6, <1>7, <1>8, <2>1
       DEF Fleet!TypeOK, Files, Dialogs, CompanyLists, RosterLists
<1>10. RowsAreKnown
  BY <1>2, <1>3, <1>4, <1>7 DEF RowsAreKnown
<1>11. RequestsAreFiled
  BY <1>8 DEF RequestsAreFiled
<1>. QED
  BY <1>8, <1>9, <1>10, <1>11 DEF CarriersInv

LEMMA CarriersStep == CarriersInv /\ CarriersNext => CarriersInv'
<1>. SUFFICES ASSUME CarriersInv, CarriersNext PROVE CarriersInv'
  OBVIOUS
<1>1. CASE UNCHANGED carriersVars
  BY <1>1, FileSame, PanelsSame, CompaniesSame, RostersSame, RequestsSame, CarriersFacts,
     CarriersKept DEF carriersVars
<1>. QED
  BY <1>1, CompaniesQueryStep, FleetQueryStep, HandsStep, AddStep, ServeStep, LandsStep, FailsStep
     DEF CarriersNext, Fleet!Next

LEMMA CarriersHold == CarriersInv => Fleet!AddedIsListed
<1>. SUFFICES ASSUME CarriersInv, NEW i \in DOMAIN requests, requests[i].stage = "landed"
     PROVE  IF requests[i].kind = "carrier"
            THEN companies.stage = "idle" /\ ~companies.old
                   => companies.data[requests[i].carrier] # Nobody
            ELSE LET q == rosters[requests[i].carrier][requests[i].kind] IN
                 q.stage = "idle" /\ ~q.old /\ q.data # Nobody => requests[i].name \in q.data
  BY DEF Fleet!AddedIsListed
<1>. QED
  BY DEF CarriersInv, RequestsAreFiled, ShowsCompany, ShowsName

-----------------------------------------------------------------------------
(* The parts together.                                                      *)

\* Each behaviour is of one part, whose invariant it keeps.
ShipmentsInv ==
    /\ scene \in Scenes /\ TypeOK
    /\ scene = "wizard" => WizardInv
    /\ scene = "page" => PageInv
    /\ scene = "share" => ShareInv
    /\ scene = "carriers" => CarriersInv
    /\ scene = "tokens" => TokensInv

LEMMA ShipmentsInitHolds == ShipmentsInit => ShipmentsInv
<1>1. Init => TypeOK
  BY InitHolds DEF IInv
<1>. QED
  BY <1>1, WizardInitHolds, PageInitHolds, ShareInitHolds, CarriersInitHolds,
     TokensInitHolds
     DEF ShipmentsInit, ShipmentsInv

\* A step is one of the part the behaviour is of, and of no other.
LEMMA SceneStep ==
    ASSUME scene \in Scenes, [ShipmentsNext]_ShipmentsVars
    PROVE  /\ scene' = scene
           /\ [Next]_lifeVars
           /\ scene = "wizard" => WizardNext
           /\ scene = "page" => PageNext
           /\ scene = "share" => ShareNext
           /\ scene = "carriers" => CarriersNext
           /\ scene = "tokens" => TokensNext
<1>. USE DEF ShipmentsVars
<1>1. CASE UNCHANGED ShipmentsVars
  BY <1>1 DEF WizardNext, PageNext, ShareNext, CarriersNext, TokensNext
<1>2. CASE scene = "lifecycle" /\ Next /\ UNCHANGED scene
  BY <1>2
<1>3. CASE scene = "wizard" /\ Wizard!Next /\ UNCHANGED <<scene, lifeVars>>
  BY <1>3 DEF WizardNext
<1>4. CASE scene = "page" /\ Page!Next /\ UNCHANGED <<scene, lifeVars>>
  BY <1>4 DEF PageNext
<1>5. CASE scene = "share" /\ Share!Next /\ UNCHANGED <<scene, lifeVars>>
  BY <1>5 DEF ShareNext
<1>6. CASE scene = "carriers" /\ Fleet!Next /\ UNCHANGED <<scene, lifeVars>>
  BY <1>6 DEF CarriersNext
<1>7. CASE scene = "tokens" /\ Tokens!Next /\ UNCHANGED <<scene, lifeVars>>
  BY <1>7 DEF TokensNext
<1>. QED
  BY <1>1, <1>2, <1>3, <1>4, <1>5, <1>6, <1>7 DEF ShipmentsNext

LEMMA ShipmentsStep ==
    ShipmentsInv /\ [ShipmentsNext]_ShipmentsVars => ShipmentsInv'
<1>. SUFFICES ASSUME ShipmentsInv, [ShipmentsNext]_ShipmentsVars PROVE ShipmentsInv'
  OBVIOUS
<1>1. /\ scene' = scene /\ [Next]_lifeVars
      /\ scene = "wizard" => WizardNext
      /\ scene = "page" => PageNext
      /\ scene = "share" => ShareNext
      /\ scene = "carriers" => CarriersNext
      /\ scene = "tokens" => TokensNext
  BY SceneStep DEF ShipmentsInv
<1>2. TypeOK'
  BY <1>1, TypeStep DEF ShipmentsInv
<1>. QED
  BY <1>1, <1>2, WizardStep, PageStep, ShareStep, CarriersStep, TokensStep
     DEF ShipmentsInv

LEMMA ShipmentsHold ==
    ShipmentsInv => ShipmentsTypeOK /\ ShownIsSo /\ TokensAreUsedOnce
<1>. SUFFICES ASSUME ShipmentsInv PROVE ShipmentsTypeOK /\ ShownIsSo /\ TokensAreUsedOnce
  OBVIOUS
<1>1. ShipmentsTypeOK
  BY DEF ShipmentsInv, ShipmentsTypeOK, WizardInv, PageInv, PageTypes, ShareInv,
         CarriersInv, TokensInv
<1>2. ShownIsSo
  BY PageHolds, CarriersHold, ShareHolds DEF ShipmentsInv, ShownIsSo
<1>3. TokensAreUsedOnce
  BY TokensHold DEF ShipmentsInv, TokensAreUsedOnce
<1>. QED
  BY <1>1, <1>2, <1>3

LEMMA StepUndoesNothing ==
    ShipmentsInv /\ [ShipmentsNext]_ShipmentsVars => UndoesNothing
<1>. SUFFICES ASSUME ShipmentsInv, [ShipmentsNext]_ShipmentsVars PROVE UndoesNothing
  OBVIOUS
<1>1. scene \in Scenes
  BY DEF ShipmentsInv
<1>2. CASE scene = "wizard"
  <2>1. Wizard!ManifestFirstStep /\ Wizard!LoadIsNeverErasedStep
    BY <1>1, <1>2, SceneStep, WizardStep DEF ShipmentsInv, Kept
  <2>. QED
    BY <1>2, <2>1 DEF UndoesNothing
<1>3. CASE scene = "page"
  <2>1. Page!BoxIsEmptiedForHeldStep
    BY <1>1, <1>3, SceneStep, PageStep DEF ShipmentsInv
  <2>. QED
    BY <1>3, <2>1 DEF UndoesNothing
<1>4. CASE scene = "share"
  <2>1. Share!FirstRevocationKeptStep /\ Share!NothingComesBackStep
    BY <1>1, <1>4, SceneStep, ShareStep DEF ShipmentsInv
  <2>. QED
    BY <1>4, <2>1 DEF UndoesNothing
<1>5. CASE scene = "tokens"
  <2>1. Tokens!ReuseHasACauseStep
    BY <1>5, TokensHold DEF ShipmentsInv
  <2>. QED
    BY <1>5, <2>1 DEF UndoesNothing
<1>. QED
  BY <1>2, <1>3, <1>4, <1>5 DEF UndoesNothing

-----------------------------------------------------------------------------
\* Every behaviour keeps the invariant of its part (MCShipments, all of
\* Wizard!Next, Page!Next, Share!Next, Fleet!Next and Tokens!Next).
THEOREM ShipmentsInvariance == ShipmentsSpec => []ShipmentsInv
<1>. QED
  BY ShipmentsInitHolds, ShipmentsStep, PTL DEF ShipmentsSpec

\* The wizard, the page, the links, the carriers and the tokens keep their types.
THEOREM ShipmentsTypes == ShipmentsSpec => []ShipmentsTypeOK
<1>. QED
  BY ShipmentsInvariance, ShipmentsHold, PTL

\* A quiet thread is whole, a code read out was not revoked before it was asked
\* for, a dialog is of the request it waits for, an added carrier, vehicle or
\* driver is listed, and a revoked link answers like one never minted
\* (useMutation and invalidateQueries on the pages, share.controller.ts).
THEOREM WhatIsShownIsSo == ShipmentsSpec => []ShownIsSo
<1>. QED
  BY ShipmentsInvariance, ShipmentsHold, PTL

\* Outside the families two refreshes overlapped in, a family of refresh tokens
\* has one usable token, and none after a replay was detected
\* (auth.service.ts, refresh).
THEOREM RefreshTokensRotate == ShipmentsSpec => []TokensAreUsedOnce
<1>. QED
  BY ShipmentsInvariance, ShipmentsHold, PTL

\* A load on file is not erased by filing it and is written before the shipment
\* that reads it, a message box is emptied only for what the server holds, the
\* first revocation of a link stands, and a tab's own refresh is not taken for a
\* replay.
THEOREM WorkIsNotUndone == ShipmentsSpec => NothingIsUndone
<1>1. ShipmentsInv /\ [ShipmentsNext]_ShipmentsVars => [UndoesNothing]_ShipmentsVars
  BY StepUndoesNothing
<1>. QED
  BY <1>1, ShipmentsInvariance, PTL DEF ShipmentsSpec, NothingIsUndone


=============================================================================
