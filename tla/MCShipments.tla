----------------------------- MODULE MCShipments -----------------------------
(***************************************************************************)
(* A shipment and the browser a dispatcher works on it with, for TLC: its  *)
(* life in the database (SessionLifecycle), the dialog that creates it,    *)
(* its page, the links a customer follows it with, the carriers its driver *)
(* comes from, and the tokens that keep the dispatcher signed in.  The     *)
(* parts share no state here: each behaviour is of one of them, and the    *)
(* variables of the others do not move.                                    *)
(***************************************************************************)
EXTENDS SessionLifecycle, FiniteSets, TLC

CONSTANTS
    Orders, Customers, Nobody, Texts, Empty, MaxMessages, MaxCodes, Links,
    Guess, Tabs, MaxTime, MaxListings, Codes, Names, MaxPresses, MaxUpsets,
    Calls, MaxTokens, MaxFamilies, MaxLost

VARIABLES
    scene,         \* the part this behaviour is of
    booking, list, draft, creation, chosen, setbacks, rivals,
    server, wire, shown, session, thread, calls, presses, others, hitches,
    now, link, tab, listings,
    file, dialogs, companies, rosters, requests, upsets,
    issued, family, revoked, store, call, flight, handlers, answers, lost,
    cause, burned, raced

Wizard == INSTANCE SessionWizard
    WITH order <- booking, wizard <- draft, call <- creation,
         trouble <- setbacks, others <- rivals
Page == INSTANCE ShipmentPage
    WITH page <- shown, trouble <- hitches
Share == INSTANCE ShareLinks
Fleet == INSTANCE Carriers
    WITH page <- dialogs, fleet <- rosters, calls <- requests
Tokens == INSTANCE UserTokens

wizardVars == <<booking, list, draft, creation, chosen, setbacks, rivals>>
pageVars == <<server, wire, shown, session, thread, calls, presses, others,
    hitches>>
shareVars == <<now, link, tab, listings>>
carriersVars == <<file, dialogs, companies, rosters, requests, upsets>>
tokensVars == <<issued, family, revoked, store, call, flight, handlers,
    answers, lost, cause, burned, raced>>

ASSUME NumbersAssumption ==
    /\ {MaxMessages, MaxListings, MaxPresses, MaxUpsets, MaxTokens, MaxFamilies,
        MaxLost} \subseteq Nat
    /\ {MaxCodes, MaxTime} \subseteq Nat \ {0}

\* An empty box is no text, a token nobody minted is no link, and "nobody" is
\* neither a carrier nor what is on file of one.
ASSUME OutsidersAssumption ==
    /\ IsFiniteSet(Names)
    /\ Empty \notin Texts /\ Guess \notin Links
    /\ Nobody \notin Codes \cup Fleet!Figures \cup [Fleet!Kinds -> SUBSET Names]

Off == "off"
Scenes == {"lifecycle", "wizard", "page", "share", "carriers", "tokens"}

ShipmentsInit ==
    /\ scene \in Scenes
    /\ Init
    /\ IF scene = "wizard" THEN Wizard!Init
       ELSE /\ booking = Off /\ list = Off /\ draft = Off /\ creation = Off
            /\ chosen = Off /\ setbacks = Off /\ rivals = Off
    /\ IF scene = "page" THEN Page!Init
       ELSE /\ server = Off /\ wire = Off /\ shown = Off /\ session = Off
            /\ thread = Off /\ calls = Off /\ presses = Off /\ others = Off
            /\ hitches = Off
    /\ IF scene = "share" THEN Share!Init
       ELSE now = Off /\ link = Off /\ tab = Off /\ listings = Off
    /\ IF scene = "carriers" THEN Fleet!Init
       ELSE /\ file = Off /\ dialogs = Off /\ companies = Off /\ rosters = Off
            /\ requests = Off /\ upsets = Off
    /\ IF scene = "tokens" THEN Tokens!Init
       ELSE /\ issued = Off /\ family = Off /\ revoked = Off /\ store = Off
            /\ call = Off /\ flight = Off /\ handlers = Off /\ answers = Off
            /\ lost = Off /\ cause = Off /\ burned = Off /\ raced = Off

ShipmentsNext ==
    \/ scene = "lifecycle" /\ Next
          /\ UNCHANGED <<scene, wizardVars, pageVars, shareVars, carriersVars, tokensVars>>
    \/ scene = "wizard" /\ Wizard!Next
          /\ UNCHANGED <<scene, lifeVars, pageVars, shareVars, carriersVars,
                         tokensVars>>
    \/ scene = "page" /\ Page!Next
          /\ UNCHANGED <<scene, lifeVars, wizardVars, shareVars, carriersVars,
                         tokensVars>>
    \/ scene = "share" /\ Share!Next
          /\ UNCHANGED <<scene, lifeVars, wizardVars, pageVars, carriersVars,
                         tokensVars>>
    \/ scene = "carriers" /\ Fleet!Next
          /\ UNCHANGED <<scene, lifeVars, wizardVars, pageVars, shareVars,
                         tokensVars>>
    \/ scene = "tokens" /\ Tokens!Next
          /\ UNCHANGED <<scene, lifeVars, wizardVars, pageVars, shareVars,
                         carriersVars>>

ShipmentsVars == <<scene, lifeVars, wizardVars, pageVars, shareVars,
    carriersVars, tokensVars>>
ShipmentsSpec == ShipmentsInit /\ [][ShipmentsNext]_ShipmentsVars

\* Two families of names, each interchangeable, serve as the names of every part.
Symmetry == Permutations(Sessions) \cup Permutations(Devices)

-----------------------------------------------------------------------------
ShipmentsTypeOK ==
    /\ TypeOK
    /\ scene = "wizard" => Wizard!TypeOK
    /\ scene = "page" => Page!TypeOK
    /\ scene = "share" => Share!TypeOK
    /\ scene = "carriers" => Fleet!TypeOK
    /\ scene = "tokens" => Tokens!TypeOK

\* What the dashboard shows of the server's state holds, however answers, frames,
\* presses and Escape interleave: a quiet thread is whole, a code read out is
\* not a revoked one, a dialog is of the request it waits for, and what the
\* carriers page reported as added is in the list it shows.  And a revoked link
\* says nothing more of the shipment than one never minted.
ShownIsSo ==
    /\ scene = "page" => /\ Page!QuietThreadIsWhole
                         /\ Page!RevokedCodeIsNotReadOut
                         /\ Page!DialogIsOfTheRequest
    /\ scene = "carriers" => Fleet!AddedIsListed
    /\ scene = "share" => Share!RevokedSaysNothing

\* A family has one usable token, and none once a replay was detected.
TokensAreUsedOnce ==
    scene = "tokens" => Tokens!OneTokenPerFamily /\ Tokens!BurnedStaysBurned

\* No step undoes what somebody did: a load on file is not erased by filing it,
\* the manifest is written before the shipment that reads it, the box is emptied
\* for a message the server holds, the first revocation of a link stands, and a
\* link reported revoked does not come back on the list; a
\* tab's own refresh is not taken for a replay that signs everybody out.
UndoesNothing ==
    CASE scene = "wizard" -> Wizard!ManifestFirstStep /\ Wizard!LoadIsNeverErasedStep
      [] scene = "page" -> Page!BoxIsEmptiedForHeldStep
      [] scene = "share" -> Share!FirstRevocationKeptStep /\ Share!NothingComesBackStep
      [] scene = "tokens" -> Tokens!ReuseHasACauseStep
      [] OTHER -> TRUE
NothingIsUndone == [][UndoesNothing]_ShipmentsVars

=============================================================================
