--------------------------- MODULE ReleaseChannel ---------------------------
(***************************************************************************)
(* A build on its way to the fleet: the script that stages it (infra/      *)
(* publish-apk.sh), the button that releases it (api/src/release, and the  *)
(* panel of the install page in sessions/handoff.controller.ts), and one   *)
(* phone that is told (android update/UpdateRepository.kt).                *)
(*                                                                         *)
(* All of it lives in files of one directory, and every rename is a step:  *)
(* two presses interleave, the script runs between any two steps, and the  *)
(* API may die between them.  A manifest is the build it describes: its    *)
(* versionCode and the digest of its bytes.                                *)
(***************************************************************************)
EXTENDS Naturals

CONSTANTS
    Builds,        \* builds the script may stage: records of code and bytes
    First,         \* the build on the phone and on the server at the start
    Admins,        \* panels an administrator has open
    MaxPresses,    \* bound: presses of the button
    MaxDeaths      \* bound: deaths of the API process

VARIABLES
    latest,        \* latest.json: the build it describes, None if it is not there
    apk,           \* karahoca-takip.apk
    staged,        \* latest.staged.json
    packages,      \* versionCode -> karahoca-takip-<code>.apk
    scratch,       \* latest.json.tmp
    script,        \* publish-apk.sh: how far it is, and with which build
    panel,         \* admin -> what the panel shows, and how far its announce() is
    phone,         \* the updater: what it shows, its pending note, its job, its file
    installed,     \* the build the phone runs
    presses, deaths,
    crossed        \* for the properties: two presses overlapped, or two builds of one versionCode

files == <<latest, apk, staged, packages, scratch>>
vars == <<files, script, panel, phone, installed, presses, deaths, crossed>>

None == [code |-> 0, bytes |-> "nothing"]
Known == Builds \cup {First}
Codes == { b.code : b \in Known }

Shown == {"hidden", "waiting", "ready", "done", "failed"}
UnderWay == {"read", "unlinked", "moved", "written", "renamed"}
File == [name : Codes \cup {0}, holds : Known \cup {None}]      \* updates/karahoca-<name>.apk

NoFile == [name |-> 0, holds |-> None]

TypeOK ==
    /\ {latest, apk, staged, scratch} \subseteq Known \cup {None}
    /\ packages \in [Codes -> Known \cup {None}]
    /\ script \in [at : {"rest", "checked", "moved"}, build : Known \cup {None}]
    /\ panel \in [Admins -> [at : Shown \cup UnderWay, build : Known \cup {None}]]
    /\ phone \in [state : {"idle", "available", "busy", "failed"}, manifest : Known \cup {None},
                  pending : Known \cup {None}, job : {"none", "downloading", "verifying", "dialog"},
                  promise : Known \cup {None}, file : File]
    /\ phone.state = "idle" <=> phone.manifest = None
    /\ phone.job = "none" <=> phone.promise = None
    /\ installed \in Known
    /\ presses \in 0 .. MaxPresses /\ deaths \in 0 .. MaxDeaths
    /\ crossed \in BOOLEAN

Init ==
    /\ latest = First /\ apk = First
    /\ staged = None /\ packages = [c \in Codes |-> None] /\ scratch = None
    /\ script = [at |-> "rest", build |-> None]
    /\ panel = [a \in Admins |-> [at |-> "hidden", build |-> None]]
    /\ phone = [state |-> "idle", manifest |-> None, pending |-> None, job |-> "none",
                promise |-> None, file |-> NoFile]
    /\ installed = First
    /\ presses = 0 /\ deaths = 0 /\ crossed = FALSE

Announcing == { a \in Admins : panel[a].at \in UnderWay }
Releasing == { panel[a].build : a \in Announcing }

-----------------------------------------------------------------------------
\* infra/publish-apk.sh.  The version is compared with the package the fleet
\* downloads, long before anything is moved.
Check(b) ==
    /\ script.at = "rest"
    /\ b.code > apk.code
    /\ script' = [at |-> "checked", build |-> b]
    /\ UNCHANGED <<files, panel, phone, installed, presses, deaths, crossed>>

StagePackage ==
    /\ script.at = "checked"
    /\ LET b == script.build IN
       /\ packages' = [packages EXCEPT ![b.code] = b]
       /\ crossed' = (crossed \/ \E o \in ({packages[b.code], staged} \cup Releasing) \ {b} :
                                    o.code = b.code)
    /\ script' = [script EXCEPT !.at = "moved"]
    /\ UNCHANGED <<latest, apk, staged, scratch, panel, phone, installed,
                   presses, deaths>>

StageManifest ==
    /\ script.at = "moved"
    /\ staged' = script.build
    /\ script' = [at |-> "rest", build |-> None]
    /\ UNCHANGED <<latest, apk, packages, scratch, panel, phone, installed,
                   presses, deaths, crossed>>

\* The script is interrupted, the connection with it.
ScriptStops ==
    /\ script.at # "rest"
    /\ script' = [at |-> "rest", build |-> None]
    /\ UNCHANGED <<files, panel, phone, installed, presses, deaths, crossed>>

-----------------------------------------------------------------------------
\* The panel: GET app/release when the page opens, its answer, the press.
CanAnnounce == staged # None /\ staged.code > latest.code

Set(a, at, b) == panel' = [panel EXCEPT ![a] = [at |-> at, build |-> b]]

OpenPanel(a) ==
    /\ panel[a].at \in Shown
    /\ Set(a, IF CanAnnounce THEN "ready" ELSE "waiting", None)
    /\ UNCHANGED <<files, script, phone, installed, presses, deaths, crossed>>

\* announce() reads the staged manifest; it does not look at canAnnounce again.
\* After a failure the button is enabled, whatever there is to release.
Press(a) ==
    /\ panel[a].at \in {"ready", "failed"}
    /\ presses < MaxPresses /\ presses' = presses + 1
    /\ IF staged = None THEN Set(a, "failed", None) ELSE Set(a, "read", staged)
    /\ crossed' = (crossed \/ Announcing # {})
    /\ UNCHANGED <<files, script, phone, installed, deaths>>

\* Mutant: the old manifest stays until the new one is written over it.
LeaveManifest(a) ==
    /\ panel[a].at = "read"
    /\ Set(a, "unlinked", panel[a].build)
    /\ UNCHANGED <<files, script, phone, installed, presses, deaths, crossed>>

\* 1. The live manifest goes; that it was not there is no error.
Unlink(a) ==
    /\ panel[a].at = "read"
    /\ latest' = None
    /\ Set(a, "unlinked", panel[a].build)
    /\ UNCHANGED <<apk, staged, packages, scratch, script, phone, installed,
                   presses, deaths, crossed>>

\* 2. The staged package becomes the download.  It may be gone: somebody
\* else's press moved it, or one that stopped after this step did.
MovePackage(a) ==
    /\ panel[a].at = "unlinked"
    /\ LET b == panel[a].build IN
       IF packages[b.code] = None
       THEN /\ Set(a, "failed", None)
            /\ UNCHANGED <<apk, packages>>
       ELSE /\ apk' = packages[b.code]
            /\ packages' = [packages EXCEPT ![b.code] = None]
            /\ Set(a, "moved", b)
    /\ UNCHANGED <<latest, staged, scratch, script, phone, installed,
                   presses, deaths, crossed>>

\* 3. writeAtomic(): the same temporary name for everybody, then a rename.
WriteScratch(a) ==
    /\ panel[a].at = "moved"
    /\ scratch' = panel[a].build
    /\ Set(a, "written", panel[a].build)
    /\ UNCHANGED <<latest, apk, staged, packages, script, phone, installed,
                   presses, deaths, crossed>>

RenameScratch(a) ==
    /\ panel[a].at = "written"
    /\ IF scratch = None
       THEN Set(a, "failed", None) /\ UNCHANGED <<latest, scratch>>
       ELSE /\ latest' = scratch /\ scratch' = None
            /\ Set(a, "renamed", panel[a].build)
    /\ UNCHANGED <<apk, staged, packages, script, phone, installed,
                   presses, deaths, crossed>>

\* 4. Nothing is left staged, and the panel is told.
Unstage(a) ==
    /\ panel[a].at = "renamed"
    /\ staged' = None
    /\ Set(a, "done", None)
    /\ UNCHANGED <<latest, apk, packages, scratch, script, phone, installed,
                   presses, deaths, crossed>>

\* The API process dies: what its requests had not done is not done.
Die ==
    /\ deaths < MaxDeaths /\ deaths' = deaths + 1
    /\ panel' = [a \in Admins |-> IF panel[a].at \in UnderWay
                                  THEN [at |-> "failed", build |-> None] ELSE panel[a]]
    /\ UNCHANGED <<files, script, phone, installed, presses, crossed>>

-----------------------------------------------------------------------------
Quiet == UNCHANGED <<files, script, panel, presses, deaths, crossed>>

\* The phone.  check(): the hourly timer, the app being opened, or the build
\* number in an ingest's answer (onServerHint).  The fetch and what follows it
\* are one step: an answer that was overtaken is like a note that is old.
\* Not newer clears everything; newer is never shown over a download or an
\* installation.  404 is nothing at all.
CheckForUpdate ==
    /\ latest # None
    /\ phone' = IF latest.code <= installed.code
                THEN [phone EXCEPT !.state = "idle", !.manifest = None, !.pending = None]
                ELSE IF phone.state = "busy" THEN phone
                ELSE [phone EXCEPT !.state = "available", !.manifest = latest, !.pending = latest]
    /\ UNCHANGED installed /\ Quiet

\* start(): the driver presses Update, or tries again after a failure.  One
\* job at a time; a job is over once the platform has the file.
Start ==
    /\ phone.state \in {"available", "failed"}
    /\ phone.job \in {"none", "dialog"}
    /\ phone' = [phone EXCEPT !.state = "busy", !.job = "downloading", !.promise = phone.manifest]
    /\ UNCHANGED installed /\ Quiet

\* Installing unknown apps is not allowed; the driver comes back from Settings.
NotAllowed ==
    /\ phone.state = "available" /\ phone.job \in {"none", "dialog"}
    /\ phone' = [phone EXCEPT !.state = "failed"]
    /\ UNCHANGED installed /\ Quiet

Granted ==
    /\ phone.state = "failed"
    /\ phone' = [phone EXCEPT !.state = "available"]
    /\ UNCHANGED installed /\ Quiet

Goes(job, file) ==
    phone' = [phone EXCEPT !.state = "busy", !.manifest = phone.promise, !.job = job, !.file = file]

Fails(file) ==
    phone' = [phone EXCEPT !.state = "failed", !.manifest = phone.promise, !.job = "none",
                           !.promise = None, !.file = file]

HasFile == phone.file.name = phone.promise.code

\* download(): a finished file named for the same versionCode is taken as it
\* is, any other is deleted, and what the fixed address serves now is fetched.
Download ==
    /\ phone.job = "downloading"
    /\ Goes("verifying", IF HasFile THEN phone.file
                         ELSE [name |-> phone.promise.code, holds |-> apk])
    /\ UNCHANGED installed /\ Quiet

DownloadFails ==
    /\ phone.job = "downloading" /\ ~HasFile
    /\ Fails(NoFile)
    /\ UNCHANGED installed /\ Quiet

\* Mutant: whatever arrived is handed to the installer.
VerifyNothing ==
    /\ phone.job = "verifying"
    /\ Goes("dialog", phone.file)
    /\ UNCHANGED installed /\ Quiet

\* The digest decides; a file that does not match it is deleted.  What matches
\* goes to the platform, which asks the driver.
Verify ==
    /\ phone.job = "verifying"
    /\ IF phone.file.holds.bytes = phone.promise.bytes
       THEN Goes("dialog", phone.file) ELSE Fails(NoFile)
    /\ UNCHANGED installed /\ Quiet

\* restorePendingRelease(): what a new process, running build b, knows.
Restarted(b) ==
    LET note == IF phone.pending.code > b.code THEN phone.pending ELSE None
    IN  [state |-> IF note = None THEN "idle" ELSE "available", manifest |-> note,
         pending |-> note, job |-> "none", promise |-> None, file |-> phone.file]

\* The driver accepts: the platform replaces the process.
Accept ==
    /\ phone.job = "dialog"
    /\ installed' = phone.file.holds
    /\ phone' = Restarted(installed')
    /\ Quiet

\* The driver cancels, or the platform refuses: the receiver says so in a
\* notification, and the updater, which still shows "installing", is not told.
Dismiss ==
    /\ phone.job = "dialog"
    /\ phone' = [phone EXCEPT !.job = "none", !.promise = None]
    /\ UNCHANGED installed /\ Quiet

\* The package fetched from the install page; Android takes no older one.
InstallByHand ==
    /\ phone.job = "none"
    /\ apk.code > installed.code
    /\ installed' = apk
    /\ phone' = Restarted(apk)
    /\ Quiet

PhoneDies ==
    /\ phone.state # "idle"
    /\ phone' = Restarted(installed)
    /\ UNCHANGED installed /\ Quiet

Next ==
    \/ \E b \in Builds : Check(b)
    \/ StagePackage \/ StageManifest \/ ScriptStops
    \/ \E a \in Admins :
        \/ OpenPanel(a) \/ Press(a) \/ Unlink(a) \/ MovePackage(a)
        \/ WriteScratch(a) \/ RenameScratch(a) \/ Unstage(a)
    \/ Die
    \/ CheckForUpdate \/ Start \/ NotAllowed \/ Granted \/ Download \/ DownloadFails \/ Verify
    \/ Accept \/ Dismiss \/ InstallByHand \/ PhoneDies

Spec == Init /\ [][Next]_vars

-----------------------------------------------------------------------------
\* The manifest never promises bytes the download does not have, unless two
\* presses overlapped or a build was staged while another of its versionCode was
\* staged or being released.
PromiseMatchesPackage == latest # None => apk = latest \/ crossed

\* What the updater installs is the build whose manifest the driver accepted,
\* and newer than what was there: stale notes, files of an earlier attempt and
\* packages replaced under the same address are all caught by the digest.
InstalledAsPromisedStep ==
    phone.job = "dialog" /\ installed' # installed
     => installed' = phone.promise /\ installed'.code > installed.code
InstalledAsPromised == [][InstalledAsPromisedStep]_vars

\* Not so: whatever order things happen in, the manifest matches the package.
PromiseAlwaysMatches == latest # None => apk = latest

\* Not so: when no press is under way the fleet is told of some release.
FleetHasARelease == Announcing = {} => latest # None

=============================================================================
