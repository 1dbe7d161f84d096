----------------------------- MODULE SelfUpdate -----------------------------
(***************************************************************************)
(* The self-update channel of one Linux node (update.rs): the task that    *)
(* checks the release channel, verifies a build, swaps it in and re-execs, *)
(* the files it moves, and what a crash or a power cut leaves of them.     *)
(*                                                                         *)
(* A build is its commit and its bytes at once: the digest identifies it.  *)
(* A file is a build and whether its bytes have reached the device.  The   *)
(* release is external: `gh release upload` replaces the binary first and  *)
(* the manifest last (latest.yml).  The wait between checks is not timed:  *)
(* it may end at any moment.                                               *)
(***************************************************************************)
EXTENDS Integers

CONSTANTS
    Build,    \* the commits the channel may publish
    None,     \* no build
    Torn,     \* the bytes of a file a power cut caught unwritten
    Rejects,  \* the builds that do not start, or not on this node's config
    Legacy,   \* those that start and predate --check-config
    Unlisted, \* those whose manifest has no asset for this architecture
    Dist,     \* those the release workflows made
    Setups    \* the build a node starts with, its settings, and how often
              \* each move of the environment may happen

(* The environment's moves that a run bounds.  "fault" is a failed request *)
(* or file operation, "refusal" a refused execve.                          *)
Moves == {"publish", "click", "set", "fault", "refusal", "kill", "cut", "rollback"}
Settings == [enabled : BOOLEAN, auto : BOOLEAN]

ASSUME BuildAssumption == None \notin Build /\ Torn \notin Build /\ None # Torn
ASSUME SubsetAssumption ==
    Rejects \subseteq Build /\ Legacy \subseteq Build /\ Unlisted \subseteq Build
ASSUME SetupsAssumption ==
    Setups \subseteq [start : Build \ Rejects, settings : Settings, budget : [Moves -> Nat]]

VARIABLES
    running,   \* the build of the process, None when the service cannot start
    path,      \* the file at install_path
    prev,      \* the file at propmonitor.prev
    tmp,       \* the file at propmonitor.new.<pid>
    durable,   \* the [path, prev] a power cut now may leave
    release,   \* the channel: the binary and the manifest it serves
    settings,  \* the update block of the config
    click,     \* the watch channel's request and whether it is unseen
    latest,    \* UpdateState.latest
    phase,     \* UpdateState.phase
    failed,    \* UpdateState.last_error is set
    step,      \* where the task stands
    asked,     \* the pass under way serves an Install request
    auto,      \* the pass under way read update.auto as true
    budget     \* what the environment has left

fileVars == <<path, prev, tmp, durable>>
stateVars == <<latest, phase, failed>>
passVars == <<asked, auto>>
outerVars == <<release, settings>>
vars == <<running, path, prev, tmp, durable, release, settings, click, latest,
          phase, failed, step, asked, auto, budget>>

Content == Build \cup {None, Torn}
File == [build : Content, whole : BOOLEAN]
NoFile == [build |-> None, whole |-> TRUE]
Whole(b) == [build |-> b, whole |-> TRUE]
Request == {"Idle", "Check", "Install"}
Phase == {"Idle", "Checking", "Downloading", "Installing"}
(* "rename" has a backup to put back, "place" found no file at the path.   *)
Step == {"wait", "check", "install", "download", "verify", "aside", "rename", "place",
         "sync", "exec"}

TypeOK ==
    /\ running \in Build \cup {None}
    /\ path \in File /\ prev \in File /\ tmp \in File
    /\ durable \subseteq [path : File, prev : File]
    /\ release \in [binary : Build, manifest : Build]
    /\ settings \in Settings
    /\ click \in [request : Request, unseen : BOOLEAN]
    /\ latest \in Build \cup {None} /\ phase \in Phase /\ failed \in BOOLEAN
    /\ step \in Step /\ asked \in BOOLEAN /\ auto \in BOOLEAN
    /\ budget \in [Moves -> Nat]

Entries == [path |-> path, prev |-> prev]
NoClick == [request |-> "Idle", unseen |-> FALSE]

(* A freshly installed node: no backup, the channel serves what it runs.   *)
Init ==
    /\ \E s \in Setups :
          /\ running = s.start
          /\ settings = s.settings
          /\ budget = s.budget
    /\ path = Whole(running)
    /\ prev = NoFile
    /\ tmp = NoFile
    /\ durable = {Entries}
    /\ release = [binary |-> running, manifest |-> running]
    /\ click = NoClick
    /\ latest = None /\ phase = "Idle" /\ failed = FALSE
    /\ step = "wait" /\ asked = FALSE /\ auto = FALSE

-----------------------------------------------------------------------------
(* Helpers                                                                 *)

Spend(move) ==
    /\ budget[move] > 0
    /\ budget' = [budget EXCEPT ![move] = @ - 1]

Enter(p) == phase' = p /\ UNCHANGED <<latest, failed>>

(* fail, and the return to run's loop.                                     *)
FailPhase ==  \* mutant: a phase of its own
    /\ phase' = "Failed"
    /\ failed' = TRUE
    /\ step' = "wait"
    /\ UNCHANGED latest
Fail ==
    /\ phase' = "Idle"
    /\ failed' = TRUE
    /\ step' = "wait"
    /\ UNCHANGED latest

(* The error path of download_and_verify and swap: install removes the     *)
(* temp file.                                                              *)
GiveUp == Fail /\ tmp' = NoFile

Files(p, q) ==
    /\ path' = p
    /\ prev' = q
    /\ durable' = durable \cup {[path |-> p, prev |-> q]}

-----------------------------------------------------------------------------
(* run: one pass                                                           *)

(* The timer ends, or a request arrives; the settings are read now.        *)
Wake ==
    /\ step = "wait" /\ running # None
    /\ \E request \in {"Idle"} \cup IF click.unseen THEN {click.request} ELSE {} :
          /\ settings.enabled \/ request # "Idle"
          /\ click' = [click EXCEPT !.unseen = @ /\ request = "Idle"]
          /\ asked' = (request = "Install")
    /\ auto' = settings.auto
    /\ phase' = "Checking" /\ failed' = FALSE
    /\ step' = "check"
    /\ UNCHANGED <<running, fileVars, outerVars, latest, budget>>

(* check: the manifest answers.  auto_allowed is about the running build.  *)
AutoAllowedAlways == TRUE  \* mutant
AutoAllowed == running \in Dist
CheckInstalled ==  \* mutant: compared with the file, not the process
    /\ step = "check"
    /\ LET available == release.manifest # path.build
       IN  /\ latest' = IF available THEN release.manifest ELSE None
           /\ step' = IF asked \/ (available /\ auto /\ AutoAllowed)
                      THEN "install" ELSE "wait"
    /\ phase' = "Idle"
    /\ UNCHANGED <<running, fileVars, outerVars, click, failed, passVars, budget>>
Check ==
    /\ step = "check"
    /\ LET available == release.manifest # running
       IN  /\ latest' = IF available THEN release.manifest ELSE None
           /\ step' = IF asked \/ (available /\ auto /\ AutoAllowed)
                      THEN "install" ELSE "wait"
    /\ phase' = "Idle"
    /\ UNCHANGED <<running, fileVars, outerVars, click, failed, passVars, budget>>

CheckFails ==
    /\ step = "check"
    /\ Spend("fault")
    /\ Fail
    /\ UNCHANGED <<running, fileVars, outerVars, click, passVars>>

(* install: nothing to install, no asset, already at the path, or a        *)
(* download.                                                               *)
AlreadyInstalledNever == FALSE  \* mutant
AlreadyInstalled == path.build = latest
BeginInstall ==
    /\ step = "install"
    /\ IF latest \in Unlisted \cup {None} THEN Fail
       ELSE IF AlreadyInstalled THEN Enter("Installing") /\ step' = "exec"
       ELSE Enter("Downloading") /\ step' = "download"
    /\ UNCHANGED <<running, fileVars, outerVars, click, passVars, budget>>

-----------------------------------------------------------------------------
(* download_and_verify, swap, activate                                     *)

DownloadUnsynced ==  \* mutant: no sync_all before the rename
    /\ step = "download"
    /\ tmp' = [build |-> release.binary, whole |-> FALSE]
    /\ step' = "verify"
    /\ UNCHANGED <<running, path, prev, durable, outerVars, click, stateVars,
                   passVars, budget>>
Download ==
    /\ step = "download"
    /\ tmp' = Whole(release.binary)
    /\ step' = "verify"
    /\ UNCHANGED <<running, path, prev, durable, outerVars, click, stateVars,
                   passVars, budget>>

(* The digest, then the preflight: a build that predates --check-config is *)
(* only asked whether it starts.                                           *)
PreflightLegacy(b) == TRUE  \* mutant: any build that starts
Preflight(b) == b \notin Rejects \/ b \in Legacy
VerifyNoDigest ==  \* mutant: the digest is not compared
    /\ step = "verify"
    /\ IF Preflight(tmp.build)
       THEN step' = "aside" /\ UNCHANGED <<tmp, stateVars>>
       ELSE GiveUp
    /\ UNCHANGED <<running, path, prev, durable, outerVars, click, passVars, budget>>
Verify ==
    /\ step = "verify"
    /\ IF tmp.build = latest /\ Preflight(tmp.build)
       THEN step' = "aside" /\ UNCHANGED <<tmp, stateVars>>
       ELSE GiveUp
    /\ UNCHANGED <<running, path, prev, durable, outerVars, click, passVars, budget>>

(* swap's first rename; a path with no file is not set aside.              *)
SetAsideRemoves ==  \* mutant: the old binary is removed
    /\ step = "aside"
    /\ Files(NoFile, prev)
    /\ step' = "rename"
    /\ UNCHANGED <<running, tmp, outerVars, click, stateVars, passVars, budget>>
SetAside ==
    /\ step = "aside"
    /\ \/ path = NoFile /\ UNCHANGED <<path, prev, durable>> /\ step' = "place"
       \/ path # NoFile /\ Files(NoFile, path) /\ step' = "rename"
    /\ UNCHANGED <<running, tmp, outerVars, click, stateVars, passVars, budget>>

RenameIn ==
    /\ step \in {"rename", "place"}
    /\ Files(tmp, prev)
    /\ tmp' = NoFile
    /\ step' = "sync"
    /\ UNCHANGED <<running, outerVars, click, stateVars, passVars, budget>>

(* The directory is synced, or cannot be opened.                           *)
SyncDir ==
    /\ step = "sync"
    /\ durable' \in {{Entries}, durable}
    /\ Enter("Installing")
    /\ step' = "exec"
    /\ UNCHANGED <<running, path, prev, tmp, outerVars, click, passVars, budget>>

(* A request or a file operation fails before the swap, or in its first    *)
(* rename.                                                                 *)
InstallFails ==
    /\ step \in {"download", "verify", "aside"}
    /\ Spend("fault")
    /\ GiveUp
    /\ UNCHANGED <<running, path, prev, durable, outerVars, click, passVars>>

(* The second rename fails; the backup just made goes back, if it can.     *)
RenameInFails ==
    /\ step \in {"rename", "place"}
    /\ Spend("fault")
    /\ GiveUp
    /\ \/ step = "rename" /\ Files(prev, NoFile)
       \/ UNCHANGED <<path, prev, durable>>
    /\ UNCHANGED <<running, outerVars, click, passVars>>

(* A new image: the state of UpdateState::new, main's channels, no pass.   *)
Fresh ==
    /\ click' = NoClick
    /\ latest' = None /\ phase' = "Idle" /\ failed' = FALSE
    /\ step' = "wait" /\ asked' = FALSE /\ auto' = FALSE

(* The image that starts from file f loads its config, or the service      *)
(* flaps until an operator steps in.                                       *)
Boot(f) ==
    /\ running' = IF f.build \in Build \ Rejects THEN f.build ELSE None
    /\ Fresh

Exec ==
    /\ step = "exec"
    /\ Boot(path)
    /\ UNCHANGED <<fileVars, outerVars, budget>>

ExecFails ==
    /\ step = "exec"
    /\ Spend("refusal")
    /\ Fail
    /\ UNCHANGED <<running, fileVars, outerVars, click, passVars>>

-----------------------------------------------------------------------------
(* The environment                                                         *)

(* The process is stopped and started: by systemd, which a refused execve  *)
(* asks for, or by a crash.  The next one has another PID: its temp file   *)
(* is another.                                                             *)
Kill ==
    /\ Spend("kill")
    /\ Boot(path)
    /\ tmp' = NoFile
    /\ UNCHANGED <<path, prev, durable, outerVars>>

AfterCut(f) == IF f.whole THEN f ELSE Whole(Torn)

PowerCut ==
    /\ Spend("cut")
    /\ \E entries \in durable :
          /\ path' = AfterCut(entries.path)
          /\ prev' = AfterCut(entries.prev)
    /\ durable' = {[path |-> path', prev |-> prev']}
    /\ tmp' = NoFile
    /\ Boot(path')
    /\ UNCHANGED outerVars

(* The documented rollback: auto off, the backup moved over the path, a    *)
(* restart.  It is also how a node left without a binary is brought back.  *)
RollBack ==
    /\ prev # NoFile
    /\ Spend("rollback")
    /\ Files(prev, NoFile)
    /\ settings' = [settings EXCEPT !.auto = FALSE]
    /\ tmp' = NoFile
    /\ Boot(prev)
    /\ UNCHANGED release

PublishBinary(b) ==
    /\ release.binary = release.manifest
    /\ b # release.binary
    /\ Spend("publish")
    /\ release' = [release EXCEPT !.binary = b]
    /\ UNCHANGED <<running, fileVars, settings, click, stateVars, step, passVars>>

PublishManifest ==
    /\ release.binary # release.manifest
    /\ release' = [release EXCEPT !.manifest = release.binary]
    /\ UNCHANGED <<running, fileVars, settings, click, stateVars, step, passVars, budget>>

(* post_update_check never refuses; post_update_install does while a check *)
(* or install is in flight, or with nothing to install.                    *)
Click(request) ==
    /\ running # None
    /\ request = "Install" => phase = "Idle" /\ latest # None
    /\ Spend("click")
    /\ click' = [request |-> request, unseen |-> TRUE]
    /\ UNCHANGED <<running, fileVars, outerVars, stateVars, step, passVars>>

Set(s) ==
    /\ running # None /\ s # settings
    /\ Spend("set")
    /\ settings' = s
    /\ UNCHANGED <<running, fileVars, release, click, stateVars, step, passVars>>

Task ==
    \/ Wake \/ Check \/ BeginInstall \/ Download \/ Verify \/ SetAside \/ RenameIn
    \/ SyncDir \/ Exec

Failure == CheckFails \/ InstallFails \/ RenameInFails \/ ExecFails

Next ==
    \/ Task
    \/ Failure
    \/ Kill \/ PowerCut \/ RollBack
    \/ PublishManifest
    \/ \E b \in Build : PublishBinary(b)
    \/ \E request \in {"Check", "Install"} : Click(request)
    \/ \E s \in Settings : Set(s)

Spec == Init /\ [][Next]_vars

(* The task runs on and an upload under way completes.                     *)
FairSpec == Spec /\ WF_vars(Task) /\ WF_vars(PublishManifest)

-----------------------------------------------------------------------------
(* The two gates of the module doc: what stands at the install path, even  *)
(* after a power cut, is a whole build that loads this node's config.      *)
PathLoads == path.build \in {None} \cup (Build \ Rejects)

(* "A build that rejects it would crash-loop the daemon with nothing left  *)
(* to roll back to": one of the two files can always be started.           *)
Recoverable ==
    \E f \in {path, prev} : f.build \in Build \ Rejects

(* "`propmonitor.prev` is only ever written by a real install, and never   *)
(* with the build being installed": however often activation fails, no     *)
(* pass sets aside the very build it is about to put in.                   *)
BackupDiffers == [][prev' \in {prev, NoFile} \/ prev'.build # latest']_vars

(* The service is down only when the swap was cut between its two renames. *)
DownOnlyMidSwap == running = None => path = NoFile

(* "a truncated, corrupted or tampered download leaves the running binary  *)
(* alone": what is installed is the build the last check named, although   *)
(* the channel may change between the manifest and the download.           *)
InstallsWhatWasChecked == [][RenameIn => tmp.build = latest]_vars

(* "only official builds update unattended": a laptop build gives way only *)
(* in a pass that serves an Install click.                                 *)
UnattendedOnlyOfficial == [][RenameIn => running \in Dist \/ asked]_vars

(* Once the channel settles, a node that updates by itself runs what the   *)
(* channel serves, unless that build is refused or the node is down.       *)
Settled ==
    \/ running = release.manifest
    \/ release.manifest \in Rejects \cup Unlisted
    \/ running \notin Dist
    \/ ~(settings.enabled /\ settings.auto)
    \/ running = None
EventuallyCurrent == <>[]Settled
=============================================================================
