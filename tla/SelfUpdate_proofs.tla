-------------------------- MODULE SelfUpdate_proofs --------------------------
(***************************************************************************)
(* Proofs about SelfUpdate, for every channel, every sequence of failures  *)
(* and every budget.                                                       *)
(*                                                                         *)
(* What the install path shows is safe only because of what a power cut    *)
(* may bring back: FilesGood therefore speaks of every directory state in  *)
(* durable.  What is renamed in is safe because of where the pass stands:  *)
(* StepGood carries the result of each gate to the rename.                 *)
(*                                                                         *)
(* The gates let in what preflight admits.  That such a build loads the    *)
(* config is only known on a channel whose old builds do (LegacyLoads; the *)
(* fallback of preflight does not look), so the theorems that speak of     *)
(* loading have that hypothesis, and the invariant has not.                *)
(***************************************************************************)
EXTENDS SelfUpdate, TLAPS

LegacyLoads == Legacy \cap Rejects = {}

Loads == Build \ Rejects
Admitted == {b \in Build : Preflight(b)}
Good(f) == f.whole /\ f.build \in Admitted \cup {None}
PairGood(p, q) == Good(p) /\ Good(q) /\ (p.build # None \/ q.build # None)

FilesGood ==
    /\ PairGood(path, prev)
    /\ \A entries \in durable : PairGood(entries.path, entries.prev)
    /\ tmp.whole

RunningGood ==
    /\ running \in Loads \cup {None}
    /\ running = None => path.build \notin Loads /\ step = "wait"

Checked == {"download", "verify", "aside"}
Verified == {"aside", "rename", "place"}
Renaming == {"rename", "place"}

StepGood ==
    /\ step \in Checked => path.build # latest /\ latest # None
    /\ step \in Verified => tmp.build = latest /\ tmp.build \in Admitted
    /\ step \in Renaming => path.build = None
    /\ step \in {"sync", "exec"} => path.build # None
    /\ step \in {"install"} \cup Checked \cup Renaming => running \in Dist \/ asked

IInv == TypeOK /\ FilesGood /\ RunningGood /\ StepGood

-----------------------------------------------------------------------------
(* The budget stays a budget.                                              *)
LEMMA SpendType ==
    ASSUME budget \in [Moves -> Nat], NEW move \in Moves, Spend(move)
    PROVE  budget' \in [Moves -> Nat]
BY DEF Spend

(* A file whose bytes have reached the device survives a power cut; one    *)
(* with no build is no file.                                               *)
LEMMA WholeFile ==
    ASSUME NEW f \in File, f.whole
    PROVE  AfterCut(f) = f /\ (f.build = None => f = NoFile)
BY DEF AfterCut, File, NoFile

(* What Files does to the directory.                                       *)
LEMMA FilesStep ==
    ASSUME NEW p \in File, NEW q \in File, PairGood(p, q), Files(p, q),
           TypeOK, FilesGood
    PROVE  /\ path' = p /\ prev' = q
           /\ path' \in File /\ prev' \in File
           /\ durable' \subseteq [path : File, prev : File]
           /\ PairGood(path', prev')
           /\ \A entries \in durable' : PairGood(entries.path, entries.prev)
<1>1. path' = p /\ prev' = q /\ durable' = durable \cup {[path |-> p, prev |-> q]}
  BY DEF Files
<1>2. [path |-> p, prev |-> q] \in [path : File, prev : File]
  OBVIOUS
<1>3. durable' \subseteq [path : File, prev : File]
  BY <1>1, <1>2 DEF TypeOK
<1>4. \A entries \in durable' : PairGood(entries.path, entries.prev)
  BY <1>1 DEF FilesGood
<1>5. QED BY <1>1, <1>3, <1>4

(* The image that starts from a good file.                                 *)
LEMMA BootStep ==
    ASSUME NEW f \in File, Good(f), Boot(f), TypeOK
    PROVE  /\ running' \in Build \cup {None} /\ running' \in Loads \cup {None}
           /\ running' = None => f.build \notin Loads
           /\ click' \in [request : Request, unseen : BOOLEAN]
           /\ latest' = None /\ phase' \in Phase /\ failed' \in BOOLEAN
           /\ step' = "wait" /\ asked' \in BOOLEAN /\ auto' \in BOOLEAN
<1>1. running' = IF f.build \in Build \ Rejects THEN f.build ELSE None
  BY DEF Boot
<1>2. /\ running' \in Build \cup {None} /\ running' \in Loads \cup {None}
      /\ running' = None => f.build \notin Loads
  BY <1>1, BuildAssumption DEF Loads
<1>3. QED BY <1>2 DEF Boot, Fresh, NoClick, Request, Phase

-----------------------------------------------------------------------------
(* The install is whole at the start.                                      *)
LEMMA Initially == Init => IInv
<1> SUFFICES ASSUME Init PROVE IInv
  OBVIOUS
<1>1. PICK s \in Setups : running = s.start /\ settings = s.settings /\ budget = s.budget
  BY DEF Init
<1>2. s.start \in Loads /\ s.settings \in Settings /\ s.budget \in [Moves -> Nat]
  BY SetupsAssumption DEF Loads
<1>3. path \in File /\ prev \in File /\ tmp \in File
  BY <1>1, <1>2 DEF Init, Whole, NoFile, File, Content, Loads
<1>4. durable \subseteq [path : File, prev : File]
  BY <1>3 DEF Init, Entries
<1>5. TypeOK
  BY <1>1, <1>2, <1>3, <1>4
  DEF Init, TypeOK, Loads, NoClick, Request, Phase, Step
<1>6. PairGood(path, prev)
  BY <1>1, <1>2, BuildAssumption DEF Init, PairGood, Good, Whole, NoFile, Loads, Admitted, Preflight
<1>7. FilesGood
  BY <1>6 DEF Init, FilesGood, Entries, NoFile
<1>8. RunningGood /\ StepGood
  BY <1>1, <1>2, BuildAssumption
  DEF Init, RunningGood, StepGood, Checked, Verified, Renaming, Loads
<1>9. QED BY <1>5, <1>7, <1>8 DEF IInv

-----------------------------------------------------------------------------
(* One step.  First the parts that only the files decide.                  *)
LEMMA FilesUnchanged ==
    ASSUME TypeOK, FilesGood, UNCHANGED <<path, prev, durable>>,
           tmp' \in File, tmp'.whole
    PROVE  /\ path' \in File /\ prev' \in File
           /\ durable' \subseteq [path : File, prev : File]
           /\ FilesGood'
BY DEF TypeOK, FilesGood

(* The task's steps that move no file.                                     *)
LEMMA StillSteps ==
    ASSUME IInv, Wake \/ Check \/ CheckFails \/ BeginInstall \/ ExecFails
    PROVE  IInv'
<1>1. /\ UNCHANGED <<running, fileVars, settings, release>>
      /\ tmp \in File /\ tmp.whole
  BY DEF IInv, TypeOK, FilesGood, Wake, Check, CheckFails, BeginInstall, ExecFails, outerVars,
         fileVars
<1>2. FilesGood' /\ path' \in File /\ prev' \in File
      /\ durable' \subseteq [path : File, prev : File]
  BY <1>1, FilesUnchanged DEF IInv, fileVars
<1>3. CASE Wake
  <2>1. TypeOK'
    BY <1>1, <1>2, <1>3 DEF IInv, TypeOK, Wake, fileVars, Request, Phase, Step, Settings
  <2>2. RunningGood' /\ StepGood'
    BY <1>1, <1>3 DEF IInv, RunningGood, StepGood, Wake, fileVars, Checked, Verified, Renaming
  <2>3. QED BY <1>2, <2>1, <2>2 DEF IInv
<1>4. CASE Check
  <2>1. TypeOK'
    BY <1>1, <1>2, <1>4
    DEF IInv, TypeOK, Check, fileVars, passVars, Phase, Step
  <2>2. step' \in {"install", "wait"} /\ (step' = "install" => running' \in Dist \/ asked')
    BY <1>1, <1>4 DEF Check, AutoAllowed, passVars
  <2>3. RunningGood' /\ StepGood'
    BY <1>1, <1>4, <2>2
    DEF IInv, RunningGood, StepGood, Check, fileVars, Checked, Verified, Renaming
  <2>4. QED BY <1>2, <2>1, <2>3 DEF IInv
<1>5. CASE CheckFails \/ ExecFails
  <2>1. budget' \in [Moves -> Nat]
    BY <1>5, SpendType DEF IInv, TypeOK, CheckFails, ExecFails, Moves
  <2>2. step' = "wait" /\ TypeOK'
    BY <1>1, <1>2, <1>5, <2>1
    DEF IInv, TypeOK, CheckFails, ExecFails, Fail, fileVars, passVars, Phase, Step
  <2>3. RunningGood' /\ StepGood'
    BY <1>1, <2>2 DEF IInv, RunningGood, StepGood, fileVars, Checked, Verified, Renaming
  <2>4. QED BY <1>2, <2>2, <2>3 DEF IInv
<1>6. CASE BeginInstall
  <2>1. TypeOK'
    BY <1>1, <1>2, <1>6
    DEF IInv, TypeOK, BeginInstall, Fail, Enter, fileVars, passVars, Phase, Step
  <2>2. RunningGood' /\ StepGood'
    BY <1>1, <1>6
    DEF IInv, RunningGood, StepGood, BeginInstall, AlreadyInstalled, Fail, Enter, fileVars,
        passVars, Checked, Verified, Renaming
  <2>3. QED BY <1>2, <2>1, <2>2 DEF IInv
<1>7. QED BY <1>3, <1>4, <1>5, <1>6

(* The end of an install that failed, whatever it did to the directory.    *)
LEMMA GiveUpStep ==
    ASSUME IInv, GiveUp, UNCHANGED <<running, settings, release, click, asked, auto>>,
           path' \in File, prev' \in File, durable' \subseteq [path : File, prev : File],
           PairGood(path', prev'),
           \A entries \in durable' : PairGood(entries.path, entries.prev),
           running' = None => path'.build \notin Loads,
           budget' \in [Moves -> Nat]
    PROVE  IInv'
<1>1. /\ phase' = "Idle" /\ failed' = TRUE /\ step' = "wait" /\ UNCHANGED latest
      /\ tmp' = NoFile
  BY DEF GiveUp, Fail
<1>2. tmp' \in File /\ tmp'.whole
  BY <1>1 DEF NoFile, File, Content
<1>3. TypeOK'
  BY <1>1, <1>2 DEF IInv, TypeOK, Phase, Step
<1>4. FilesGood' /\ RunningGood' /\ StepGood'
  BY <1>1, <1>2
  DEF IInv, FilesGood, RunningGood, StepGood, Checked, Verified, Renaming
<1>5. QED BY <1>3, <1>4 DEF IInv

(* Download and verification: only the temp file moves.                    *)
LEMMA TempSteps ==
    ASSUME IInv, Download \/ Verify \/ InstallFails
    PROVE  IInv'
<1>1. UNCHANGED <<running, path, prev, durable, settings, release, click, asked, auto>>
  BY DEF Download, Verify, InstallFails, outerVars, passVars
<1>2. CASE Download
  <2>1. tmp' = Whole(release.binary) /\ release.binary \in Build
    BY <1>2 DEF Download, IInv, TypeOK
  <2>2. tmp' \in File /\ tmp'.whole
    BY <2>1 DEF Whole, File, Content
  <2>3. TypeOK'
    BY <1>1, <1>2, <2>2, FilesUnchanged DEF IInv, TypeOK, Download, stateVars, Step
  <2>4. RunningGood' /\ StepGood'
    BY <1>1, <1>2
    DEF IInv, RunningGood, StepGood, Download, stateVars, Checked, Verified, Renaming
  <2>5. QED BY <1>1, <2>2, <2>3, <2>4, FilesUnchanged DEF IInv
<1>3. CASE Verify
  <2>1. CASE tmp.build = latest /\ Preflight(tmp.build)
    <3>1. step = "verify" /\ step' = "aside" /\ UNCHANGED <<tmp, latest, phase, failed, budget>>
      BY <1>3, <2>1 DEF Verify, stateVars
    <3>2. path.build # latest /\ latest # None
      BY <3>1 DEF IInv, StepGood, Checked
    <3>3. tmp.build \in Build
      BY <2>1, <3>2 DEF IInv, TypeOK
    <3>4. tmp.build \in Admitted
      BY <2>1, <3>3 DEF Admitted
    <3>5. TypeOK' /\ FilesGood'
      BY <1>1, <3>1, FilesUnchanged DEF IInv, TypeOK, FilesGood, Step
    <3>6. RunningGood' /\ StepGood'
      BY <1>1, <2>1, <3>1, <3>2, <3>4
      DEF IInv, RunningGood, StepGood, Checked, Verified, Renaming
    <3>7. QED BY <3>5, <3>6 DEF IInv
  <2>2. CASE ~(tmp.build = latest /\ Preflight(tmp.build))
    <3>1. step' = "wait" /\ tmp' = NoFile /\ UNCHANGED <<latest, budget>>
          /\ phase' = "Idle" /\ failed' = TRUE
      BY <1>3, <2>2 DEF Verify, GiveUp, Fail
    <3>2. GiveUp /\ budget' \in [Moves -> Nat]
      BY <1>3, <2>2, <3>1 DEF Verify, IInv, TypeOK
    <3>3. QED BY <1>1, <3>2, GiveUpStep DEF IInv, TypeOK, FilesGood, RunningGood
  <2>3. QED BY <2>1, <2>2
<1>4. CASE InstallFails
  <2>1. GiveUp /\ budget' \in [Moves -> Nat]
    BY <1>4, SpendType DEF InstallFails, IInv, TypeOK, Moves
  <2>2. QED BY <1>1, <2>1, GiveUpStep DEF IInv, TypeOK, FilesGood, RunningGood
<1>5. QED BY <1>2, <1>3, <1>4

(* The swap: each rename leaves a pair of files to start from.             *)
LEMMA SwapSteps ==
    ASSUME IInv, SetAside \/ RenameIn \/ RenameInFails \/ SyncDir
    PROVE  IInv'
<1>1. /\ UNCHANGED <<running, settings, release, click, asked, auto>>
      /\ path \in File /\ prev \in File /\ tmp \in File /\ NoFile \in File
      /\ Good(path) /\ Good(prev) /\ PairGood(path, prev) /\ tmp.whole
  BY DEF IInv, TypeOK, FilesGood, PairGood, SetAside, RenameIn, RenameInFails, SyncDir, outerVars,
         passVars, NoFile, File, Content
<1>2. /\ path.build = None => path = NoFile
      /\ NoFile.build = None /\ Good(NoFile)
  BY <1>1, WholeFile DEF Good, NoFile
<1>3. CASE SetAside
  <2>1. UNCHANGED <<tmp, latest, phase, failed, budget>>
    BY <1>3 DEF SetAside, stateVars
  <2>2. step = "aside" /\ path.build # latest /\ tmp.build = latest /\ tmp.build \in Admitted
        /\ running # None /\ (running \in Dist \/ asked)
    BY <1>3 DEF SetAside, IInv, StepGood, RunningGood, Checked, Verified
  <2>3. CASE path = NoFile
    <3>1. step' = "place" /\ UNCHANGED <<path, prev, durable>>
      BY <1>3, <2>3 DEF SetAside
    <3>2. TypeOK' /\ FilesGood'
      BY <1>1, <2>1, <3>1, FilesUnchanged DEF IInv, TypeOK, FilesGood, Step
    <3>3. RunningGood' /\ StepGood'
      BY <1>1, <1>2, <2>1, <2>2, <2>3, <3>1
      DEF IInv, RunningGood, StepGood, Checked, Verified, Renaming
    <3>4. QED BY <3>2, <3>3 DEF IInv
  <2>4. CASE path # NoFile
    <3>1. step' = "rename" /\ Files(NoFile, path)
      BY <1>3, <2>4 DEF SetAside
    <3>2. PairGood(NoFile, path)
      BY <1>1, <1>2, <2>4 DEF PairGood
    <3>3. /\ path' = NoFile /\ path' \in File /\ prev' \in File
          /\ durable' \subseteq [path : File, prev : File]
          /\ PairGood(path', prev')
          /\ \A entries \in durable' : PairGood(entries.path, entries.prev)
      BY <1>1, <3>1, <3>2, FilesStep DEF IInv
    <3>4. TypeOK' /\ FilesGood'
      BY <1>1, <2>1, <3>1, <3>3 DEF IInv, TypeOK, FilesGood, Step
    <3>5. RunningGood' /\ StepGood'
      BY <1>1, <1>2, <2>1, <2>2, <3>1, <3>3
      DEF IInv, RunningGood, StepGood, Checked, Verified, Renaming
    <3>6. QED BY <3>4, <3>5 DEF IInv
  <2>5. QED BY <2>3, <2>4
<1>4. CASE RenameIn
  <2>1. /\ step' = "sync" /\ tmp' = NoFile /\ Files(tmp, prev)
        /\ UNCHANGED <<latest, phase, failed, budget>>
    BY <1>4 DEF RenameIn, stateVars
  <2>2. tmp.build \in Admitted /\ running # None /\ tmp.build # None
    BY <1>4, BuildAssumption
    DEF RenameIn, IInv, StepGood, RunningGood, Verified, Admitted
  <2>3. PairGood(tmp, prev)
    BY <1>1, <2>2 DEF PairGood, Good
  <2>4. /\ path' = tmp /\ path' \in File /\ prev' \in File
        /\ durable' \subseteq [path : File, prev : File]
        /\ PairGood(path', prev')
        /\ \A entries \in durable' : PairGood(entries.path, entries.prev)
    BY <1>1, <2>1, <2>3, FilesStep DEF IInv
  <2>5. TypeOK' /\ FilesGood'
    BY <1>1, <1>2, <2>1, <2>4 DEF IInv, TypeOK, FilesGood, Good, Step
  <2>6. RunningGood' /\ StepGood'
    BY <1>1, <2>1, <2>2, <2>4
    DEF IInv, RunningGood, StepGood, Checked, Verified, Renaming
  <2>7. QED BY <2>5, <2>6 DEF IInv
<1>5. CASE RenameInFails
  <2>1. GiveUp /\ budget' \in [Moves -> Nat] /\ running # None
    BY <1>5, SpendType DEF RenameInFails, IInv, TypeOK, RunningGood, Moves
  <2>2. CASE UNCHANGED <<path, prev, durable>>
    BY <1>1, <2>1, <2>2, GiveUpStep DEF IInv, TypeOK, FilesGood
  <2>3. CASE Files(prev, NoFile) /\ step = "rename"
    <3>1. path.build = None
      BY <2>3 DEF IInv, StepGood, Renaming
    <3>2. PairGood(prev, NoFile)
      BY <1>1, <1>2, <3>1 DEF PairGood
    <3>3. /\ path' \in File /\ prev' \in File
          /\ durable' \subseteq [path : File, prev : File]
          /\ PairGood(path', prev')
          /\ \A entries \in durable' : PairGood(entries.path, entries.prev)
      BY <1>1, <2>3, <3>2, FilesStep DEF IInv
    <3>4. QED BY <1>1, <2>1, <3>3, GiveUpStep
  <2>4. QED BY <1>5, <2>2, <2>3 DEF RenameInFails
<1>6. CASE SyncDir
  <2>1. /\ step = "sync" /\ step' = "exec" /\ phase' = "Installing"
        /\ UNCHANGED <<path, prev, tmp, latest, failed, budget>>
        /\ durable' = {Entries} \/ durable' = durable
    BY <1>6 DEF SyncDir, Enter
  <2>2. Entries \in [path : File, prev : File] /\ PairGood(Entries.path, Entries.prev)
    BY <1>1 DEF Entries
  <2>3. TypeOK' /\ FilesGood'
    BY <1>1, <2>1, <2>2 DEF IInv, TypeOK, FilesGood, Phase, Step
  <2>4. RunningGood' /\ StepGood'
    BY <1>1, <2>1 DEF IInv, RunningGood, StepGood, Checked, Verified, Renaming
  <2>5. QED BY <2>3, <2>4 DEF IInv
<1>7. QED BY <1>3, <1>4, <1>5, <1>6

(* A new image, from a file that can be started or from none.              *)
LEMMA BootSteps ==
    ASSUME IInv, Exec \/ Kill \/ PowerCut \/ RollBack
    PROVE  IInv'
<1>1. SUFFICES /\ path' \in File /\ prev' \in File /\ tmp' \in File /\ tmp'.whole
               /\ durable' \subseteq [path : File, prev : File]
               /\ PairGood(path', prev')
               /\ \A entries \in durable' : PairGood(entries.path, entries.prev)
               /\ Boot(path') /\ release' = release /\ settings' \in Settings
               /\ budget' \in [Moves -> Nat]
  <2>1. Good(path')
    BY <1>1 DEF PairGood
  <2>2. /\ running' \in Build \cup {None} /\ running' \in Loads \cup {None}
        /\ running' = None => path'.build \notin Loads
        /\ click' \in [request : Request, unseen : BOOLEAN]
        /\ latest' = None /\ phase' \in Phase /\ failed' \in BOOLEAN
        /\ step' = "wait" /\ asked' \in BOOLEAN /\ auto' \in BOOLEAN
    BY <1>1, <2>1, BootStep DEF IInv
  <2>3. TypeOK' /\ FilesGood'
    BY <1>1, <2>2 DEF IInv, TypeOK, FilesGood, Step
  <2>4. RunningGood' /\ StepGood'
    BY <2>2 DEF RunningGood, StepGood, Checked, Verified, Renaming
  <2>5. QED BY <2>3, <2>4 DEF IInv
<1>2. /\ path \in File /\ prev \in File /\ NoFile \in File /\ NoFile.whole
      /\ tmp \in File /\ tmp.whole /\ Good(NoFile) /\ PairGood(path, prev)
  BY DEF IInv, TypeOK, FilesGood, Good, NoFile, File, Content
<1>3. CASE Exec
  BY <1>2, <1>3 DEF Exec, IInv, TypeOK, FilesGood, fileVars, outerVars
<1>4. CASE Kill
  <2>1. budget' \in [Moves -> Nat]
    BY <1>4, SpendType DEF Kill, IInv, TypeOK, Moves
  <2>2. QED BY <1>2, <1>4, <2>1 DEF Kill, IInv, TypeOK, FilesGood, outerVars
<1>5. CASE PowerCut
  <2>1. budget' \in [Moves -> Nat]
    BY <1>5, SpendType DEF PowerCut, IInv, TypeOK, Moves
  <2>2. PICK entries \in durable :
           path' = AfterCut(entries.path) /\ prev' = AfterCut(entries.prev)
    BY <1>5 DEF PowerCut
  <2>3. /\ entries.path \in File /\ entries.prev \in File
        /\ PairGood(entries.path, entries.prev)
    BY <2>2 DEF IInv, TypeOK, FilesGood
  <2>4. path' = entries.path /\ prev' = entries.prev
    BY <2>2, <2>3, WholeFile DEF PairGood, Good
  <2>5. QED BY <1>2, <1>5, <2>1, <2>3, <2>4 DEF PowerCut, IInv, TypeOK, outerVars
<1>6. CASE RollBack
  <2>1. budget' \in [Moves -> Nat]
    BY <1>6, SpendType DEF RollBack, IInv, TypeOK, Moves
  <2>2. prev.build # None
    BY <1>2, <1>6, WholeFile DEF RollBack, PairGood, Good
  <2>3. PairGood(prev, NoFile)
    BY <1>2, <2>2 DEF PairGood
  <2>4. settings' \in Settings
    BY <1>6 DEF RollBack, IInv, TypeOK, Settings
  <2>5. QED BY <1>2, <1>6, <2>1, <2>3, <2>4, FilesStep DEF RollBack, IInv
<1>7. QED BY <1>3, <1>4, <1>5, <1>6

(* The channel, the operator and the settings move no file and no pass.    *)
LEMMA OuterSteps ==
    ASSUME IInv,
           \/ PublishManifest
           \/ \E b \in Build : PublishBinary(b)
           \/ \E request \in {"Check", "Install"} : Click(request)
           \/ \E t \in Settings : Set(t)
    PROVE  IInv'
<1>1. UNCHANGED <<running, path, prev, tmp, durable, latest, phase, failed, step, asked, auto>>
  BY DEF PublishManifest, PublishBinary, Click, Set, fileVars, stateVars, passVars
<1>2. budget' \in [Moves -> Nat]
  BY SpendType DEF IInv, TypeOK, PublishManifest, PublishBinary, Click, Set, Moves
<1>3. /\ release' \in [binary : Build, manifest : Build]
      /\ settings' \in Settings
      /\ click' \in [request : Request, unseen : BOOLEAN]
  <2>1. CASE PublishManifest \/ \E b \in Build : PublishBinary(b)
    BY <2>1 DEF IInv, TypeOK, PublishManifest, PublishBinary
  <2>2. CASE \E request \in {"Check", "Install"} : Click(request)
    BY <2>2 DEF IInv, TypeOK, Click, outerVars, Request
  <2>3. CASE \E t \in Settings : Set(t)
    BY <2>3 DEF IInv, TypeOK, Set
  <2>4. QED BY <2>1, <2>2, <2>3
<1>4. TypeOK' /\ FilesGood' /\ RunningGood' /\ StepGood'
  BY <1>1, <1>2, <1>3 DEF IInv, TypeOK, FilesGood, RunningGood, StepGood
<1>5. QED BY <1>4 DEF IInv

(* Every step preserves the invariant.                                     *)
LEMMA Inductive == IInv /\ [Next]_vars => IInv'
<1> SUFFICES ASSUME IInv, [Next]_vars PROVE IInv'
  OBVIOUS
<1>1. CASE Wake \/ Check \/ CheckFails \/ BeginInstall \/ ExecFails
  BY <1>1, StillSteps
<1>2. CASE Download \/ Verify \/ InstallFails
  BY <1>2, TempSteps
<1>3. CASE SetAside \/ RenameIn \/ RenameInFails \/ SyncDir
  BY <1>3, SwapSteps
<1>4. CASE Exec \/ Kill \/ PowerCut \/ RollBack
  BY <1>4, BootSteps
<1>5. CASE \/ PublishManifest
           \/ \E b \in Build : PublishBinary(b)
           \/ \E request \in {"Check", "Install"} : Click(request)
           \/ \E t \in Settings : Set(t)
  BY <1>5, OuterSteps
<1>6. CASE UNCHANGED vars
  BY <1>6 DEF vars, IInv, TypeOK, FilesGood, RunningGood, StepGood
<1>7. QED BY <1>1, <1>2, <1>3, <1>4, <1>5, <1>6 DEF Next, Task, Failure

(* The invariant holds throughout.                                         *)
THEOREM Invariance == Spec => []IInv
BY Initially, Inductive, PTL DEF Spec

-----------------------------------------------------------------------------
(* The update task's state is well typed (update.rs UpdateState and the    *)
(* files beside the binary).                                               *)
THEOREM TypeCorrect == Spec => []TypeOK
<1>1. IInv => TypeOK
  BY DEF IInv
<1>2. QED BY <1>1, Invariance, PTL

(* Each of the two names is empty or holds a whole build that preflight    *)
(* let in, and one of them holds a build: the part of PathLoads and        *)
(* Recoverable that is left where a build too old to be asked does not     *)
(* load the config (update.rs download_and_verify, swap).                  *)
NeverTorn ==
    /\ \A f \in {path, prev} : f.build \in {None} \cup {b \in Build : Preflight(b)}
    /\ \E f \in {path, prev} : f.build # None

(* No sequence of failed requests, failed file operations, rollbacks and   *)
(* power cuts in any swap leaves a torn build, one that preflight refused, *)
(* or no build at all, whatever the channel serves.                        *)
THEOREM SwapIsSafe == Spec => []NeverTorn
<1>1. IInv => NeverTorn
  BY DEF IInv, FilesGood, PairGood, Good, Admitted, NeverTorn
<1>2. QED BY <1>1, Invariance, PTL

(* On a channel whose old builds load the config, what preflight admits    *)
(* does.                                                                   *)
LEMMA AdmittedLoads == LegacyLoads => Admitted = Loads
BY SubsetAssumption DEF LegacyLoads, Admitted, Preflight, Loads

(* What stands at the install path loads this node's config, at every      *)
(* moment and after every power cut (update.rs download_and_verify).       *)
THEOREM InstalledLoads == LegacyLoads /\ Spec => []PathLoads
<1>. SUFFICES ASSUME LegacyLoads PROVE Spec => []PathLoads
  OBVIOUS
<1>1. IInv => PathLoads
  BY AdmittedLoads DEF IInv, FilesGood, PairGood, Good, Loads, PathLoads
<1>2. QED BY <1>1, Invariance, PTL

(* One of the two files can always be started (update.rs swap).            *)
THEOREM AlwaysRecoverable == LegacyLoads /\ Spec => []Recoverable
<1>. SUFFICES ASSUME LegacyLoads PROVE Spec => []Recoverable
  OBVIOUS
<1>1. IInv => Recoverable
  BY AdmittedLoads DEF IInv, FilesGood, PairGood, Good, Loads, Recoverable
<1>2. QED BY <1>1, Invariance, PTL

(* The service is down only with no file at its path: no crash loop        *)
(* (update.rs preflight).                                                  *)
THEOREM NoCrashLoop == LegacyLoads /\ Spec => []DownOnlyMidSwap
<1>. SUFFICES ASSUME LegacyLoads PROVE Spec => []DownOnlyMidSwap
  OBVIOUS
<1>1. IInv => DownOnlyMidSwap
  <2>1. IInv => path \in File /\ path.whole /\ (path.build = None => path = NoFile)
    BY WholeFile DEF IInv, TypeOK, FilesGood, PairGood, Good
  <2>2. QED BY <2>1, AdmittedLoads
            DEF IInv, FilesGood, PairGood, Good, RunningGood, DownOnlyMidSwap
<1>2. QED BY <1>1, Invariance, PTL

(* Only the build the last check named is renamed into place (update.rs    *)
(* download_and_verify, the digest).                                       *)
THEOREM OnlyCheckedBuilds == Spec => InstallsWhatWasChecked
<1>1. IInv /\ [Next]_vars => [RenameIn => tmp.build = latest]_vars
  BY DEF IInv, StepGood, Verified, RenameIn
<1>2. QED BY <1>1, Invariance, PTL DEF Spec, InstallsWhatWasChecked

(* An unofficial build gives way only to an Install click (update.rs run). *)
THEOREM OnlyOfficialUnattended == Spec => UnattendedOnlyOfficial
<1>1. IInv /\ [Next]_vars => [RenameIn => running \in Dist \/ asked]_vars
  BY DEF IInv, StepGood, Renaming, RenameIn
<1>2. QED BY <1>1, Invariance, PTL DEF Spec, UnattendedOnlyOfficial

(* The backup is never written with the build being installed (update.rs   *)
(* install, already_installed).                                            *)
THEOREM BackupSpared == Spec => BackupDiffers
<1>1. ASSUME IInv, [Next]_vars
      PROVE  [prev' \in {prev, NoFile} \/ prev'.build # latest']_vars
  <2>1. CASE SetAside
    BY <1>1, <2>1 DEF IInv, StepGood, Checked, SetAside, Files, stateVars
  <2>2. CASE PowerCut
    <3>1. latest' = None /\ IInv' /\ prev' \in File
      BY <1>1, <2>2, Inductive DEF PowerCut, Boot, Fresh, IInv, TypeOK
    <3>2. prev'.whole /\ (prev'.build = None => prev' = NoFile)
      BY <3>1, WholeFile DEF IInv, FilesGood, PairGood, Good
    <3>3. QED BY <3>1, <3>2
  <2>3. CASE RenameInFails \/ RollBack
    BY <2>3 DEF RenameInFails, RollBack, Files
  <2>4. CASE RenameIn
    BY <2>4 DEF RenameIn, Files
  <2>5. CASE \/ Wake \/ Check \/ CheckFails \/ BeginInstall \/ ExecFails
             \/ Download \/ Verify \/ InstallFails \/ SyncDir \/ Exec \/ Kill
    BY <2>5 DEF Wake, Check, CheckFails, BeginInstall, ExecFails, Download, Verify, InstallFails,
                SyncDir, Exec, Kill, fileVars
  <2>6. CASE \/ PublishManifest
             \/ \E b \in Build : PublishBinary(b)
             \/ \E request \in {"Check", "Install"} : Click(request)
             \/ \E t \in Settings : Set(t)
    BY <2>6 DEF PublishManifest, PublishBinary, Click, Set, fileVars
  <2>7. CASE UNCHANGED vars
    BY <2>7 DEF vars
  <2>8. QED BY <1>1, <2>1, <2>2, <2>3, <2>4, <2>5, <2>6, <2>7 DEF Next, Task, Failure
<1>2. QED BY <1>1, Invariance, PTL DEF Spec, BackupDiffers
=============================================================================
