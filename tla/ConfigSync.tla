----------------------------- MODULE ConfigSync -----------------------------
(***************************************************************************)
(* Two-way config sync between one managed monitor (sync.rs) and the       *)
(* website that mints its config versions (api.md section 5, external).    *)
(*                                                                         *)
(* One action per await-delimited step of the sync task, one per request   *)
(* the website handles, one per edit on either side.  Simplifications:     *)
(*  - a config is its synced content (SyncConfig), a member of Config;     *)
(*  - the website's store is the sequence of the configs it has minted, so *)
(*    a push carries its version only and its content is minted[ver];      *)
(*  - hello_ack, status, ping and config_applied change no state that      *)
(*    decides what either side does next, and are left out;                *)
(*  - frames on a dropped socket, and a poll request given up, are either  *)
(*    handled before the loss or never;                                    *)
(*  - a drop is noticed at the select: one that happens during an apply is *)
(*    the same as one right after it, with the frames of the interval lost;*)
(*  - a config.yaml renamed into place is taken to last: write_config_file *)
(*    syncs the file but not its directory.                                *)
(***************************************************************************)
EXTENDS Integers, Sequences

CONSTANTS
    Config,   \* the contents a config can have
    Refused,  \* those the node accepts and the website's validation does not
    Link,     \* the microwaveprop blocks a local edit may leave behind
    Setups    \* how far the monitor is set up at the start, and how often
              \* each move of the environment may happen

(* The environment's moves that a run bounds.  "unlink" bounds the local   *)
(* edits that leave the node without a token.                              *)
Moves == {"local", "unlink", "web", "connect", "drop", "write", "restart"}

ASSUME ConfigAssumption == Refused \subseteq Config /\ Config # Refused
ASSUME LinkAssumption == Link \subseteq {"none", "blank", "token"}
ASSUME SetupsAssumption ==
    Setups \subseteq [start : {"new", "linked", "synced"}, budget : [Moves -> Nat]]

VARIABLES
    mem,       \* the config in AppState.config
    disk,      \* the config in config.yaml
    bumps,     \* PUTs that have applied and not yet bumped sync_notify
    unseen,    \* sync_notify changed since the sync task last read it
    report,    \* ReportState
    phase,     \* where the sync task stands
    job,       \* the push between apply_push's read and its write
    toServer,  \* frames and requests on the way up
    toNode,    \* frames and responses on the way down
    online,    \* the website serves this socket: it has handled its hello
    minted,    \* the website's configs, by version
    parted,    \* an edit has slipped from between the two, and since then
               \* neither a report nor a push has made up for it (history)
    budget     \* what the environment has left

nodeVars == <<report, phase, job>>
netVars == <<toServer, toNode, online>>
vars == <<mem, disk, bumps, unseen, report, phase, job, toServer, toNode,
          online, minted, parted, budget>>

-----------------------------------------------------------------------------
(* Types                                                                   *)

Stored == [ver : Nat, cfg : Config, link : {"none", "blank", "token"}]
ReportState == [pending : BOOLEAN, awaiting : BOOLEAN, dirty : BOOLEAN]
Phase == {"idle", "waiting", "connecting", "session", "closed",
          "posting", "topull", "pulling"}
Job == [ver : Nat, only : BOOLEAN]
UpMsg == [type : {"hello", "report", "get"}, ver : Nat, cfg : Config]
DownMsg == [type : {"push", "accepted", "error", "unmodified"}, ver : Nat]

NoJob == [ver |-> 0, only |-> FALSE]
NoReport == [pending |-> FALSE, awaiting |-> FALSE, dirty |-> FALSE]

TypeOK ==
    /\ mem \in Stored
    /\ disk \in Stored
    /\ bumps \in Nat
    /\ unseen \in BOOLEAN
    /\ report \in ReportState
    /\ phase \in Phase
    /\ job \in Job
    /\ toServer \in Seq(UpMsg)
    /\ toNode \in Seq(DownMsg)
    /\ online \in BOOLEAN
    /\ minted \in Seq(Config \ Refused)
    /\ parted \in BOOLEAN
    /\ budget \in [Moves -> Nat]

-----------------------------------------------------------------------------
(* Initial states: a monitor never configured, one configured on the       *)
(* website only, one already in step.                                      *)

InitConfig(start) ==
    \E c \in Config, s \in Config \ Refused :
        /\ minted = IF start = "new" THEN <<>> ELSE <<s>>
        /\ start = "synced" => c = s
        /\ mem = [ver |-> IF start = "synced" THEN 1 ELSE 0,
                  cfg |-> c, link |-> "token"]

Init ==
    /\ \E setup \in Setups : InitConfig(setup.start) /\ budget = setup.budget
    /\ disk = mem
    /\ bumps = 0
    /\ unseen = FALSE
    /\ report = NoReport
    /\ phase = "idle"
    /\ job = NoJob
    /\ toServer = <<>>
    /\ toNode = <<>>
    /\ online = FALSE
    /\ parted = FALSE

-----------------------------------------------------------------------------
(* Helpers                                                                 *)

Spend(move) ==
    /\ budget[move] > 0
    /\ budget' = [budget EXCEPT ![move] = @ - 1]

MarkEditOverlapping(r) == [r EXCEPT !.pending = TRUE, !.awaiting = FALSE]  \* mutant
AckedForgetting(r) == NoReport                                              \* mutant

(* ReportState::mark_edit, ReportState::acked, and what run_session does   *)
(* to the state it inherits.                                               *)
MarkEdit(r) ==
    IF r.awaiting THEN [r EXCEPT !.dirty = TRUE] ELSE [r EXCEPT !.pending = TRUE]
Acked(r) == [pending |-> r.dirty, awaiting |-> FALSE, dirty |-> FALSE]
NewSessionAwaiting(r) == [r EXCEPT !.pending = r.pending \/ r.dirty, !.dirty = FALSE]  \* mutant
NewSession(r) == [pending |-> r.pending \/ r.dirty, awaiting |-> FALSE, dirty |-> FALSE]

DecidePushRepeated(v, cfg, current) ==  \* mutant: < for <=
    IF v < current.ver THEN "Stale"
    ELSE IF cfg = current.cfg THEN "VersionOnly" ELSE "Apply"

(* decide_push: what to do with version v, whose content is cfg.           *)
DecidePush(v, cfg, current) ==
    IF v <= current.ver THEN "Stale"
    ELSE IF cfg = current.cfg THEN "VersionOnly" ELSE "Apply"

(* persist_config_version, under config_write.  The running version moves  *)
(* before the write: a failed write leaves the file behind it.             *)
PersistVersion(v) ==
    \/ /\ mem.link = "none" \/ mem.ver = v
       /\ UNCHANGED <<mem, disk, budget>>
    \/ /\ mem.link # "none" /\ mem.ver # v
       /\ mem' = [mem EXCEPT !.ver = v]
       /\ \/ disk' = mem' /\ UNCHANGED budget
          \/ Spend("write") /\ UNCHANGED disk

(* apply_config with the update to_config_update builds: the token is the  *)
(* running one, and a node without a block gets one with no token.         *)
ApplyPushed(v) ==
    \/ /\ mem' = [ver |-> v, cfg |-> minted[v],
                  link |-> IF mem.link = "none" THEN "blank" ELSE mem.link]
       /\ disk' = mem'
       /\ UNCHANGED budget
    \/ Spend("write") /\ UNCHANGED <<mem, disk>>

(* Reports on the way up, and acknowledgements on the way down.            *)
InFlight ==
    {i \in 1..Len(toServer) : toServer[i].type = "report"}
    \cup {-i : i \in {j \in 1..Len(toNode) : toNode[j].type = "accepted"}}

ReportBody == [type |-> "report", ver |-> mem.ver, cfg |-> mem.cfg]

CloseSocket ==
    /\ toServer' = <<>>
    /\ toNode' = <<>>
    /\ online' = FALSE

(* The session stands in its select!: the loop's head has nothing to send. *)
Selecting ==
    /\ phase = "session"
    /\ job.ver = 0
    /\ ~(report.pending /\ ~report.awaiting)

(* The task reads one frame at a time, and none while it works on a push.  *)
Receive(type) ==
    /\ job.ver = 0
    /\ toNode # <<>>
    /\ Head(toNode).type = type
    /\ toNode' = Tail(toNode)

Handle(type) ==
    /\ toServer # <<>>
    /\ Head(toServer).type = type
    /\ toServer' = Tail(toServer)

Reply(type, v) == toNode' = Append(toNode, [type |-> type, ver |-> v])

-----------------------------------------------------------------------------
(* Local edits: PUT /api/config                                            *)


(* apply_config succeeds; the version carries over with the block.  A PUT  *)
(* that fails changes nothing.                                             *)
PutConfig(c, l) ==
    /\ IF l = "token" THEN Spend("local") ELSE Spend("unlink")
    /\ mem' = [ver |-> IF l = "none" THEN 0 ELSE mem.ver, cfg |-> c, link |-> l]
    /\ disk' = mem'
    /\ bumps' = bumps + 1
    /\ UNCHANGED <<unseen, nodeVars, netVars, minted, parted>>


(* put_config wakes the sync task once apply_config has returned.          *)
Bump ==
    /\ bumps > 0
    /\ bumps' = bumps - 1
    /\ unseen' = TRUE
    /\ UNCHANGED <<mem, disk, nodeVars, netVars, minted, parted, budget>>

-----------------------------------------------------------------------------
(* The sync task between sessions: run, wait_for_token, latch_local_edit   *)

FindNoToken ==
    /\ phase = "idle" /\ mem.link # "token"
    /\ phase' = "waiting"
    /\ UNCHANGED <<mem, disk, bumps, unseen, report, job, netVars, minted, parted, budget>>

(* edits.changed() resolves, or the recheck interval passes; resolving     *)
(* marks the edit seen.                                                    *)
WakeUp ==
    /\ phase = "waiting"
    /\ phase' = "idle"
    /\ unseen' = FALSE
    /\ parted' = (parted \/ unseen)
    /\ UNCHANGED <<mem, disk, bumps, report, job, netVars, minted, budget>>

LatchLocalEdit ==
    /\ phase = "idle" /\ mem.link = "token"
    /\ report' = IF unseen THEN MarkEdit(report) ELSE report
    /\ unseen' = FALSE
    /\ phase' = "connecting"
    /\ UNCHANGED <<mem, disk, bumps, job, netVars, minted, parted, budget>>

Connect ==
    /\ phase = "connecting"
    /\ Spend("connect")
    /\ phase' = "session"
    /\ report' = NewSession(report)
    /\ toServer' = <<[type |-> "hello", ver |-> mem.ver, cfg |-> mem.cfg]>>
    /\ toNode' = <<>>
    /\ online' = FALSE
    /\ UNCHANGED <<mem, disk, bumps, unseen, job, minted, parted>>

ConnectFails ==
    /\ phase = "connecting"
    /\ phase' = "closed"
    /\ UNCHANGED <<mem, disk, bumps, unseen, report, job, netVars, minted, parted, budget>>

-----------------------------------------------------------------------------
(* A session: run_session and handle_server_frame                          *)

SendReport ==
    /\ phase = "session" /\ job.ver = 0
    /\ report.pending /\ ~report.awaiting
    /\ toServer' = Append(toServer, ReportBody)
    /\ report' = [report EXCEPT !.awaiting = TRUE]
    /\ parted' = FALSE
    /\ UNCHANGED <<mem, disk, bumps, unseen, phase, job, toNode, online, minted, budget>>

(* A push, over the socket or as the answer to a poll: apply_push reads    *)
(* the running config and decides, with no lock held until it writes.      *)
BeginPush ==
    /\ Selecting \/ phase = "pulling"
    /\ Receive("push")
    /\ LET v == Head(toNode).ver
           decision == DecidePush(v, minted[v], mem)
       IN  /\ job' = IF decision = "Stale" THEN job
                     ELSE [ver |-> v, only |-> decision = "VersionOnly"]
           /\ phase' = IF decision = "Stale" /\ phase = "pulling" THEN "idle" ELSE phase
    /\ UNCHANGED <<mem, disk, bumps, unseen, report, toServer, online, minted, parted, budget>>

FinishPush ==
    /\ job.ver # 0
    /\ IF job.only THEN PersistVersion(job.ver) ELSE ApplyPushed(job.ver)
    /\ job' = NoJob
    /\ phase' = IF phase = "pulling" THEN "idle" ELSE phase
    /\ parted' = CASE job.only -> parted /\ InFlight # {}
                   [] ~job.only /\ mem'.ver = job.ver -> InFlight # {}
                   [] OTHER -> parted
    /\ UNCHANGED <<bumps, unseen, report, netVars, minted>>

(* config_accepted, or the answer to a POST: a write that fails is logged  *)
(* and the report counts as acknowledged all the same.                     *)
ReceiveAccepted ==
    /\ Selecting \/ phase = "posting"
    /\ Receive("accepted")
    /\ PersistVersion(Head(toNode).ver)
    /\ report' = Acked(report)
    /\ phase' = IF phase = "posting" THEN "topull" ELSE phase
    /\ UNCHANGED <<bumps, unseen, job, toServer, online, minted, parted>>

(* An error frame is logged; a 422 ends the push-up, a 304 the cycle.      *)
ReceiveNothing ==
    /\ Selecting \/ phase \in {"posting", "pulling"}
    /\ Receive("error") \/ Receive("unmodified")
    /\ phase' = CASE phase = "posting" -> "topull"
                  [] phase = "pulling" -> "idle"
                  [] OTHER -> phase
    /\ UNCHANGED <<mem, disk, bumps, unseen, report, job, toServer, online, minted, parted, budget>>

(* The session reads sync_notify; a changed token ends it.                 *)
ReceiveEdit ==
    /\ Selecting /\ unseen
    /\ unseen' = FALSE
    /\ report' = MarkEdit(report)
    /\ IF mem.link = "token" THEN UNCHANGED <<phase, netVars>>
                             ELSE phase' = "closed" /\ CloseSocket
    /\ UNCHANGED <<mem, disk, bumps, job, minted, parted, budget>>

Drop ==
    /\ phase = "session" /\ job.ver = 0
    /\ Spend("drop")
    /\ phase' = "closed"
    /\ CloseSocket
    /\ UNCHANGED <<mem, disk, bumps, unseen, report, job, minted, parted>>

-----------------------------------------------------------------------------
(* The polling fallback: poll_cycle                                        *)

(* Not yet due: run goes back to the head of its loop.                     *)
SkipPoll ==
    /\ phase = "closed"
    /\ phase' = "idle"
    /\ UNCHANGED <<mem, disk, bumps, unseen, report, job, netVars, minted, parted, budget>>

PostReport ==
    /\ phase = "closed" /\ report.pending
    /\ toServer' = <<ReportBody>>
    /\ phase' = "posting"
    /\ parted' = FALSE
    /\ UNCHANGED <<mem, disk, bumps, unseen, report, job, toNode, online, minted, budget>>

PullConfig ==
    /\ phase = "topull" \/ (phase = "closed" /\ ~report.pending)
    /\ toServer' = <<[type |-> "get", ver |-> mem.ver, cfg |-> mem.cfg]>>
    /\ phase' = "pulling"
    /\ UNCHANGED <<mem, disk, bumps, unseen, report, job, toNode, online, minted, parted, budget>>

(* A request fails, before or after the website handled it.                *)
PollFails ==
    /\ phase \in {"posting", "pulling"} /\ job.ver = 0
    /\ Spend("drop")
    /\ phase' = IF phase = "posting" THEN "topull" ELSE "idle"
    /\ CloseSocket
    /\ UNCHANGED <<mem, disk, bumps, unseen, report, job, minted, parted>>

-----------------------------------------------------------------------------
(* The website (external)                                                  *)

Version == Len(minted)

Mint(c) ==
    IF c \in Refused
    THEN Reply("error", 0) /\ UNCHANGED minted
    ELSE Reply("accepted", Version + 1) /\ minted' = Append(minted, c)

ServerHello ==
    /\ Handle("hello")
    /\ online' = TRUE
    /\ CASE Version = 0 -> Mint(Head(toServer).cfg)
         [] Head(toServer).ver < Version -> Reply("push", Version) /\ UNCHANGED minted
         [] OTHER -> UNCHANGED <<toNode, minted>>
    /\ UNCHANGED <<mem, disk, bumps, unseen, nodeVars, parted, budget>>

ServerReport ==
    /\ Handle("report")
    /\ Mint(Head(toServer).cfg)
    /\ UNCHANGED <<mem, disk, bumps, unseen, nodeVars, online, parted, budget>>

ServerGet ==
    /\ Handle("get")
    /\ IF Head(toServer).ver = Version THEN Reply("unmodified", 0) ELSE Reply("push", Version)
    /\ UNCHANGED <<mem, disk, bumps, unseen, nodeVars, online, minted, parted, budget>>

(* An edit on the website is pushed to the socket it serves; one made      *)
(* while a new socket's hello is on its way may be pushed ahead of it.     *)
WebEdit(c) ==
    /\ Spend("web")
    /\ minted' = Append(minted, c)
    /\ \/ phase = "session" /\ Reply("push", Version + 1)
       \/ ~online /\ UNCHANGED toNode
    /\ UNCHANGED <<mem, disk, bumps, unseen, nodeVars, toServer, online, parted>>

-----------------------------------------------------------------------------
RestartUnversioned ==  \* mutant: config_version is not read back from the file
    /\ Spend("restart")
    /\ mem' = [disk EXCEPT !.ver = 0]
    /\ UNCHANGED parted
    /\ bumps' = 0
    /\ unseen' = FALSE
    /\ report' = NoReport
    /\ phase' = "idle"
    /\ job' = NoJob
    /\ CloseSocket
    /\ UNCHANGED <<disk, minted>>

(* What the node has still to tell the website.                            *)
Owes == bumps > 0 \/ unseen \/ report.pending \/ report.awaiting \/ report.dirty

(* The process stops, by a crash, a power cut or a self-update, and starts *)
(* from the file, which has kept what was renamed into place.              *)
Restart ==
    /\ Spend("restart")
    /\ mem' = disk
    /\ parted' = (parted \/ Owes \/ mem # disk)
    /\ bumps' = 0
    /\ unseen' = FALSE
    /\ report' = NoReport
    /\ phase' = "idle"
    /\ job' = NoJob
    /\ CloseSocket
    /\ UNCHANGED <<disk, minted>>

SyncTask ==
    \/ FindNoToken \/ WakeUp \/ LatchLocalEdit
    \/ SendReport \/ BeginPush \/ FinishPush \/ ReceiveAccepted
    \/ ReceiveNothing \/ ReceiveEdit

Poll == PostReport \/ PullConfig

Server == ServerHello \/ ServerReport \/ ServerGet

Next ==
    \/ SyncTask
    \/ Poll
    \/ Server
    \/ Connect \/ ConnectFails \/ SkipPoll
    \/ Bump
    \/ \E c \in Config, l \in Link : PutConfig(c, l)
    \/ \E c \in Config \ Refused : WebEdit(c)
    \/ Drop \/ PollFails \/ Restart

Spec == Init /\ [][Next]_vars

(* The task runs on: its steps, the handler's bump and the website's       *)
(* answers are not delayed for ever, a connection attempt ends, and a      *)
(* cycle that keeps coming round finds the poll interval elapsed.  Neither *)
(* edits nor failures have to happen.                                      *)
Fairness ==
    /\ WF_vars(SyncTask)
    /\ WF_vars(Server)
    /\ WF_vars(Bump)
    /\ WF_vars(Connect \/ ConnectFails)
    /\ WF_vars(SkipPoll)
    /\ WF_vars(PullConfig)
    /\ SF_vars(Poll)

FairSpec == Spec /\ Fairness

-----------------------------------------------------------------------------
Below(frames, v) == \A i \in 1..Len(frames) : frames[i].ver <= v

(* "Versions are minted only by microwaveprop": no version the node runs,  *)
(* has on disk, is about to record or is being handed is one the website   *)
(* has not minted.                                                         *)
VersionsMinted ==
    /\ disk.ver <= mem.ver
    /\ mem.ver <= Version /\ job.ver <= Version
    /\ Below(toNode, Version)
    /\ Below(toServer, Version)

(* An acknowledgement overtakes nothing: it is above the running version,  *)
(* above the push being applied and above every frame ahead of it, so      *)
(* persist_config_version, which does not compare, never goes back.        *)
AcksAbove(frames, v) ==
    \A j \in 1..Len(frames) : frames[j].type = "accepted" => v <= frames[j].ver
AcksInOrder(frames) ==
    \A j \in 1..Len(frames) : frames[j].type = "accepted" =>
        \A i \in 1..(j - 1) : frames[i].ver <= frames[j].ver
VersionsOrdered ==
    /\ job.ver # 0 => mem.ver < job.ver /\ phase \in {"session", "pulling"}
    /\ AcksAbove(toNode, mem.ver)
    /\ AcksAbove(toNode, job.ver)
    /\ AcksInOrder(toNode)

(* "keeps the node and the website in agreement": a node that owes the     *)
(* website nothing runs the content the website minted its version for.    *)
OwesOrAgrees == Owes \/ mem.ver = 0 \/ mem.cfg = minted[mem.ver]

(* What the code does keep of it.  An edit slips away, and node and        *)
(* website part, when a push takes effect while a report or its            *)
(* acknowledgement is in flight (ReceiveAccepted then records the          *)
(* acknowledged version on the pushed content); when the process ends with *)
(* something still to report, or with a version the file has missed; and   *)
(* when wait_for_token reads the notification.  Nothing else parts them,   *)
(* whatever is edited, lost, refused or not written, and the next report   *)
(* that goes up or push that takes effect, alone on the way, ends it.      *)
AgreesUnlessParted == parted \/ OwesOrAgrees

(* ReportState: awaiting_ack means, in a session, that a config_report is  *)
(* in flight, or its answer on the way back; otherwise no later edit of    *)
(* the session would ever be sent.  And there is one at a time: a newer    *)
(* edit is not "sent as a second, overlapping report".                     *)
AwaitingIsOneReport ==
    /\ \A i, j \in InFlight : i = j
    /\ phase = "session" /\ report.awaiting => InFlight # {}

(* What the node's version is: a register that moves forward through the   *)
(* website's versions, is copied to disk, and falls back only to the copy, *)
(* at a restart, or to nothing, when its block is removed.                 *)
Ledger == INSTANCE VersionLedger
          WITH ledger <- minted, running <- mem.ver, saved <- disk.ver
LedgerSpec == Ledger!Spec

(* Unless they have parted for good, every edit is reported in the end,    *)
(* over this session, the next or a poll, and the two sides end up on the  *)
(* same version with the same content.                                     *)
InStep == mem.ver = Version /\ (Version = 0 \/ mem.cfg = minted[Version])
EventuallyInStep == <>[](parted \/ (~Owes /\ InStep))
=============================================================================
