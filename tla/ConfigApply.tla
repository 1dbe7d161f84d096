---------------------------- MODULE ConfigApply ----------------------------
(***************************************************************************)
(* How a config change takes effect (server.rs apply_config,               *)
(* persist_config_version, restart_worker): config.yaml, the running       *)
(* config, the HTTP listener and the worker thread follow one another,     *)
(* under config_write, while other writers wait, the browser behind a PUT  *)
(* goes away, operations fail and the process restarts.                    *)
(*                                                                         *)
(* One action per stretch between two awaits.  A handler whose client      *)
(* disconnects is dropped at the await it stands at; what it handed to a   *)
(* blocking thread goes on.  Simplifications: an invalid body changes      *)
(* nothing and is left out; a file renamed into place is taken to last,    *)
(* though its directory is not synced; a config is the address of          *)
(* http.bind, the one node-local field a push carries along as read ahead  *)
(* of the lock, whether it has a microwaveprop block, the version recorded *)
(* there (0 without one), and a content for all the rest.                  *)
(***************************************************************************)
EXTENDS Integers

CONSTANTS
    Client,   \* the browsers that send PUT /api/config
    Sync,     \* the sync task
    None,     \* no holder, no thread
    Torn,     \* a file two writers have mixed
    Content,  \* what a config says, but for the other fields
    Version,  \* the versions the website mints
    Bind,     \* the addresses of http.bind
    Thread,   \* names for worker threads, used again once ended and joined
    Start,    \* the configs a node may be set up with
    Setups    \* how often each move of the environment may happen

(* "unlink" is a PUT with no microwaveprop block, "fault" a failed bind or *)
(* file operation, "device" a failed open or read of the SDR, "leave" a    *)
(* client that disconnects during its request.                             *)
Moves == {"put", "unlink", "push", "ack", "fault", "device", "leave", "restart"}

ASSUME NamesAssumption ==
    /\ Sync \notin Client
    /\ None \notin Client \cup {Sync} \cup Thread
    /\ Content # {} /\ Bind # {} /\ Thread # {}
ASSUME VersionAssumption == Version \subseteq Nat \ {0}
ASSUME SetupsAssumption == Setups \subseteq [Moves -> Nat]

Applier == Client \cup {Sync}
Config == [content : Content, bind : Bind, block : BOOLEAN, ver : Nat]
ASSUME TornAssumption == Torn \notin Config
ASSUME StartAssumption == Start \subseteq {c \in Config : c.block \/ c.ver = 0}

VARIABLES
    mem,        \* AppState.config
    disk,       \* config.yaml
    serving,    \* the address of the HTTP listener
    lock,       \* who holds config_write
    at,         \* where each applier stands
    new,        \* the config each applier is putting in place
    stray,      \* writes whose handler has been dropped
    handle,     \* AppState.worker_handle
    joining,    \* the worker thread each applier waits for
    thread,     \* the worker threads
    unbumped,   \* the clients whose edit is in effect and not yet announced
    disturbed,  \* a handler was dropped after its write began (history)
    budget      \* what the environment has left

placeVars == <<lock, at, new, stray, joining, unbumped, disturbed>>
workerVars == <<handle, thread>>
vars == <<mem, disk, serving, placeVars, workerVars, budget>>

Place == {"idle", "queued", "bind", "write", "commit", "swap", "join", "bump",
          "torecord", "record"}
State == {"none", "opening", "open", "busy", "lost"}
Worker == [state : State, content : Content, stop : BOOLEAN]

TypeOK ==
    /\ mem \in Config
    /\ disk \in Config \cup {Torn}
    /\ serving \in Bind
    /\ lock \in Applier \cup {None}
    /\ at \in [Applier -> Place]
    /\ new \in [Applier -> Config]
    /\ stray \subseteq Config
    /\ handle \in Thread \cup {None}
    /\ joining \in [Applier -> Thread \cup {None}]
    /\ thread \in [Thread -> Worker]
    /\ unbumped \subseteq Client
    /\ disturbed \in BOOLEAN
    /\ budget \in [Moves -> Nat]

-----------------------------------------------------------------------------
(* A process that starts: boot loads the file, starts a worker on it and   *)
(* listens where it says.                                                  *)
Boots(t, c) ==
    [u \in Thread |-> [state |-> IF u = t THEN "opening" ELSE "none",
                       content |-> c, stop |-> FALSE]]

Init ==
    /\ mem \in Start
    /\ disk = mem
    /\ serving = mem.bind
    /\ lock = None
    /\ at = [a \in Applier |-> "idle"]
    /\ new = [a \in Applier |-> mem]
    /\ stray = {}
    /\ handle \in Thread
    /\ joining = [a \in Applier |-> None]
    /\ thread = Boots(handle, mem.content)
    /\ unbumped = {}
    /\ disturbed = FALSE
    /\ budget \in Setups

-----------------------------------------------------------------------------
(* Helpers                                                                 *)

Spend(move) ==
    /\ budget[move] > 0
    /\ budget' = [budget EXCEPT ![move] = @ - 1]

Move(a, from, to) ==
    /\ at[a] = from
    /\ at' = [at EXCEPT ![a] = to]

(* write_atomic.  Its <path>.tmp has one name: two writes under way at     *)
(* once truncate and fill the same file.                                   *)
Overlapped(c) == stray \ {c} # {} \/ \E a \in Applier : at[a] = "write" /\ new[a] # c
WriteAtomic(c) == disk' \in {c} \cup IF Overlapped(c) THEN {disk, Torn} ELSE {}

Ended(t) == thread[t].state \in {"none", "busy", "lost"}

-----------------------------------------------------------------------------
(* Requests                                                                *)

(* microwaveprop may be null.  The version is found under the lock.        *)
Put(a, c, b, block) ==
    /\ Spend(IF block THEN "put" ELSE "unlink")
    /\ Move(a, "idle", "queued")
    /\ new' = [new EXCEPT ![a] = [content |-> c, bind |-> b, block |-> block, ver |-> 0]]
    /\ UNCHANGED <<mem, disk, serving, lock, stray, joining, unbumped, disturbed, workerVars>>

(* apply_push: the running config is read here, with no lock, and the      *)
(* update is built from it, always with a block.                           *)
Push(c, v) ==
    /\ v > mem.ver
    /\ Spend("push")
    /\ Move(Sync, "idle", IF c = mem.content THEN "torecord" ELSE "queued")
    /\ new' = [new EXCEPT ![Sync] = [content |-> c, bind |-> mem.bind,
                                     block |-> TRUE, ver |-> v]]
    /\ UNCHANGED <<mem, disk, serving, lock, stray, joining, unbumped, disturbed, workerVars>>

(* The website has minted a version for a report, one no older than what   *)
(* runs (ConfigSync's VersionsOrdered); record_version does not compare.   *)
Accepted(v) ==
    /\ v >= mem.ver
    /\ Spend("ack")
    /\ Move(Sync, "idle", "torecord")
    /\ new' = [new EXCEPT ![Sync] = [mem EXCEPT !.ver = v]]
    /\ UNCHANGED <<mem, disk, serving, lock, stray, joining, unbumped, disturbed, workerVars>>

-----------------------------------------------------------------------------
(* persist_config_version                                                  *)

Records == mem.block /\ mem.ver # new[Sync].ver

(* There is no block to record the version in, or it is there already.     *)
NothingToRecord ==
    /\ lock = None
    /\ ~Records
    /\ Move(Sync, "torecord", "idle")
    /\ UNCHANGED <<mem, disk, serving, lock, new, stray, joining, unbumped, disturbed,
                   workerVars, budget>>

LockToRecordUnread ==  \* mutant: the file is built from what the task read before
    /\ lock = None
    /\ Records
    /\ lock' = Sync
    /\ Move(Sync, "torecord", "record")
    /\ mem' = [mem EXCEPT !.ver = new[Sync].ver]
    /\ UNCHANGED <<disk, serving, new, stray, joining, unbumped, disturbed, workerVars, budget>>
LockToRecord ==
    /\ lock = None
    /\ Records
    /\ lock' = Sync
    /\ Move(Sync, "torecord", "record")
    /\ mem' = [mem EXCEPT !.ver = new[Sync].ver]
    /\ new' = [new EXCEPT ![Sync] = mem']
    /\ UNCHANGED <<disk, serving, stray, joining, unbumped, disturbed, workerVars, budget>>

(* The write may fail; the running version has moved all the same.         *)
WriteRecord ==
    /\ Move(Sync, "record", "idle")
    /\ lock' = None
    /\ \/ WriteAtomic(new[Sync]) /\ UNCHANGED budget
       \/ Spend("fault") /\ UNCHANGED disk
    /\ UNCHANGED <<mem, serving, new, stray, joining, unbumped, disturbed, workerVars>>

-----------------------------------------------------------------------------
(* apply_config                                                            *)

LockToApplyUnversioned(a) ==  \* mutant: a local edit drops the version
    /\ lock = None
    /\ lock' = a
    /\ Move(a, "queued", "bind")
    /\ new' = [new EXCEPT ![a].ver = IF a = Sync THEN @ ELSE 0]
    /\ UNCHANGED <<mem, disk, serving, stray, joining, unbumped, disturbed, workerVars, budget>>

(* A local edit keeps the running version, if it keeps a block for it.     *)
LockToApply(a) ==
    /\ lock = None
    /\ lock' = a
    /\ Move(a, "queued", "bind")
    /\ new' = [new EXCEPT ![a].ver = IF a = Sync THEN @
                                     ELSE IF new[a].block THEN mem.ver ELSE 0]
    /\ UNCHANGED <<mem, disk, serving, stray, joining, unbumped, disturbed, workerVars, budget>>

ReleaseForgotten(a) ==  \* mutant: the error path keeps the lock
    /\ lock' = lock
    /\ at' = [at EXCEPT ![a] = "idle"]
    /\ UNCHANGED <<mem, disk, serving, new, stray, joining, unbumped, disturbed, workerVars>>

(* The error path: nothing has changed.                                    *)
Release(a) ==
    /\ lock' = None
    /\ at' = [at EXCEPT ![a] = "idle"]
    /\ UNCHANGED <<mem, disk, serving, new, stray, joining, unbumped, disturbed, workerVars>>

Rebinds(a) == new[a].bind # mem.bind

BindListenerCommits(a) ==  \* mutant: the listener moves before the write
    /\ Move(a, "bind", "write")
    /\ serving' = new[a].bind
    /\ UNCHANGED <<mem, disk, lock, new, stray, joining, unbumped, disturbed, workerVars, budget>>

(* A new address is bound before anything is written, and held.            *)
BindListener(a) ==
    /\ Rebinds(a) => new[a].bind # serving
    /\ Move(a, "bind", "write")
    /\ UNCHANGED <<mem, disk, serving, lock, new, stray, joining, unbumped, disturbed,
                   workerVars, budget>>

BindInUse(a) ==
    /\ at[a] = "bind" /\ Rebinds(a) /\ new[a].bind = serving
    /\ Release(a)
    /\ UNCHANGED budget

ApplyFails(a) ==
    /\ at[a] = "write" \/ (at[a] = "bind" /\ Rebinds(a))
    /\ Spend("fault")
    /\ Release(a)

WriteFile(a) ==
    /\ Move(a, "write", "commit")
    /\ WriteAtomic(new[a])
    /\ UNCHANGED <<mem, serving, lock, new, stray, joining, unbumped, disturbed, workerVars, budget>>

CommitServer(a) ==
    /\ Move(a, "commit", "swap")
    /\ serving' = IF Rebinds(a) THEN new[a].bind ELSE serving
    /\ UNCHANGED <<mem, disk, lock, new, stray, joining, unbumped, disturbed, workerVars, budget>>

AnnouncingAll(a) == {a}  \* mutant: a push is echoed back as an edit
Announcing(a) == {a} \ {Sync}

(* The running config, then restart_worker takes the handle and stops the  *)
(* worker.                                                                 *)
Swap(a) ==
    /\ Move(a, "swap", "join")
    /\ mem' = new[a]
    /\ joining' = [joining EXCEPT ![a] = handle]
    /\ handle' = None
    /\ thread' = [t \in Thread |-> IF t = handle THEN [thread[t] EXCEPT !.stop = TRUE]
                                                 ELSE thread[t]]
    /\ unbumped' = unbumped \cup Announcing(a)
    /\ UNCHANGED <<disk, serving, lock, new, stray, disturbed, budget>>

JoinedAtOnce(a) == TRUE  \* mutant: the stopped worker is not waited for
Joined(a) == joining[a] # None => Ended(joining[a])

SpawnWorkerStopped(a, t) ==  \* mutant: the new worker gets the old stop flag
    /\ Joined(a)
    /\ Ended(t) /\ \A b \in Applier \ {a} : joining[b] # t
    /\ Move(a, "join", IF a = Sync THEN "idle" ELSE "bump")
    /\ thread' = [thread EXCEPT ![t] = [state |-> "opening", content |-> new[a].content,
                                        stop |-> TRUE]]
    /\ handle' = t
    /\ joining' = [joining EXCEPT ![a] = None]
    /\ lock' = None
    /\ UNCHANGED <<mem, disk, serving, new, stray, unbumped, disturbed, budget>>
SpawnWorker(a, t) ==
    /\ Joined(a)
    /\ Ended(t) /\ \A b \in Applier \ {a} : joining[b] # t
    /\ Move(a, "join", IF a = Sync THEN "idle" ELSE "bump")
    /\ thread' = [thread EXCEPT ![t] = [state |-> "opening", content |-> new[a].content,
                                        stop |-> FALSE]]
    /\ handle' = t
    /\ joining' = [joining EXCEPT ![a] = None]
    /\ lock' = None
    /\ UNCHANGED <<mem, disk, serving, new, stray, unbumped, disturbed, budget>>

Bump(a) ==
    /\ Move(a, "bump", "idle")
    /\ unbumped' = unbumped \ {a}
    /\ UNCHANGED <<mem, disk, serving, lock, new, stray, joining, disturbed, workerVars, budget>>

-----------------------------------------------------------------------------
(* The client disconnects and its handler is dropped where it stands: the  *)
(* lock and a held listener go with it, a write or a join under way does   *)
(* not stop.                                                               *)
Leave(a) ==
    /\ at[a] \in {"queued", "bind", "write", "commit", "swap", "join"}
    /\ Spend("leave")
    /\ at' = [at EXCEPT ![a] = "idle"]
    /\ lock' = IF lock = a THEN None ELSE lock
    /\ stray' = stray \cup {c \in {new[a]} : at[a] = "write"}
    /\ joining' = [joining EXCEPT ![a] = None]
    /\ disturbed' = (disturbed \/ at[a] \notin {"queued", "bind"})
    /\ UNCHANGED <<mem, disk, serving, new, unbumped, workerVars>>

StrayWrite(c) ==
    /\ WriteAtomic(c)
    /\ stray' = stray \ {c}
    /\ UNCHANGED <<mem, serving, lock, at, new, joining, unbumped, disturbed, workerVars, budget>>

-----------------------------------------------------------------------------
(* The worker thread: the device has one user at a time, and the stop flag *)
(* is read once it is open.                                                *)

Becomes(t, state) ==
    /\ thread' = [thread EXCEPT ![t].state = state]
    /\ UNCHANGED <<mem, disk, serving, placeVars, handle>>

OpenDevice(t) ==
    /\ thread[t].state = "opening"
    /\ Becomes(t, IF \E u \in Thread : thread[u].state = "open" THEN "busy" ELSE "open")
    /\ UNCHANGED budget

DeviceFails(t) ==
    /\ thread[t].state \in {"opening", "open"}
    /\ Spend("device")
    /\ Becomes(t, "lost")

Quit(t) ==
    /\ thread[t].state = "open" /\ thread[t].stop
    /\ Becomes(t, "none")
    /\ UNCHANGED budget

-----------------------------------------------------------------------------
(* A crash, a power cut or a self-update; a torn file does not load.       *)
Restart ==
    /\ disk # Torn
    /\ Spend("restart")
    /\ mem' = disk
    /\ serving' = disk.bind
    /\ lock' = None
    /\ at' = [a \in Applier |-> "idle"]
    /\ stray' = {}
    /\ joining' = [a \in Applier |-> None]
    /\ unbumped' = {}
    /\ disturbed' = FALSE
    /\ handle' \in Thread
    /\ thread' = Boots(handle', disk.content)
    /\ UNCHANGED <<disk, new>>

Apply(a) ==
    \/ LockToApply(a) \/ BindListener(a) \/ BindInUse(a) \/ WriteFile(a)
    \/ CommitServer(a) \/ Swap(a) \/ Bump(a)
    \/ \E t \in Thread : SpawnWorker(a, t)

Persist == LockToRecord \/ NothingToRecord \/ WriteRecord

Work(t) == OpenDevice(t) \/ Quit(t)

Next ==
    \/ \E a \in Client, c \in Content, b \in Bind, block \in BOOLEAN : Put(a, c, b, block)
    \/ \E c \in Content, v \in Version : Push(c, v)
    \/ \E v \in Version : Accepted(v)
    \/ Persist
    \/ \E a \in Applier : Apply(a) \/ ApplyFails(a)
    \/ \E a \in Client : Leave(a)
    \/ \E c \in stray : StrayWrite(c)
    \/ \E t \in Thread : Work(t) \/ DeviceFails(t)
    \/ Restart

Spec == Init /\ [][Next]_vars

(* Handlers, the sync task and threads run on; nobody has to edit, leave   *)
(* or fail.                                                                *)
FairSpec ==
    /\ Spec
    /\ \A a \in Applier : WF_vars(Apply(a))
    /\ WF_vars(Persist)
    /\ \A t \in Thread : WF_vars(Work(t))
    /\ WF_vars(\E c \in stray : StrayWrite(c))

-----------------------------------------------------------------------------
Same(c, d) == c.content = d.content /\ c.bind = d.bind /\ c.block = d.block

(* config_write: with no writer at work the file, the running config, the  *)
(* listener and the worker say the same, whatever failed; "interleaved,    *)
(* one edit would silently vanish".                                        *)
Settled ==
    /\ Same(disk, mem) /\ disk.ver <= mem.ver
    /\ serving = mem.bind
    /\ handle # None /\ ~thread[handle].stop
    /\ thread[handle].content = mem.content
SettledWhenFree == ~disturbed /\ lock = None => Settled

(* "A failed write must not leave the process listening on an address its  *)
(* on-disk config no longer names (or vice versa)": they part only between *)
(* the write and the commit.                                               *)
ListensWhereDiskSays ==
    \/ serving = disk.bind
    \/ lock # None /\ at[lock] = "commit"
ListensUndisturbed == disturbed \/ ListensWhereDiskSays

(* "The SoapySDR device has to be released before it can be reopened": no  *)
(* two workers are alive at once.                                          *)
OneWorker ==
    disturbed \/ \A t, u \in Thread : ~Ended(t) /\ ~Ended(u) => t = u

(* "Bumped once per successful local config edit": an edit in effect is    *)
(* announced by the time its request ends.                                 *)
EditsAnnounced ==
    ~disturbed /\ (\A a \in Client : at[a] \notin {"join", "bump"}) => unbumped = {}

(* What ConfigSync takes for one step is one: seen from the file, a change *)
(* takes effect at its write, and the running config then follows it.  It  *)
(* keeps the version that runs when it takes effect, whatever was recorded *)
(* while it waited, unless it takes the block away.                        *)
Effective == IF lock # None /\ at[lock] \in {"commit", "swap"} THEN disk ELSE mem
Store == INSTANCE ConfigStore WITH running <- Effective, saved <- disk
AtomicChanges == [][disturbed' \/ Store!Next]_<<Effective, disk>>

(* No request waits for ever, whether it fails, its client leaves or it    *)
(* has to join a worker (server.rs apply_config, restart_worker).          *)
EventuallyServed == <>[](\A a \in Applier : at[a] = "idle")

(* The node goes on measuring, on its current config, unless the device    *)
(* itself fails.                                                           *)
EventuallyMeasuring ==
    <>[](\/ disturbed
         \/ /\ handle # None
            /\ thread[handle].content = mem.content
            /\ thread[handle].state \in {"open", "lost"})
=============================================================================
