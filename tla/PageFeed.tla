------------------------------ MODULE PageFeed ------------------------------
(***************************************************************************)
(* What an open page shows (server.rs WsEvent, broadcaster, ws_handler,    *)
(* snapshot_events, handle_ws, bridge_loop; web/app.js): the daemon keeps  *)
(* a config and a last measurement and broadcasts every change of them; a  *)
(* page is sent a snapshot when its socket opens and the broadcast after   *)
(* it, fetches the config once when it boots, and PUTs what its operator   *)
(* saves.                                                                  *)
(*                                                                         *)
(* Measurements and contents of a config are numbers; a content is made by *)
(* someone's edit.  The device_info, raw level and upload status travel as *)
(* the measurement does and are left out; frames of which nothing is kept, *)
(* rows of the waterfall above all, appear as "row".  There is one page:   *)
(* the others are OtherEdit, as is the sync task.  It saves once at a time:*)
(* app.js saveConfig does not keep an operator from saving again before    *)
(* the answer, and two PUTs of one page under way are left out.            *)
(***************************************************************************)
EXTENDS Integers, Sequences, SequencesExt

CONSTANTS
    BROADCAST_CAPACITY,
    SocketRoom,          \* frames between the daemon's task and the page
    Setups               \* whether the page is booting or open, and how often
                         \* each move may happen

(* "other" is an edit by someone else, "more" typing while a save is under *)
(* way, "drop" a socket that closes or goes dead.                          *)
Moves == {"measure", "other", "row", "type", "more", "save", "refuse", "drop", "restart"}

ASSUME SizesAssumption == BROADCAST_CAPACITY \in Nat \ {0} /\ SocketRoom \in Nat \ {0}
ASSUME SetupsAssumption ==
    Setups \subseteq [start : {"boot", "open"}, budget : [Moves -> Nat]]

VARIABLES
    held,       \* what the daemon holds by topic: the last of the store, the config
    unsent,     \* topics held and not yet broadcast
    task,       \* handle_ws of the page's socket, and the snapshot it has read
    feed,       \* its broadcast receiver
    missed,     \* topics whose last frame the receiver was too slow for (history)
    link,       \* the page's socket: "down", "up", or "dead", half open
    wire,       \* frames on their way to the page
    readout,    \* the measurement on show
    form,       \* the content in the settings form
    formDirty,
    unsaved,    \* the form holds work no PUT has carried (history)
    boot,       \* loadConfig: what it waits for, and the config it got
    save,       \* saveConfig: what it waits for, and the body it sent
    made,       \* contents made so far
    budget      \* what the environment has left

daemonVars == <<held, unsent, made>>
socketVars == <<task, feed, missed, link, wire>>
pageVars == <<readout, form, formDirty, unsaved>>
vars == <<daemonVars, socketVars, pageVars, boot, save, budget>>

Topic == {"measurement", "config"}
Frame == [topic : Topic \cup {"row"}, value : Nat]
NoTask == [at |-> "none", snapshot |-> <<>>]
Live == [at |-> "live", snapshot |-> <<>>]
Idle(value) == [at |-> "none", value |-> value]

Init ==
    /\ \E setup \in Setups :
          /\ budget = setup.budget
          /\ task = IF setup.start = "open" THEN Live ELSE NoTask
          /\ link = IF setup.start = "open" THEN "up" ELSE "down"
          /\ form = IF setup.start = "open" THEN 1 ELSE 0
          /\ boot = IF setup.start = "open" THEN Idle(0) ELSE [at |-> "asked", value |-> 0]
    /\ held = [t \in Topic |-> IF t = "config" THEN 1 ELSE 0]
    /\ unsent = {} /\ made = 1
    /\ feed = <<>> /\ missed = {} /\ wire = <<>>
    /\ readout = 0 /\ formDirty = FALSE /\ unsaved = FALSE
    /\ save = Idle(0)

-----------------------------------------------------------------------------
(* Helpers                                                                 *)

Spend(move) ==
    /\ budget[move] > 0
    /\ budget' = [budget EXCEPT ![move] = @ - 1]

SubscribedLate == task.at = "live"  \* mutant: the snapshot first, then the subscription
Subscribed == task.at # "none"

PushUnbounded(frame) == feed' = Append(feed, frame) /\ missed' = missed  \* mutant

(* What Lagged passes over is the oldest.                                  *)
Push(frame) ==
    LET lagging == Len(feed) >= BROADCAST_CAPACITY
        lost == {t \in Topic : lagging /\ Head(feed).topic = t}
        after == IF lagging THEN Tail(feed) ELSE feed
    IN /\ feed' = Append(after, frame)
       /\ missed' = {t \in missed \cup lost :
                        t # frame.topic /\ ~\E i \in DOMAIN after : after[i].topic = t}

Broadcast(frame) == IF Subscribed THEN Push(frame) ELSE UNCHANGED <<feed, missed>>

-----------------------------------------------------------------------------
(* The daemon: a change is held first and broadcast then.                  *)

(* bridge_loop, for a PeriodMeasurement.                                   *)
Measure ==
    /\ Spend("measure")
    /\ "measurement" \notin unsent
    /\ held' = [held EXCEPT !["measurement"] = @ + 1]
    /\ unsent' = unsent \cup {"measurement"}
    /\ UNCHANGED <<made, socketVars, pageVars, boot, save>>

(* config_write is taken until the worker is restarted.                    *)
ConfigWriteFree == "config" \notin unsent /\ save.at # "applied"

Swapped(content) ==
    /\ held' = [held EXCEPT !["config"] = content]
    /\ unsent' = unsent \cup {"config"}

OtherEdit ==
    /\ Spend("other")
    /\ ConfigWriteFree
    /\ made' = made + 1
    /\ Swapped(made')
    /\ UNCHANGED <<socketVars, pageVars, boot, save>>

Announce(topic) ==
    /\ topic \in unsent
    /\ unsent' = unsent \ {topic}
    /\ Broadcast([topic |-> topic, value |-> held[topic]])
    /\ UNCHANGED <<held, made, task, link, wire, pageVars, boot, save, budget>>

Row ==
    /\ Spend("row")
    /\ Subscribed
    /\ Broadcast([topic |-> "row", value |-> 0])
    /\ UNCHANGED <<daemonVars, task, link, wire, pageVars, boot, save>>

(* PUT /api/config: applied, announced, answered; or refused.              *)
ApplyPut ==
    /\ save.at = "sent" /\ ConfigWriteFree
    /\ Swapped(save.value)
    /\ save' = [save EXCEPT !.at = "applied"]
    /\ UNCHANGED <<made, socketVars, pageVars, boot, budget>>

AnswerPut ==
    /\ save.at = "applied" /\ "config" \notin unsent
    /\ save' = [save EXCEPT !.at = "ok"]
    /\ UNCHANGED <<daemonVars, socketVars, pageVars, boot, budget>>

RefusePut ==
    /\ save.at = "sent"
    /\ Spend("refuse")
    /\ save' = Idle(save.value)
    /\ UNCHANGED <<daemonVars, socketVars, pageVars, boot>>

(* GET /api/config.                                                        *)
AnswerGet ==
    /\ boot.at = "asked"
    /\ boot' = [at |-> "answered", value |-> held["config"]]
    /\ UNCHANGED <<daemonVars, socketVars, pageVars, save, budget>>

-----------------------------------------------------------------------------
(* handle_ws                                                               *)

(* connectWS on the page, ws_handler and the subscription on the daemon.   *)
Connect ==
    /\ link = "down"
    /\ link' = "up" /\ wire' = <<>>
    /\ task' = [at |-> "store", snapshot |-> <<>>]
    /\ feed' = <<>> /\ missed' = {}
    /\ UNCHANGED <<daemonVars, pageVars, boot, save, budget>>

(* snapshot_events reads one lock after the other.                         *)
ReadStore ==
    /\ task.at = "store"
    /\ task' = [at |-> "config",
                snapshot |-> IF held["measurement"] = 0 THEN <<>>
                             ELSE <<[topic |-> "measurement", value |-> held["measurement"]]>>]
    /\ UNCHANGED <<daemonVars, feed, missed, link, wire, pageVars, boot, save, budget>>

ReadConfig ==
    /\ task.at = "config"
    /\ task' = [at |-> "sending",
                snapshot |-> Append(task.snapshot, [topic |-> "config", value |-> held["config"]])]
    /\ UNCHANGED <<daemonVars, feed, missed, link, wire, pageVars, boot, save, budget>>

Room == link = "up" /\ Len(wire) < SocketRoom

SendSnapshot ==
    /\ task.at = "sending" /\ Room
    /\ IF task.snapshot = <<>>
       THEN task' = Live /\ UNCHANGED wire
       ELSE /\ wire' = Append(wire, Head(task.snapshot))
            /\ task' = [task EXCEPT !.snapshot = Tail(@)]
    /\ UNCHANGED <<daemonVars, feed, missed, link, pageVars, boot, save, budget>>

Forward ==
    /\ task = Live /\ Room
    /\ feed # <<>>
    /\ wire' = Append(wire, Head(feed))
    /\ feed' = Tail(feed)
    /\ UNCHANGED <<daemonVars, task, missed, link, pageVars, boot, save, budget>>

-----------------------------------------------------------------------------
(* The page                                                                *)

(* applyConfig                                                             *)
Render(content) == form' = content /\ formDirty' = FALSE

RenderIfCleanAlways(content) == Render(content) /\ UNCHANGED unsaved  \* mutant: formDirty unread

(* onRemoteConfig, and the end of loadConfig: the form is the operator's   *)
(* while it is dirty.                                                      *)
RenderIfClean(content) ==
    /\ IF formDirty THEN UNCHANGED <<form, formDirty>> ELSE Render(content)
    /\ UNCHANGED unsaved

(* onmessage                                                               *)
Deliver ==
    /\ link = "up" /\ wire # <<>>
    /\ wire' = Tail(wire)
    /\ LET frame == Head(wire)
       IN CASE frame.topic = "measurement" ->
                 readout' = frame.value /\ UNCHANGED <<form, formDirty, unsaved>>
            [] frame.topic = "config" -> RenderIfClean(frame.value) /\ UNCHANGED readout
            [] frame.topic = "row" -> UNCHANGED pageVars
    /\ UNCHANGED <<daemonVars, task, feed, missed, link, boot, save, budget>>

(* The rest of loadConfig, once the answer and the list of devices are in. *)
Booted ==
    /\ boot.at = "answered"
    /\ boot' = Idle(0)
    /\ RenderIfClean(boot.value)
    /\ UNCHANGED <<daemonVars, socketVars, readout, save, budget>>

(* The operator works in the form; "more" is while a save is under way.    *)
Type ==
    /\ Spend(IF save.at = "none" THEN "type" ELSE "more")
    /\ made' = made + 1
    /\ form' = made'
    /\ formDirty' = TRUE /\ unsaved' = TRUE
    /\ UNCHANGED <<held, unsent, socketVars, readout, boot, save>>

(* saveConfig, one at a time.                                              *)
Save ==
    /\ save.at = "none"
    /\ form # 0
    /\ Spend("save")
    /\ save' = [at |-> "sent", value |-> form]
    /\ UNCHANGED <<daemonVars, socketVars, pageVars, boot>>

Saved ==
    /\ save.at = "ok"
    /\ save' = Idle(0)
    /\ formDirty' = FALSE
    /\ unsaved' = (unsaved /\ form # save.value)
    /\ UNCHANGED <<daemonVars, socketVars, readout, form, boot, budget>>

-----------------------------------------------------------------------------
(* Sockets that end                                                        *)

LoseSocket(state) ==
    /\ link' = state /\ wire' = <<>>
    /\ task' = NoTask /\ feed' = <<>> /\ missed' = {}

(* It closes, and onclose dials again; or it is half open and nothing more *)
(* comes.                                                                  *)
Drop ==
    /\ link = "up"
    /\ Spend("drop")
    /\ \E state \in {"down", "dead"} : LoseSocket(state)
    /\ UNCHANGED <<daemonVars, pageVars, boot, save>>

SilenceMissed == link = "dead" /\ UNCHANGED vars  \* mutant: the page waits for onclose

(* Two heartbeats are missing: the page dials again.  A socket that works  *)
(* has a frame in every ten seconds.                                       *)
Silence ==
    /\ link = "dead"
    /\ LoseSocket("down")
    /\ UNCHANGED <<daemonVars, pageVars, boot, save, budget>>

(* The process re-executes itself or crashes: the store is empty, the      *)
(* config comes from the file, requests under way fail.                    *)
Restart ==
    /\ Spend("restart")
    /\ held' = [held EXCEPT !["measurement"] = 0]
    /\ unsent' = {}
    /\ LoseSocket("down")
    /\ boot' = IF boot.at = "asked" THEN Idle(0) ELSE boot
    /\ save' = IF save.at \in {"sent", "applied"} THEN Idle(0) ELSE save
    /\ UNCHANGED <<made, pageVars>>

-----------------------------------------------------------------------------
Daemon == (\E topic \in Topic : Announce(topic)) \/ ApplyPut \/ AnswerPut \/ AnswerGet
Socket == ReadStore \/ ReadConfig \/ SendSnapshot \/ Forward
Page == Connect \/ Deliver \/ Booted \/ Saved \/ Silence

Next ==
    \/ Daemon \/ Socket \/ Page
    \/ Measure \/ OtherEdit \/ Row \/ RefusePut
    \/ Type \/ Save
    \/ Drop \/ Restart

Spec == Init /\ [][Next]_vars

(* The daemon's handlers and tasks run on; the browser reads its socket,   *)
(* gets its answers and runs its timers.                                   *)
FairSpec ==
    /\ Spec
    /\ WF_vars(Daemon) /\ WF_vars(Socket)
    /\ WF_vars(Connect) /\ WF_vars(Deliver) /\ WF_vars(Booted) /\ WF_vars(Saved)
    /\ WF_vars(Silence)

-----------------------------------------------------------------------------
(* Properties.                                                             *)

TypeOK ==
    /\ made \in Nat
    /\ held \in [Topic -> Nat] /\ held["config"] \in 1 .. made
    /\ unsent \subseteq Topic /\ missed \subseteq Topic
    /\ task \in [at : {"none", "store", "config", "sending", "live"}, snapshot : Seq(Frame)]
    /\ feed \in Seq(Frame) /\ Len(feed) <= BROADCAST_CAPACITY
    /\ wire \in Seq(Frame) /\ Len(wire) <= SocketRoom
    /\ link \in {"down", "up", "dead"}
    /\ readout \in Nat /\ form \in 0 .. made
    /\ formDirty \in BOOLEAN /\ unsaved \in BOOLEAN
    /\ boot.at \in {"none", "asked", "answered"}
    /\ save.at \in {"none", "sent", "applied", "ok"}
    /\ budget \in [Moves -> Nat]

ShowsMeasurement == held["measurement"] \in {0, readout}
ShowsConfig == formDirty \/ form = held["config"]

(* "An event that lands during the snapshot is then delivered by the loop  *)
(* rather than lost in the gap between the two": once nothing is on its    *)
(* way the page shows what the daemon holds, except for what its receiver  *)
(* was too slow for, and that only until the next frame of its kind.       *)
Drained ==
    /\ task = Live /\ feed = <<>> /\ wire = <<>> /\ unsent = {}
    /\ boot.at = "none" /\ save.at = "none"
NothingInTheGap ==
    Drained =>
        /\ "measurement" \in missed \/ ShowsMeasurement
        /\ "config" \in missed \/ ShowsConfig

(* "A config that arrives mid-edit must not overwrite half-finished work": *)
(* what the operator typed and has not saved is changed by typing alone.   *)
UnsavedKept == [][unsaved /\ form' # form => made' # made]_vars

(* "The snapshot is the whole reason a page never needs reloading": with   *)
(* sockets that close, go dead or fall behind and a daemon that restarts,  *)
(* an open page comes to show what the daemon holds, and stays there.      *)
EventuallyShown ==
    <>[](/\ link = "up"
         /\ "measurement" \in missed \/ ShowsMeasurement
         /\ "config" \in missed \/ ShowsConfig)
=============================================================================
