--------------------------- MODULE UploadPipeline ---------------------------
(***************************************************************************)
(* The way of a measurement (worker.rs run_inner, server.rs bridge_loop,   *)
(* store.rs, uploader.rs): worker thread, mpsc channel, bridge thread,     *)
(* ring buffer, broadcast channel, retry queue, website.                   *)
(*                                                                         *)
(* An integration window is its number, a config its generation and        *)
(* whether it uploads; a measurement carries which window and which        *)
(* generation of worker made it, so that what is stamped on it later can   *)
(* be told from what was true.  apply_config is here only the swap of the  *)
(* config and the restart of the worker, one worker at a time, as          *)
(* ConfigApply shows.  The waterfall and raw-level frames that share the   *)
(* broadcast channel appear as the chance that they push a measurement out *)
(* of it.                                                                  *)
(***************************************************************************)
EXTENDS Integers, Sequences, SequencesExt

CONSTANTS
    MaxEntries,  \* MAX_ENTRIES, of the ring buffer and of the retry queue
    Setups       \* whether the first config uploads, and how often each move
                 \* may happen

(* "fault" is a POST that fails or whose answer is lost, "reject" a        *)
(* permanent refusal, "lag" a frame lost to a full broadcast channel.      *)
Moves == {"window", "change", "fault", "reject", "lag", "device", "restart"}

ASSUME MaxEntriesAssumption == MaxEntries \in Nat \ {0}
ASSUME SetupsAssumption ==
    Setups \subseteq [uploads : BOOLEAN, budget : [Moves -> Nat]]

VARIABLES
    cfg,       \* AppState.config
    applying,  \* the config is swapped and the next worker not yet started
    worker,    \* the worker thread
    windows,   \* the windows started so far
    measured,  \* those that gave a measurement (history)
    since,     \* those of before the process last started (history)
    pipe,      \* the mpsc channel to the bridge
    start,     \* the bridge's period_start, 0 for none
    device,    \* the generation AppState.device_info tells of, 0 for none
    store,     \* the ring buffer
    feed,      \* what the uploader has still to read of the broadcast
    pos,       \* where the uploader stands
    queue,     \* its retry queue
    site,      \* the measurements the website holds, as they came
    dropped,   \* those given up for a reason the code names (history)
    budget     \* what the environment has left

workerVars == <<worker, windows, measured, since>>
bridgeVars == <<start, device, store>>
uploadVars == <<pos, queue, site>>
vars == <<cfg, applying, workerVars, pipe, bridgeVars, feed, uploadVars, dropped, budget>>

Pos == {"top", "posting", "recv", "backoff"}
Event == [type : {"info", "started", "measured"}, window : Nat, gen : Nat]
Measured == [window : Nat, stamp : Nat, gen : Nat]
Wire == [window : Nat, stamp : Nat, gen : Nat, gain : Nat, cfg : Nat]

TypeOK ==
    /\ cfg \in [gen : Nat \ {0}, uploads : BOOLEAN]
    /\ applying \in BOOLEAN
    /\ worker \in [phase : {"opening", "between", "window", "ended"}, gen : Nat \ {0},
                   stop : BOOLEAN]
    /\ windows \in Nat /\ measured \subseteq 1..windows
    /\ since \in Nat /\ since <= windows
    /\ pipe \in Seq(Event)
    /\ start \in Nat /\ device \in Nat
    /\ store \in Seq(Measured) /\ Len(store) <= MaxEntries
    /\ feed \in Seq(Measured)
    /\ pos \in Pos
    /\ queue \in Seq(Wire) /\ Len(queue) <= MaxEntries
    /\ site \in Seq(Wire)
    /\ dropped \subseteq 1..windows
    /\ budget \in [Moves -> Nat]

NewWorker(gen) == [phase |-> "opening", gen |-> gen, stop |-> FALSE]

Init ==
    /\ \E setup \in Setups :
          /\ cfg = [gen |-> 1, uploads |-> setup.uploads]
          /\ budget = setup.budget
    /\ applying = FALSE
    /\ worker = NewWorker(1)
    /\ windows = 0 /\ measured = {} /\ since = 0
    /\ pipe = <<>>
    /\ start = 0 /\ device = 0 /\ store = <<>>
    /\ feed = <<>>
    /\ pos = "top" /\ queue = <<>> /\ site = <<>>
    /\ dropped = {}

-----------------------------------------------------------------------------
(* Helpers                                                                 *)

Spend(move) ==
    /\ budget[move] > 0
    /\ budget' = [budget EXCEPT ![move] = @ - 1]

Send(type, window) ==
    pipe' = Append(pipe, [type |-> type, window |-> window, gen |-> worker.gen])

WorkerAt(phase) == worker' = [worker EXCEPT !.phase = phase]

PushUnbounded(q, m) == Append(q, m)  \* mutant
PushNewest(q, m) == IF Len(q) < MaxEntries THEN Append(q, m) ELSE q  \* mutant: drops the newest

(* A bounded push: the oldest entry makes room.                            *)
Push(q, m) == Append(IF Len(q) >= MaxEntries THEN Tail(q) ELSE q, m)

Windows(q) == {q[i].window : i \in 1..Len(q)}

-----------------------------------------------------------------------------
(* The worker thread: run_inner                                            *)

Open ==
    /\ worker.phase = "opening"
    /\ WorkerAt("between")
    /\ Send("info", 0)
    /\ UNCHANGED <<cfg, applying, windows, measured, since, bridgeVars, feed, uploadVars, dropped,
                   budget>>

StartWindow ==
    /\ worker.phase = "between" /\ ~worker.stop
    /\ Spend("window")
    /\ WorkerAt("window")
    /\ windows' = windows + 1
    /\ Send("started", windows + 1)
    /\ UNCHANGED <<cfg, applying, measured, since, bridgeVars, feed, uploadVars, dropped>>

(* A window in which no frame was complete gives no measurement.           *)
FinishWindow ==
    /\ worker.phase = "window"
    /\ WorkerAt("between")
    /\ \/ Send("measured", windows) /\ measured' = measured \cup {windows}
       \/ UNCHANGED <<pipe, measured>>
    /\ UNCHANGED <<cfg, applying, windows, since, bridgeVars, feed, uploadVars, dropped,
                   budget>>

(* The stop flag is seen between two reads, or at the head of the loop.    *)
Stop ==
    /\ worker.phase \in {"between", "window"} /\ worker.stop
    /\ WorkerAt("ended")
    /\ UNCHANGED <<cfg, applying, windows, measured, since, pipe, bridgeVars, feed, uploadVars, dropped,
                   budget>>

DeviceFails ==
    /\ worker.phase \in {"opening", "window"}
    /\ Spend("device")
    /\ WorkerAt("ended")
    /\ UNCHANGED <<cfg, applying, windows, measured, since, pipe, bridgeVars, feed, uploadVars, dropped>>

-----------------------------------------------------------------------------
(* The bridge thread: bridge_loop, stamp_event, convert_worker_event       *)

StampOnce(e) == IF start = 0 THEN e.window ELSE start  \* mutant: the first start is kept

(* PeriodStarted is remembered; the measurement that follows is stamped    *)
(* with it, or with its own time (0) if there is none.                     *)
Stamp(e) == IF e.type = "started" THEN e.window ELSE start

Bridge ==
    /\ pipe # <<>>
    /\ pipe' = Tail(pipe)
    /\ LET e == Head(pipe)
           m == [window |-> e.window, stamp |-> Stamp(e), gen |-> e.gen]
       IN  /\ start' = IF e.type = "started" THEN Stamp(e) ELSE start
           /\ device' = IF e.type = "info" THEN e.gen ELSE device
           /\ IF e.type = "measured"
              THEN store' = Push(store, m) /\ feed' = Append(feed, m)
              ELSE UNCHANGED <<store, feed>>
    /\ UNCHANGED <<cfg, applying, workerVars, uploadVars, dropped, budget>>

-----------------------------------------------------------------------------
(* A config change: the running config, then the worker and its bridge are *)
(* stopped and joined, then the next pair starts.                          *)

ChangeConfig(uploads) ==
    /\ ~applying
    /\ Spend("change")
    /\ cfg' = [gen |-> cfg.gen + 1, uploads |-> uploads]
    /\ worker' = [worker EXCEPT !.stop = TRUE]
    /\ applying' = TRUE
    /\ UNCHANGED <<windows, measured, since, pipe, bridgeVars, feed, uploadVars, dropped>>

Respawn ==
    /\ applying
    /\ worker.phase = "ended" /\ pipe = <<>>
    /\ worker' = NewWorker(cfg.gen)
    /\ start' = 0
    /\ applying' = FALSE
    /\ UNCHANGED <<cfg, windows, measured, since, pipe, device, store, feed, uploadVars, dropped,
                   budget>>

-----------------------------------------------------------------------------
(* The uploader                                                            *)

Gain == IF device = 0 THEN cfg.gen ELSE device

WireOf(m) ==
    [window |-> m.window, stamp |-> m.stamp, gen |-> m.gen, gain |-> Gain, cfg |-> cfg.gen]

(* enqueue_measurement: stamped from the config and the device_info of     *)
(* now, or ignored when uploads are off.                                   *)
Enqueue(m) ==
    IF cfg.uploads
    THEN /\ queue' = Push(queue, WireOf(m))
         /\ dropped' = dropped \cup ((Windows(queue) \cup {m.window}) \ Windows(queue'))
    ELSE /\ UNCHANGED queue
         /\ dropped' = dropped \cup {m.window}

Postable == queue # <<>> /\ cfg.uploads

BeginPost ==
    /\ pos = "top" /\ Postable
    /\ pos' = "posting"
    /\ UNCHANGED <<cfg, applying, workerVars, pipe, bridgeVars, feed, queue, site, dropped, budget>>

(* A measurement is read while waiting for one, or during a backoff.       *)
ReceiveOutsideBackoff ==  \* mutant: a backoff throws away what it reads
    /\ feed # <<>>
    /\ pos \in {"recv", "backoff"} \/ (pos = "top" /\ ~Postable)
    /\ feed' = Tail(feed)
    /\ IF pos = "backoff" THEN UNCHANGED <<queue, dropped>> ELSE Enqueue(Head(feed))
    /\ pos' = IF pos = "backoff" THEN pos ELSE "top"
    /\ UNCHANGED <<cfg, applying, workerVars, pipe, bridgeVars, site, budget>>
Receive ==
    /\ feed # <<>>
    /\ pos \in {"recv", "backoff"} \/ (pos = "top" /\ ~Postable)
    /\ feed' = Tail(feed)
    /\ Enqueue(Head(feed))
    /\ pos' = IF pos = "backoff" THEN pos ELSE "top"
    /\ UNCHANGED <<cfg, applying, workerVars, pipe, bridgeVars, site, budget>>

(* The 5-second tick, or the end of the backoff.                           *)
TickAfterReceive ==  \* mutant: no tick while nothing is received
    /\ pos = "backoff"
    /\ pos' = "recv"
    /\ UNCHANGED <<cfg, applying, workerVars, pipe, bridgeVars, feed, queue, site, dropped, budget>>
Tick ==
    /\ pos \in {"recv", "backoff"}
    /\ pos' = "top"
    /\ UNCHANGED <<cfg, applying, workerVars, pipe, bridgeVars, feed, queue, site, dropped, budget>>

(* The website holds one measurement per measured_at (external).           *)
Held(w) == \E i \in 1..Len(site) : site[i].stamp = w.stamp
Record(w) == site' = IF Held(w) THEN site ELSE Append(site, w)

Posted ==
    /\ pos = "posting" /\ ~Held(Head(queue))
    /\ Record(Head(queue))
    /\ queue' = Tail(queue)
    /\ pos' = "recv"
    /\ UNCHANGED <<cfg, applying, workerVars, pipe, bridgeVars, feed, dropped, budget>>

(* A 4xx but 429: already held (409), or refused.                          *)
PostRefused ==
    /\ pos = "posting"
    /\ \/ Held(Head(queue)) /\ UNCHANGED <<budget, dropped>>
       \/ /\ Spend("reject")
          /\ dropped' = dropped \cup {Head(queue).window}
    /\ queue' = Tail(queue)
    /\ pos' = "top"
    /\ UNCHANGED <<cfg, applying, workerVars, pipe, bridgeVars, feed, site>>

(* 429, 5xx, a timeout or a lost connection, before or after the website   *)
(* recorded it.                                                            *)
PostFailsRequeued ==  \* mutant: the failed measurement goes to the back
    /\ pos = "posting"
    /\ Spend("fault")
    /\ Record(Head(queue)) \/ UNCHANGED site
    /\ queue' = Append(Tail(queue), Head(queue))
    /\ pos' = "backoff"
    /\ UNCHANGED <<cfg, applying, workerVars, pipe, bridgeVars, feed, dropped>>
PostFails ==
    /\ pos = "posting"
    /\ Spend("fault")
    /\ Record(Head(queue)) \/ UNCHANGED site
    /\ pos' = "backoff"
    /\ UNCHANGED <<cfg, applying, workerVars, pipe, bridgeVars, feed, queue, dropped>>

(* The uploader reads too slowly: RecvError::Lagged.                       *)
Lag ==
    /\ feed # <<>>
    /\ Spend("lag")
    /\ feed' = Tail(feed)
    /\ dropped' = dropped \cup {Head(feed).window}
    /\ UNCHANGED <<cfg, applying, workerVars, pipe, bridgeVars, uploadVars>>

-----------------------------------------------------------------------------
(* The measurements still in the channel to the bridge.                    *)
Waiting(p) == {p[i].window : i \in {j \in 1..Len(p) : p[j].type = "measured"}}

Pending == Waiting(pipe) \cup Windows(feed) \cup Windows(queue)

(* Nothing of the pipeline is persisted.                                   *)
Restart ==
    /\ Spend("restart")
    /\ worker' = NewWorker(cfg.gen)
    /\ applying' = FALSE
    /\ pipe' = <<>>
    /\ start' = 0 /\ device' = 0 /\ store' = <<>>
    /\ feed' = <<>>
    /\ pos' = "top" /\ queue' = <<>>
    /\ dropped' = dropped \cup (Pending \ Windows(site))
    /\ since' = windows
    /\ UNCHANGED <<cfg, windows, measured, site>>

Thread == Open \/ FinishWindow \/ Stop

Uploader == BeginPost \/ Receive \/ Tick

Answer == Posted \/ PostRefused \/ PostFails

Next ==
    \/ Thread \/ StartWindow \/ DeviceFails
    \/ Bridge
    \/ \E uploads \in BOOLEAN : ChangeConfig(uploads)
    \/ Respawn
    \/ Uploader \/ Answer \/ Lag
    \/ Restart

Spec == Init /\ [][Next]_vars

(* Threads and tasks run on, a POST is answered or times out, an apply     *)
(* under way goes on.                                                      *)
FairSpec ==
    /\ Spec
    /\ WF_vars(Thread) /\ WF_vars(Bridge) /\ WF_vars(Respawn)
    /\ WF_vars(Uploader) /\ WF_vars(Answer)

-----------------------------------------------------------------------------
(* "The retry queue only earns its keep if an outage preserves the         *)
(* datapoints generated during it": a measurement is on its way, at the    *)
(* website, or given up for a reason the code names.                       *)
Accounted == measured \subseteq Pending \cup Windows(site) \cup dropped

Rising(q) == \A i, j \in 1..Len(q) : i < j => q[i].window < q[j].window

(* Measurements reach the website in the order they were made, through     *)
(* failures, retries and restarts.                                         *)
InOrder ==
    /\ Rising(queue \o feed) /\ Rising(site)
    /\ site # <<>> /\ queue # <<>> => Last(site).window <= Head(queue).window

(* stamp_event: measured_at is the beginning of the measurement's own      *)
(* window, whatever windows went without one and however often worker and  *)
(* bridge were replaced.                                                   *)
StampedWithOwnStart ==
    \A q \in {store, feed, queue, site} : \A i \in 1..Len(q) : q[i].stamp = q[i].window

(* Of the config and the gain stamped beside it only this much holds:      *)
(* neither is older than the measurement, the gain is not newer than the   *)
(* config.  A config applied while the measurement is on its way is        *)
(* stamped on it, although "a measurement needs the beacon and the grid    *)
(* square it was taken with".                                              *)
StampsNeverOlder ==
    \A q \in {queue, site} : \A i \in 1..Len(q) :
        q[i].gen <= q[i].gain /\ q[i].gain <= q[i].cfg

(* What is stamped on a measurement (stamp_event, enqueue_measurement).    *)
Stamped == StampedWithOwnStart /\ StampsNeverOlder

(* The measurements the bridge has had of this process.                    *)
Bridged == {w \in measured : w > since} \ Waiting(pipe)

(* push_back, convert_worker_event: the ring buffer holds measurements of  *)
(* this process and no others, each once and in the order they were made;  *)
(* one is missing only while the buffer is full of newer ones.  So it      *)
(* holds the newest, as many as fit, without a gap, whether or not the     *)
(* uploader has had or has any use for them.                               *)
StoreKeepsNewest ==
    /\ Rising(store) /\ Windows(store) \subseteq Bridged
    /\ \A w \in Bridged \ Windows(store) :
          Len(store) = MaxEntries /\ \A v \in Windows(store) : w < v

(* Every measurement is delivered or given up, unless uploads are off.     *)
EventuallyDelivered == <>[](cfg.uploads => queue = <<>> /\ feed = <<>>)
=============================================================================
