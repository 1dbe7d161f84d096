------------------------- MODULE ConfigApply_proofs -------------------------
(***************************************************************************)
(* Proofs about ConfigApply, for any number of browsers, contents,         *)
(* addresses and worker threads, and every budget.                         *)
(*                                                                         *)
(* The properties follow from who holds config_write and where the holder  *)
(* stands (Placed, WorkersPlaced): from each place on, one more of file,   *)
(* listener, config and worker has changed.  That the version a change     *)
(* carries is still right when it takes effect (VersionsCarried) needs     *)
(* that only the sync task moves it up, and only under the lock.           *)
(***************************************************************************)
EXTENDS ConfigApply, TLAPS

Held == {"bind", "write", "commit", "swap", "join", "record"}
LockGood == \A a \in Applier : lock = a <=> at[a] \in Held

Building == {"bind", "write", "commit", "swap"}
VersionsCarried ==
    /\ \A a \in Client : at[a] \in Building => new[a].ver = IF new[a].block THEN mem.ver ELSE 0
    /\ at[Sync] \in Building \cup {"queued"} => new[Sync].block /\ new[Sync].ver > mem.ver
    /\ at[Sync] = "torecord" => new[Sync].ver >= mem.ver
    /\ at[Sync] = "record" => new[Sync] = mem
    /\ \A a \in Client : at[a] \notin {"torecord", "record"}

HolderAt(places) == lock # None /\ at[lock] \in places

(* What file, listener and config say, by where the holder stands.         *)
Agree == Same(disk, mem) /\ disk.ver <= mem.ver /\ serving = mem.bind
Placed ==
    /\ ~HolderAt({"commit", "swap", "join"}) => Agree
    /\ HolderAt({"commit"}) => disk = new[lock] /\ serving = mem.bind
    /\ HolderAt({"swap"}) => disk = new[lock] /\ serving = disk.bind
    /\ HolderAt({"join"}) => disk = mem /\ mem = new[lock] /\ serving = mem.bind

(* Which worker may be alive.                                              *)
WorkersPlaced ==
    IF HolderAt({"join"})
    THEN \A t \in Thread : ~Ended(t) => t = joining[lock]
    ELSE /\ handle # None
         /\ \A t \in Thread : ~Ended(t) => t = handle
         /\ ~thread[handle].stop
         /\ thread[handle].content = mem.content

Announced == unbumped \subseteq {a \in Client : at[a] \in {"join", "bump"}}

Undisturbed == disk \in Config /\ stray = {} /\ Placed /\ WorkersPlaced /\ Announced

IInv == TypeOK /\ LockGood /\ VersionsCarried /\ (~disturbed => Undisturbed)

-----------------------------------------------------------------------------
(* Names.                                                                  *)
LEMMA Names ==
    /\ Sync \in Applier /\ Client \subseteq Applier /\ None \notin Applier
    /\ None \notin Thread
    /\ \A a \in Applier : a \in Client \/ a = Sync
    /\ \A a \in Client : a # Sync
BY NamesAssumption DEF Applier

(* The budget stays a budget.                                              *)
LEMMA SpendType ==
    ASSUME budget \in [Moves -> Nat], NEW move \in Moves, Spend(move)
    PROVE  budget' \in [Moves -> Nat]
BY DEF Spend

(* A move of one applier leaves the others where they stand.               *)
LEMMA MoveStep ==
    ASSUME TypeOK, NEW a \in Applier, NEW from, NEW to \in Place, Move(a, from, to)
    PROVE  /\ at' \in [Applier -> Place] /\ at[a] = from /\ at'[a] = to
           /\ \A b \in Applier : b # a => at'[b] = at[b]
BY DEF TypeOK, Move

(* A file has one writer while nobody's handler has been dropped.          *)
LEMMA OneWriter ==
    ASSUME IInv, ~disturbed, NEW a \in Applier, lock = a, at[a] \in {"write", "record"},
           WriteAtomic(new[a])
    PROVE  disk' = new[a]
<1>1. stray = {}
  BY DEF IInv, Undisturbed
<1>2. \A b \in Applier : at[b] = "write" => b = a
  BY DEF IInv, LockGood, Held
<1>3. ~Overlapped(new[a])
  BY <1>1, <1>2 DEF Overlapped
<1>4. QED BY <1>3 DEF WriteAtomic

(* A write leaves a config in the file, or a torn one.                     *)
LEMMA WriteType ==
    ASSUME TypeOK, NEW c \in Config, WriteAtomic(c)
    PROVE  disk' \in Config \cup {Torn}
BY DEF TypeOK, WriteAtomic

-----------------------------------------------------------------------------
(* One complete config, running and on disk, at the start.                 *)
LEMMA Initially == Init => IInv
<1> SUFFICES ASSUME Init PROVE IInv
  OBVIOUS
<1>1. mem \in Config /\ mem.content \in Content /\ mem.bind \in Bind /\ mem.ver \in Nat
  BY StartAssumption DEF Init, Config
<1>2. thread \in [Thread -> Worker] /\ handle \in Thread
  BY <1>1 DEF Init, Boots, Worker, State
<1>3. budget \in [Moves -> Nat]
  BY SetupsAssumption DEF Init
<1>4. TypeOK
  BY <1>1, <1>2, <1>3 DEF Init, TypeOK, Place
<1>5. LockGood /\ VersionsCarried
  BY Names DEF Init, LockGood, VersionsCarried, Held, Building
<1>6. Placed
  BY <1>1 DEF Init, Placed, HolderAt, Agree, Same
<1>7. WorkersPlaced
  BY <1>2, Names DEF Init, WorkersPlaced, HolderAt, Boots, Ended
<1>8. QED BY <1>1, <1>4, <1>5, <1>6, <1>7 DEF Init, IInv, Undisturbed, Announced

-----------------------------------------------------------------------------
(* Requests: one applier leaves "idle"; the lock and all it guards stay.   *)
LEMMA RequestSteps ==
    ASSUME IInv,
           \/ \E a \in Client, c \in Content, b \in Bind, block \in BOOLEAN : Put(a, c, b, block)
           \/ \E c \in Content, v \in Version : Push(c, v)
           \/ \E v \in Version : Accepted(v)
    PROVE  IInv'
<1> DEFINE Asks(a, to, c) ==
             /\ Move(a, "idle", to)
             /\ new' = [new EXCEPT ![a] = c]
             /\ a = Sync => /\ to = "queued" => c.block /\ c.ver > mem.ver
                            /\ to = "torecord" => c.ver >= mem.ver
             /\ a # Sync => to = "queued"
           Request == \E a \in Applier, to \in {"queued", "torecord"}, c \in Config : Asks(a, to, c)
<1>1. PICK a \in Applier, to \in {"queued", "torecord"}, c \in Config : Asks(a, to, c)
  <2>1. mem.content \in Content /\ mem.bind \in Bind /\ mem.ver \in Nat
    BY DEF IInv, TypeOK, Config
  <2>. USE VersionAssumption
  <2>2. ASSUME NEW a \in Client, NEW c \in Content, NEW b \in Bind, NEW block \in BOOLEAN,
               Put(a, c, b, block)
        PROVE  Request
    <3> DEFINE d == [content |-> c, bind |-> b, block |-> block, ver |-> 0]
    <3>1. d \in Config
      BY <2>1 DEF Config
    <3>2. Move(a, "idle", "queued") /\ new' = [new EXCEPT ![a] = d]
      BY <2>2 DEF Put
    <3>3. a \in Applier /\ a # Sync
      BY Names
    <3> HIDE DEF d
    <3>4. QED BY <3>1, <3>2, <3>3
  <2>3. ASSUME NEW c \in Content, NEW v \in Version, Push(c, v)
        PROVE  Request
    <3> DEFINE d == [content |-> c, bind |-> mem.bind, block |-> TRUE, ver |-> v]
    <3>1. d \in Config /\ d.block /\ d.ver > mem.ver /\ d.ver >= mem.ver
      <4>1. v \in Nat /\ v > mem.ver /\ v >= mem.ver
        BY <2>1, <2>3 DEF Push
      <4>2. QED BY <2>1, <4>1 DEF Config
    <3>2. new' = [new EXCEPT ![Sync] = d]
      BY <2>3 DEF Push
    <3>3. \E to \in {"queued", "torecord"} : Move(Sync, "idle", to)
      BY <2>3 DEF Push
    <3> HIDE DEF d
    <3>4. QED BY <3>1, <3>2, <3>3, Names
  <2>4. ASSUME NEW v \in Version, Accepted(v)
        PROVE  Request
    <3> DEFINE d == [mem EXCEPT !.ver = v]
    <3>1. d \in Config /\ d.ver >= mem.ver
      BY <2>1, <2>4 DEF Accepted, IInv, TypeOK, Config
    <3>2. Move(Sync, "idle", "torecord") /\ new' = [new EXCEPT ![Sync] = d]
      BY <2>4 DEF Accepted
    <3> HIDE DEF d
    <3>3. QED BY <3>1, <3>2, Names
  <2>5. QED BY <2>2, <2>3, <2>4
<1>2. /\ UNCHANGED <<mem, disk, serving, lock, stray, joining, unbumped, disturbed, handle, thread>>
  BY DEF Put, Push, Accepted, workerVars
<1>3. budget' \in [Moves -> Nat]
  BY SpendType DEF IInv, TypeOK, Put, Push, Accepted, Moves
<1>4. /\ at' \in [Applier -> Place] /\ at[a] = "idle" /\ at'[a] = to
      /\ \A b \in Applier : b # a => at'[b] = at[b]
  BY <1>1, MoveStep DEF IInv, Place
<1>5. new' \in [Applier -> Config] /\ new'[a] = c /\ \A b \in Applier : b # a => new'[b] = new[b]
  BY <1>1 DEF IInv, TypeOK
<1>6. TypeOK'
  BY <1>2, <1>3, <1>4, <1>5 DEF IInv, TypeOK
<1>7. LockGood' /\ lock # a
  BY <1>2, <1>4 DEF IInv, LockGood, Held
<1>8. VersionsCarried'
  BY <1>1, <1>2, <1>4, <1>5, Names DEF IInv, VersionsCarried, Building
<1>9. ~disturbed => Undisturbed'
  <2>1. lock # None => lock \in Applier /\ at'[lock] = at[lock] /\ new'[lock] = new[lock]
    BY <1>4, <1>5, <1>7 DEF IInv, TypeOK
  <2>2. ~disturbed => Placed' /\ WorkersPlaced'
    BY <1>2, <2>1 DEF IInv, Undisturbed, Placed, WorkersPlaced, HolderAt, Agree, Same, Ended
  <2>3. ~disturbed => Announced'
    BY <1>2, <1>4, Names DEF IInv, Undisturbed, Announced
  <2>4. QED BY <1>2, <2>2, <2>3 DEF IInv, Undisturbed
<1>10. QED BY <1>2, <1>6, <1>7, <1>8, <1>9 DEF IInv

(* The worker threads: they only come nearer to their end.                 *)
LEMMA ThreadSteps ==
    ASSUME IInv, \E t \in Thread : OpenDevice(t) \/ Quit(t) \/ DeviceFails(t)
    PROVE  IInv'
<1>1. PICK t \in Thread, state \in State :
         /\ Becomes(t, state) /\ ~Ended(t)
  BY DEF OpenDevice, Quit, DeviceFails, State, Ended
<1>2. budget' \in [Moves -> Nat]
  BY SpendType DEF IInv, TypeOK, OpenDevice, Quit, DeviceFails, Moves
<1>3. UNCHANGED <<mem, disk, serving, lock, at, new, stray, joining, unbumped, disturbed, handle>>
  BY <1>1 DEF Becomes, placeVars
<1>4. /\ thread' \in [Thread -> Worker]
      /\ \A u \in Thread : /\ thread'[u].stop = thread[u].stop
                           /\ thread'[u].content = thread[u].content
                           /\ ~Ended(u)' => ~Ended(u)
  <2>1. thread' = [thread EXCEPT ![t].state = state]
    BY <1>1 DEF Becomes
  <2>2. thread \in [Thread -> Worker]
    BY DEF IInv, TypeOK
  <2>3. \A u \in Thread : u # t => thread'[u] = thread[u]
    BY <2>1, <2>2
  <2>4. thread'[t] = [thread[t] EXCEPT !.state = state]
    BY <2>1, <2>2
  <2>5. QED BY <1>1, <2>1, <2>2, <2>3, <2>4 DEF Worker, Ended
<1>5. TypeOK'
  BY <1>2, <1>3, <1>4 DEF IInv, TypeOK
<1>6. LockGood' /\ VersionsCarried'
  BY <1>3 DEF IInv, LockGood, VersionsCarried
<1>7. ~disturbed => Undisturbed'
  <2>1. ~disturbed => Placed' /\ Announced'
    BY <1>3 DEF IInv, Undisturbed, Placed, HolderAt, Agree, Same, Announced
  <2>2. handle # None => handle \in Thread
    BY DEF IInv, TypeOK
  <2>3. HolderAt({"join"})' <=> HolderAt({"join"})
    BY <1>3 DEF HolderAt
  <2>4. ~disturbed => WorkersPlaced'
    <3> SUFFICES ASSUME ~disturbed PROVE WorkersPlaced'
      OBVIOUS
    <3> handle' = handle /\ joining' = joining /\ lock' = lock /\ mem' = mem
      BY <1>3
    <3>1. CASE HolderAt({"join"})
      <4>1. \A u \in Thread : ~Ended(u) => u = joining[lock]
        BY <3>1 DEF IInv, Undisturbed, WorkersPlaced
      <4>2. \A u \in Thread : ~Ended(u)' => u = joining'[lock']
        BY <1>3, <1>4, <4>1
      <4>3. QED BY <2>3, <3>1, <4>2 DEF WorkersPlaced
    <3>2. CASE ~HolderAt({"join"})
      <4>1. /\ handle \in Thread /\ ~thread[handle].stop
            /\ thread[handle].content = mem.content
            /\ \A u \in Thread : ~Ended(u) => u = handle
        BY <2>2, <3>2 DEF IInv, Undisturbed, WorkersPlaced
      <4>2. /\ handle' # None /\ ~thread'[handle'].stop
            /\ thread'[handle'].content = mem'.content
        BY <1>3, <1>4, <4>1, Names
      <4>3. \A u \in Thread : ~Ended(u)' => u = handle'
        BY <1>3, <1>4, <4>1
      <4>4. QED BY <2>3, <3>2, <4>2, <4>3 DEF WorkersPlaced
    <3>3. QED BY <3>1, <3>2
  <2>5. QED BY <1>3, <2>1, <2>4 DEF IInv, Undisturbed
<1>8. QED BY <1>3, <1>5, <1>6, <1>7 DEF IInv

-----------------------------------------------------------------------------
(* Steps under the lock.  What most of them leave as it is: the worker,    *)
(* and the edits not yet announced.                                        *)
LEMMA WorkersKept ==
    ASSUME IInv, ~disturbed, ~HolderAt({"join"}), ~HolderAt({"join"})',
           UNCHANGED <<handle, thread>>, mem'.content = mem.content
    PROVE  WorkersPlaced'
BY DEF IInv, Undisturbed, WorkersPlaced, Ended

(* A step that announces nothing newer leaves what was announced in order. *)
LEMMA AnnouncedKept ==
    ASSUME IInv, ~disturbed, NEW a \in Applier, at[a] \notin {"join", "bump"},
           \A b \in Applier : b # a => at'[b] = at[b], UNCHANGED unbumped
    PROVE  Announced'
BY Names DEF IInv, Undisturbed, Announced

(* Whoever takes the free lock is its only holder, and so is whoever moves *)
(* on under it; whoever lets it go leaves it free.                         *)
LEMMA LockStep ==
    ASSUME IInv, NEW a \in Applier, lock \in {a, None},
           \A b \in Applier : b # a => at'[b] = at[b],
           lock' = IF at'[a] \in Held THEN a ELSE None
    PROVE  LockGood' /\ \A b \in Applier : b # a => at[b] \notin Held
BY Names DEF IInv, LockGood

(* The sync task takes config_write to record a version.                   *)
LEMMA LockToRecordStep == ASSUME IInv, LockToRecord PROVE IInv'
<1>1. /\ lock = None /\ lock' = Sync /\ Sync \in Applier
      /\ mem' = [mem EXCEPT !.ver = new[Sync].ver] /\ new' = [new EXCEPT ![Sync] = mem']
      /\ mem.block /\ mem.ver # new[Sync].ver
      /\ UNCHANGED <<disk, serving, stray, joining, unbumped, disturbed, handle, thread, budget>>
  BY Names DEF LockToRecord, Records, workerVars
<1>2. /\ at' \in [Applier -> Place] /\ at[Sync] = "torecord" /\ at'[Sync] = "record"
      /\ \A b \in Applier : b # Sync => at'[b] = at[b]
  BY <1>1, MoveStep DEF IInv, LockToRecord, Place
<1>3. /\ mem \in Config /\ new[Sync] \in Config /\ mem.ver \in Nat
      /\ new[Sync].ver \in Nat /\ new[Sync].ver > mem.ver
  <2>1. mem \in Config /\ new[Sync] \in Config
    BY <1>1 DEF IInv, TypeOK
  <2>2. mem.ver \in Nat /\ new[Sync].ver \in Nat
    BY <2>1 DEF Config
  <2>3. new[Sync].ver >= mem.ver
    BY <1>2 DEF IInv, VersionsCarried
  <2>4. mem.ver # new[Sync].ver
    BY <1>1
  <2>5. QED BY <2>1, <2>2, <2>3, <2>4
<1>4. /\ mem' \in Config /\ mem'.content = mem.content /\ mem'.bind = mem.bind
      /\ mem'.block = mem.block /\ mem'.ver = new[Sync].ver
  BY <1>1, <1>3 DEF Config
<1>5. TypeOK'
  BY <1>1, <1>2, <1>4 DEF IInv, TypeOK
<1>6. LockGood' /\ \A b \in Applier : b # Sync => at[b] \notin Held
  BY <1>1, <1>2, LockStep DEF Held
<1>7. VersionsCarried'
  <2>1. new'[Sync] = mem'
    BY <1>1 DEF IInv, TypeOK
  <2>2. QED BY <1>2, <1>6, <2>1, Names DEF IInv, VersionsCarried, Building, Held
<1>8. ~disturbed => Undisturbed'
  <2> SUFFICES ASSUME ~disturbed PROVE Undisturbed'
    OBVIOUS
  <2>1. ~HolderAt({"commit", "swap", "join"}) /\ ~HolderAt({"join"})
    BY <1>1 DEF HolderAt
  <2>2. at'[lock'] = "record"
    BY <1>1, <1>2
  <2>3. Agree'
    <3>1. Agree /\ disk.ver \in Nat /\ mem.ver \in Nat
      BY <1>3, <2>1 DEF IInv, Undisturbed, Placed, Config
    <3>2. disk.ver <= mem'.ver /\ disk' = disk /\ serving' = mem'.bind
      BY <1>1, <1>3, <1>4, <3>1 DEF Agree
    <3>3. Same(disk, mem)'
      BY <1>1, <1>4, <3>1 DEF Agree, Same
    <3>4. QED BY <3>2, <3>3 DEF Agree
  <2>4. Placed'
    BY <2>2, <2>3 DEF Placed, HolderAt
  <2>5. ~HolderAt({"join"})'
    BY <2>2 DEF HolderAt
  <2>6. WorkersPlaced'
    BY <1>1, <1>4, <2>1, <2>5, WorkersKept
  <2>7. Announced'
    BY <1>1, <1>2, AnnouncedKept
  <2>8. QED BY <1>1, <2>4, <2>6, <2>7 DEF IInv, Undisturbed
<1>9. QED BY <1>1, <1>5, <1>6, <1>7, <1>8 DEF IInv

(* It finds nothing to record.                                             *)
LEMMA NothingToRecordStep == ASSUME IInv, NothingToRecord PROVE IInv'
<1>1. /\ lock = None /\ lock' = None /\ Sync \in Applier
      /\ UNCHANGED <<mem, disk, serving, new, stray, joining, unbumped, disturbed, handle, thread,
                     budget>>
  BY Names DEF NothingToRecord, workerVars
<1>2. /\ at' \in [Applier -> Place] /\ at[Sync] = "torecord" /\ at'[Sync] = "idle"
      /\ \A b \in Applier : b # Sync => at'[b] = at[b]
  BY <1>1, MoveStep DEF IInv, NothingToRecord, Place
<1>3. TypeOK'
  BY <1>1, <1>2 DEF IInv, TypeOK
<1>4. LockGood'
  BY <1>1, <1>2, LockStep DEF Held
<1>5. VersionsCarried'
  BY <1>1, <1>2, Names DEF IInv, VersionsCarried, Building
<1>6. ~disturbed => Undisturbed'
  <2>1. ~HolderAt({"commit", "swap", "join"}) /\ ~HolderAt({"join"})
    BY <1>1 DEF HolderAt
  <2>2. /\ ~HolderAt({"commit"})' /\ ~HolderAt({"swap"})' /\ ~HolderAt({"join"})'
    BY <1>1 DEF HolderAt
  <2>3. ~disturbed => Agree'
    BY <1>1, <2>1 DEF IInv, Undisturbed, Placed, Agree, Same
  <2>4. ~disturbed => Placed' /\ WorkersPlaced' /\ Announced'
    BY <1>1, <1>2, <2>1, <2>2, <2>3, WorkersKept, AnnouncedKept DEF Placed
  <2>5. QED BY <1>1, <2>4 DEF IInv, Undisturbed
<1>7. QED BY <1>1, <1>3, <1>4, <1>5, <1>6 DEF IInv

(* It writes the recorded version and gives the lock up.                   *)
LEMMA WriteRecordStep == ASSUME IInv, WriteRecord PROVE IInv'
<1>1. /\ lock' = None /\ Sync \in Applier
      /\ UNCHANGED <<mem, serving, new, stray, joining, unbumped, disturbed, handle, thread>>
  BY Names DEF WriteRecord, workerVars
<1>2. /\ at' \in [Applier -> Place] /\ at[Sync] = "record" /\ at'[Sync] = "idle"
      /\ \A b \in Applier : b # Sync => at'[b] = at[b]
  BY <1>1, MoveStep DEF IInv, WriteRecord, Place
<1>3. /\ lock = Sync /\ mem \in Config /\ new[Sync] = mem
  BY <1>1, <1>2 DEF IInv, TypeOK, LockGood, Held, VersionsCarried
<1>4. /\ WriteAtomic(new[Sync]) \/ disk' = disk
      /\ budget' \in [Moves -> Nat]
  BY SpendType DEF WriteRecord, IInv, TypeOK, Moves
<1>5. TypeOK'
  <2>1. disk' \in Config \cup {Torn}
    BY <1>3, <1>4, WriteType DEF IInv, TypeOK
  <2>2. QED BY <1>1, <1>2, <1>4, <2>1 DEF IInv, TypeOK
<1>6. LockGood' /\ \A b \in Applier : b # Sync => at[b] \notin Held
  BY <1>1, <1>2, <1>3, LockStep DEF Held
<1>7. VersionsCarried'
  BY <1>1, <1>2, Names DEF IInv, VersionsCarried, Building
<1>8. ~disturbed => Undisturbed'
  <2> SUFFICES ASSUME ~disturbed PROVE Undisturbed'
    OBVIOUS
  <2>1. ~HolderAt({"commit", "swap", "join"}) /\ ~HolderAt({"join"})
    BY <1>2, <1>3 DEF HolderAt
  <2>2. disk' \in {mem, disk}
    BY <1>1, <1>2, <1>3, <1>4, OneWriter
  <2>3. disk' \in Config /\ Agree'
    <3>1. Agree /\ disk \in Config /\ mem.ver \in Nat
      BY <1>3, <2>1 DEF IInv, Undisturbed, Placed, Config
    <3>2. QED BY <1>1, <1>3, <2>2, <3>1 DEF Agree, Same
  <2>4. Placed'
    BY <1>1, <2>3 DEF Placed, HolderAt
  <2>5. ~HolderAt({"join"})'
    BY <1>1 DEF HolderAt
  <2>6. WorkersPlaced'
    BY <1>1, <2>1, <2>5, WorkersKept
  <2>7. Announced'
    BY <1>1, <1>2, AnnouncedKept
  <2>8. QED BY <1>1, <2>3, <2>4, <2>6, <2>7 DEF IInv, Undisturbed
<1>9. QED BY <1>1, <1>5, <1>6, <1>7, <1>8 DEF IInv

(* From the lock to the write, and back on an error: nothing has changed.  *)
LEMMA Nothing ==
    ASSUME IInv, ~disturbed, NEW a \in Applier,
           lock \in {a, None}, lock' \in {a, None},
           at[a] \in {"queued", "bind", "write"}, at'[a] \in {"idle", "bind", "write"},
           \A b \in Applier : b # a => at'[b] = at[b],
           UNCHANGED <<mem, disk, serving, stray, unbumped, handle, thread>>
    PROVE  Undisturbed'
<1>1. ~HolderAt({"commit", "swap", "join"}) /\ ~HolderAt({"join"})
  BY DEF HolderAt
<1>2. ~HolderAt({"commit"})' /\ ~HolderAt({"swap"})' /\ ~HolderAt({"join"})'
  BY DEF HolderAt
<1>3. Agree'
  BY <1>1 DEF IInv, Undisturbed, Placed, Agree, Same
<1>4. Placed'
  BY <1>2, <1>3 DEF Placed
<1>5. WorkersPlaced'
  BY <1>1, <1>2, WorkersKept
<1>6. Announced'
  BY AnnouncedKept
<1>7. QED BY <1>4, <1>5, <1>6 DEF IInv, Undisturbed

(* An apply takes config_write and takes its numbers.                      *)
LEMMA LockToApplyStep == ASSUME IInv, NEW a \in Applier, LockToApply(a) PROVE IInv'
<1>1. /\ lock = None /\ lock' = a
      /\ new' = [new EXCEPT ![a].ver = IF a = Sync THEN @
                                       ELSE IF new[a].block THEN mem.ver ELSE 0]
      /\ UNCHANGED <<mem, disk, serving, stray, joining, unbumped, disturbed, handle, thread, budget>>
  BY DEF LockToApply, workerVars
<1>2. /\ at' \in [Applier -> Place] /\ at[a] = "queued" /\ at'[a] = "bind"
      /\ \A b \in Applier : b # a => at'[b] = at[b]
  BY MoveStep DEF IInv, LockToApply, Place
<1>3. /\ new' \in [Applier -> Config]
      /\ \A b \in Applier : b # a => new'[b] = new[b]
      /\ new'[a].ver = IF a = Sync THEN new[a].ver ELSE IF new[a].block THEN mem.ver ELSE 0
      /\ new'[a].block = new[a].block
  <2> DEFINE d == [new[a] EXCEPT !.ver = IF a = Sync THEN @
                                         ELSE IF new[a].block THEN mem.ver ELSE 0]
  <2>1. new' = [new EXCEPT ![a] = d]
    BY <1>1 DEF IInv, TypeOK
  <2>2. /\ d \in Config /\ d.block = new[a].block
        /\ d.ver = IF a = Sync THEN new[a].ver ELSE IF new[a].block THEN mem.ver ELSE 0
    BY DEF IInv, TypeOK, Config
  <2> HIDE DEF d
  <2>3. QED BY <2>1, <2>2 DEF IInv, TypeOK
<1>4. TypeOK'
  BY <1>1, <1>2, <1>3 DEF IInv, TypeOK
<1>5. LockGood' /\ \A b \in Applier : b # a => at[b] \notin Held
  BY <1>1, <1>2, LockStep DEF Held
<1>6. VersionsCarried'
  BY <1>1, <1>2, <1>3, <1>5, Names DEF IInv, VersionsCarried, Building, Held
<1>7. ~disturbed => Undisturbed'
  BY <1>1, <1>2, Nothing
<1>8. QED BY <1>1, <1>4, <1>5, <1>6, <1>7 DEF IInv

(* An apply whose server block changed binds the new port.                 *)
LEMMA BindListenerStep == ASSUME IInv, NEW a \in Applier, BindListener(a) PROVE IInv'
<1>1. UNCHANGED <<mem, disk, serving, lock, new, stray, joining, unbumped, disturbed, handle, thread, budget>>
  BY DEF BindListener, workerVars
<1>2. /\ at' \in [Applier -> Place] /\ at[a] = "bind" /\ at'[a] = "write"
      /\ \A b \in Applier : b # a => at'[b] = at[b]
  BY MoveStep DEF IInv, BindListener, Place
<1>3. lock = a
  BY <1>2 DEF IInv, LockGood, Held
<1>4. TypeOK'
  BY <1>1, <1>2 DEF IInv, TypeOK
<1>5. LockGood'
  BY <1>1, <1>2, <1>3, LockStep DEF Held
<1>6. VersionsCarried'
  BY <1>1, <1>2, Names DEF IInv, VersionsCarried, Building
<1>7. ~disturbed => Undisturbed'
  BY <1>1, <1>2, <1>3, Nothing
<1>8. QED BY <1>1, <1>4, <1>5, <1>6, <1>7 DEF IInv

(* An apply that fails gives config_write up.                              *)
LEMMA ReleaseStep ==
    ASSUME IInv, NEW a \in Applier, at[a] \in {"bind", "write"}, Release(a),
           budget' \in [Moves -> Nat]
    PROVE  IInv'
<1>1. /\ lock' = None
      /\ UNCHANGED <<mem, disk, serving, new, stray, joining, unbumped, disturbed, handle, thread>>
  BY DEF Release, workerVars
<1>2. /\ at' \in [Applier -> Place] /\ at'[a] = "idle"
      /\ \A b \in Applier : b # a => at'[b] = at[b]
  BY DEF IInv, TypeOK, Release, Place
<1>3. lock = a
  BY DEF IInv, LockGood, Held
<1>4. TypeOK'
  BY <1>1, <1>2 DEF IInv, TypeOK
<1>5. LockGood'
  BY <1>1, <1>2, <1>3, LockStep DEF Held
<1>6. VersionsCarried'
  BY <1>1, <1>2, Names DEF IInv, VersionsCarried, Building
<1>7. ~disturbed => Undisturbed'
  BY <1>1, <1>2, <1>3, Nothing
<1>8. QED BY <1>1, <1>4, <1>5, <1>6, <1>7 DEF IInv

-----------------------------------------------------------------------------
(* The change takes effect: file, listener, config and worker in turn.     *)
LEMMA WriteFileStep == ASSUME IInv, NEW a \in Applier, WriteFile(a) PROVE IInv'
<1>1. /\ WriteAtomic(new[a])
      /\ UNCHANGED <<mem, serving, lock, new, stray, joining, unbumped, disturbed, handle, thread, budget>>
  BY DEF WriteFile, workerVars
<1>2. /\ at' \in [Applier -> Place] /\ at[a] = "write" /\ at'[a] = "commit"
      /\ \A b \in Applier : b # a => at'[b] = at[b]
  BY MoveStep DEF IInv, WriteFile, Place
<1>3. lock = a /\ new[a] \in Config /\ a # None
  BY <1>2, Names DEF IInv, LockGood, Held, TypeOK
<1>4. TypeOK'
  <2>1. disk' \in Config \cup {Torn}
    BY <1>1, <1>3, WriteType DEF IInv
  <2>2. QED BY <1>1, <1>2, <2>1 DEF IInv, TypeOK
<1>5. LockGood'
  BY <1>1, <1>2, <1>3, LockStep DEF Held
<1>6. VersionsCarried'
  BY <1>1, <1>2, Names DEF IInv, VersionsCarried, Building
<1>7. ~disturbed => Undisturbed'
  <2> SUFFICES ASSUME ~disturbed PROVE Undisturbed'
    OBVIOUS
  <2>1. ~HolderAt({"commit", "swap", "join"}) /\ ~HolderAt({"join"})
    BY <1>2, <1>3 DEF HolderAt
  <2>2. disk' = new[a]
    BY <1>1, <1>2, <1>3, OneWriter
  <2>3. serving = mem.bind
    BY <2>1 DEF IInv, Undisturbed, Placed, Agree
  <2>4. /\ HolderAt({"commit", "swap", "join"})' /\ ~HolderAt({"swap"})' /\ ~HolderAt({"join"})'
    BY <1>1, <1>2, <1>3 DEF HolderAt
  <2>5. Placed'
    BY <1>1, <1>3, <2>2, <2>3, <2>4 DEF Placed
  <2>6. WorkersPlaced'
    BY <1>1, <2>1, <2>4, WorkersKept
  <2>7. Announced'
    BY <1>1, <1>2, AnnouncedKept
  <2>8. QED BY <1>1, <1>3, <2>2, <2>5, <2>6, <2>7 DEF IInv, Undisturbed
<1>8. QED BY <1>1, <1>4, <1>5, <1>6, <1>7 DEF IInv

(* The new listener replaces the old one.                                  *)
LEMMA CommitServerStep == ASSUME IInv, NEW a \in Applier, CommitServer(a) PROVE IInv'
<1>1. /\ serving' = IF Rebinds(a) THEN new[a].bind ELSE serving
      /\ UNCHANGED <<mem, disk, lock, new, stray, joining, unbumped, disturbed, handle, thread, budget>>
  BY DEF CommitServer, workerVars
<1>2. /\ at' \in [Applier -> Place] /\ at[a] = "commit" /\ at'[a] = "swap"
      /\ \A b \in Applier : b # a => at'[b] = at[b]
  BY MoveStep DEF IInv, CommitServer, Place
<1>3. lock = a /\ new[a] \in Config /\ a # None
  BY <1>2, Names DEF IInv, LockGood, Held, TypeOK
<1>4. TypeOK'
  <2>1. serving' \in Bind
    BY <1>1, <1>3 DEF IInv, TypeOK, Config
  <2>2. QED BY <1>1, <1>2, <2>1 DEF IInv, TypeOK
<1>5. LockGood'
  BY <1>1, <1>2, <1>3, LockStep DEF Held
<1>6. VersionsCarried'
  BY <1>1, <1>2, Names DEF IInv, VersionsCarried, Building
<1>7. ~disturbed => Undisturbed'
  <2> SUFFICES ASSUME ~disturbed PROVE Undisturbed'
    OBVIOUS
  <2>1. HolderAt({"commit"}) /\ ~HolderAt({"join"})
    BY <1>2, <1>3 DEF HolderAt
  <2>2. disk = new[a] /\ serving = mem.bind
    BY <1>3, <2>1 DEF IInv, Undisturbed, Placed
  <2>3. serving' = disk.bind
    BY <1>1, <2>2 DEF Rebinds
  <2>4. /\ HolderAt({"commit", "swap", "join"})' /\ ~HolderAt({"commit"})' /\ ~HolderAt({"join"})'
    BY <1>1, <1>2, <1>3 DEF HolderAt
  <2>5. Placed'
    BY <1>1, <1>3, <2>2, <2>3, <2>4 DEF Placed
  <2>6. WorkersPlaced'
    BY <1>1, <2>1, <2>4, WorkersKept
  <2>7. Announced'
    BY <1>1, <1>2, AnnouncedKept
  <2>8. QED BY <1>1, <2>5, <2>6, <2>7 DEF IInv, Undisturbed
<1>8. QED BY <1>1, <1>4, <1>5, <1>6, <1>7 DEF IInv

(* The running config is replaced.                                         *)
LEMMA SwapStep == ASSUME IInv, NEW a \in Applier, Swap(a) PROVE IInv'
<1>1. /\ mem' = new[a] /\ joining' = [joining EXCEPT ![a] = handle] /\ handle' = None
      /\ unbumped' = unbumped \cup Announcing(a)
      /\ UNCHANGED <<disk, serving, lock, new, stray, disturbed, budget>>
  BY DEF Swap
<1>2. /\ at' \in [Applier -> Place] /\ at[a] = "swap" /\ at'[a] = "join"
      /\ \A b \in Applier : b # a => at'[b] = at[b]
  BY MoveStep DEF IInv, Swap, Place
<1>3. lock = a /\ new[a] \in Config /\ a # None
  BY <1>2, Names DEF IInv, LockGood, Held, TypeOK
<1>4. /\ joining' \in [Applier -> Thread \cup {None}] /\ joining'[a] = handle
      /\ handle \in Thread \cup {None}
  BY <1>1 DEF IInv, TypeOK
<1>5. /\ thread' \in [Thread -> Worker]
      /\ \A t \in Thread : thread'[t].state = thread[t].state
  <2>1. thread \in [Thread -> Worker]
    BY DEF IInv, TypeOK
  <2>2. thread' = [t \in Thread |-> IF t = handle THEN [thread[t] EXCEPT !.stop = TRUE] ELSE thread[t]]
    BY DEF Swap
  <2>3. \A t \in Thread : thread[t] \in Worker /\ thread'[t] \in Worker
                          /\ thread'[t].state = thread[t].state
    BY <2>1, <2>2 DEF Worker
  <2>4. QED BY <2>2, <2>3
<1>6. unbumped' \subseteq Client
  BY <1>1, Names DEF IInv, TypeOK, Announcing
<1>7. TypeOK'
  BY <1>1, <1>2, <1>3, <1>4, <1>5, <1>6 DEF IInv, TypeOK
<1>8. LockGood' /\ \A b \in Applier : b # a => at[b] \notin Held
  BY <1>1, <1>2, <1>3, LockStep DEF Held
<1>9. VersionsCarried'
  <2>1. /\ mem.ver \in Nat /\ new[Sync].ver \in Nat /\ mem'.ver \in Nat
        /\ a # Sync => mem'.ver <= mem.ver
    BY <1>1, <1>2, <1>3, Names DEF IInv, TypeOK, Config, VersionsCarried, Building
  <2>2. QED BY <1>1, <1>2, <1>8, <2>1, Names DEF IInv, VersionsCarried, Building, Held
<1>10. ~disturbed => Undisturbed'
  <2> SUFFICES ASSUME ~disturbed PROVE Undisturbed'
    OBVIOUS
  <2>1. HolderAt({"swap"}) /\ ~HolderAt({"join"})
    BY <1>2, <1>3 DEF HolderAt
  <2>2. disk = new[a] /\ serving = disk.bind
    BY <1>3, <2>1 DEF IInv, Undisturbed, Placed
  <2>3. /\ HolderAt({"commit", "swap", "join"})' /\ ~HolderAt({"commit"})' /\ ~HolderAt({"swap"})'
        /\ HolderAt({"join"})'
    BY <1>1, <1>2, <1>3 DEF HolderAt
  <2>4. Placed'
    BY <1>1, <1>3, <2>2, <2>3 DEF Placed
  <2>5. \A t \in Thread : ~Ended(t) => t = handle
    BY <2>1 DEF IInv, Undisturbed, WorkersPlaced
  <2>6. WorkersPlaced'
    BY <1>1, <1>3, <1>4, <1>5, <2>3, <2>5 DEF WorkersPlaced, Ended
  <2>7. Announced'
    BY <1>1, <1>2, Names DEF IInv, Undisturbed, Announced, Announcing
  <2>8. QED BY <1>1, <2>4, <2>6, <2>7 DEF IInv, Undisturbed
<1>11. QED BY <1>1, <1>7, <1>8, <1>9, <1>10 DEF IInv

(* The worker is replaced by one with the new config.                      *)
LEMMA SpawnWorkerStep ==
    ASSUME IInv, NEW a \in Applier, NEW t \in Thread, SpawnWorker(a, t)
    PROVE  IInv'
<1>1. /\ Joined(a) /\ Ended(t) /\ handle' = t /\ lock' = None
      /\ joining' = [joining EXCEPT ![a] = None]
      /\ UNCHANGED <<mem, disk, serving, new, stray, unbumped, disturbed, budget>>
  BY DEF SpawnWorker
<1>2. /\ at' \in [Applier -> Place] /\ at[a] = "join"
      /\ at'[a] = IF a = Sync THEN "idle" ELSE "bump"
      /\ \A b \in Applier : b # a => at'[b] = at[b]
  BY MoveStep DEF IInv, SpawnWorker, Place
<1>3. lock = a /\ new[a] \in Config /\ a # None
  BY <1>2, Names DEF IInv, LockGood, Held, TypeOK
<1>4. joining' \in [Applier -> Thread \cup {None}]
  BY <1>1 DEF IInv, TypeOK
<1>5. /\ thread' \in [Thread -> Worker]
      /\ thread'[t] = [state |-> "opening", content |-> new[a].content, stop |-> FALSE]
      /\ \A u \in Thread : u # t => thread'[u] = thread[u]
  <2> DEFINE w == [state |-> "opening", content |-> new[a].content, stop |-> FALSE]
  <2>1. w \in Worker
    BY <1>3 DEF Worker, State, Config
  <2>2. thread' = [thread EXCEPT ![t] = w]
    BY DEF SpawnWorker
  <2> HIDE DEF w
  <2>3. /\ thread' \in [Thread -> Worker] /\ thread'[t] = w
        /\ \A u \in Thread : u # t => thread'[u] = thread[u]
    BY <2>1, <2>2 DEF IInv, TypeOK
  <2>4. QED BY <2>3 DEF w
<1>6. TypeOK'
  BY <1>1, <1>2, <1>4, <1>5 DEF IInv, TypeOK
<1>7. LockGood'
  BY <1>1, <1>2, <1>3, LockStep DEF Held
<1>8. VersionsCarried'
  BY <1>1, <1>2, Names DEF IInv, VersionsCarried, Building
<1>9. ~disturbed => Undisturbed'
  <2> SUFFICES ASSUME ~disturbed PROVE Undisturbed'
    OBVIOUS
  <2>1. HolderAt({"join"})
    BY <1>2, <1>3 DEF HolderAt
  <2>2. disk = mem /\ mem = new[a] /\ serving = mem.bind
    BY <1>3, <2>1 DEF IInv, Undisturbed, Placed
  <2>3. mem.ver \in Nat
    BY DEF IInv, TypeOK, Config
  <2>4. Agree'
    BY <1>1, <2>2, <2>3 DEF Agree, Same
  <2>5. Placed' /\ ~HolderAt({"join"})'
    BY <1>1, <2>4 DEF Placed, HolderAt
  <2>6. \A u \in Thread : Ended(u)
    BY <1>1, <1>3, <2>1, Names DEF IInv, Undisturbed, WorkersPlaced, Joined
  <2>7. \A u \in Thread : ~Ended(u)' => u = t
    BY <1>5, <2>6 DEF Ended
  <2>8. /\ handle' # None /\ ~thread'[handle'].stop
        /\ thread'[handle'].content = mem'.content
    BY <1>1, <1>5, <2>2, Names
  <2>9. WorkersPlaced'
    BY <1>1, <2>5, <2>7, <2>8 DEF WorkersPlaced
  <2>10. Announced'
    BY <1>1, <1>2, Names DEF IInv, Undisturbed, Announced
  <2>11. QED BY <1>1, <2>5, <2>9, <2>10 DEF IInv, Undisturbed
<1>10. QED BY <1>1, <1>6, <1>7, <1>8, <1>9 DEF IInv

(* The applied config is announced.                                        *)
LEMMA BumpStep == ASSUME IInv, NEW a \in Applier, Bump(a) PROVE IInv'
<1>1. /\ unbumped' = unbumped \ {a}
      /\ UNCHANGED <<mem, disk, serving, lock, new, stray, joining, disturbed, handle, thread, budget>>
  BY DEF Bump, workerVars
<1>2. /\ at' \in [Applier -> Place] /\ at[a] = "bump" /\ at'[a] = "idle"
      /\ \A b \in Applier : b # a => at'[b] = at[b]
  BY MoveStep DEF IInv, Bump, Place
<1>3. lock # a
  BY <1>2 DEF IInv, LockGood, Held
<1>4. TypeOK'
  BY <1>1, <1>2 DEF IInv, TypeOK
<1>5. LockGood'
  BY <1>1, <1>2, <1>3 DEF IInv, LockGood, Held
<1>6. VersionsCarried'
  BY <1>1, <1>2, Names DEF IInv, VersionsCarried, Building
<1>7. ~disturbed => Undisturbed'
  <2> SUFFICES ASSUME ~disturbed PROVE Undisturbed'
    OBVIOUS
  <2>1. lock # None => at'[lock'] = at[lock]
    BY <1>1, <1>2, <1>3 DEF IInv, TypeOK
  <2>2. Placed' /\ WorkersPlaced'
    BY <1>1, <2>1 DEF IInv, Undisturbed, Placed, WorkersPlaced, HolderAt, Agree, Same, Ended
  <2>3. Announced'
    BY <1>1, <1>2, Names DEF IInv, Undisturbed, Announced
  <2>4. QED BY <1>1, <2>2, <2>3 DEF IInv, Undisturbed
<1>8. QED BY <1>1, <1>4, <1>5, <1>6, <1>7 DEF IInv

-----------------------------------------------------------------------------
(* A handler that is dropped before its write leaves nothing behind.       *)
LEMMA LeaveStep == ASSUME IInv, NEW a \in Client, Leave(a) PROVE IInv'
<1>1. /\ lock' = IF lock = a THEN None ELSE lock
      /\ stray' = stray \cup {c \in {new[a]} : at[a] = "write"}
      /\ joining' = [joining EXCEPT ![a] = None]
      /\ disturbed' = (disturbed \/ at[a] \notin {"queued", "bind"})
      /\ UNCHANGED <<mem, disk, serving, new, unbumped, handle, thread>>
      /\ at[a] \in {"queued", "bind", "write", "commit", "swap", "join"}
      /\ budget' \in [Moves -> Nat]
  BY SpendType DEF Leave, workerVars, Moves, IInv, TypeOK
<1>2. /\ a \in Applier /\ at' \in [Applier -> Place] /\ at'[a] = "idle"
      /\ \A b \in Applier : b # a => at'[b] = at[b]
  BY Names DEF IInv, TypeOK, Leave, Place
<1>3. TypeOK'
  <2>1. joining' \in [Applier -> Thread \cup {None}] /\ new[a] \in Config
    BY <1>1, <1>2 DEF IInv, TypeOK
  <2>2. stray' \subseteq Config /\ disturbed' \in BOOLEAN /\ lock' \in Applier \cup {None}
    BY <1>1, <2>1 DEF IInv, TypeOK
  <2>3. QED BY <1>1, <1>2, <2>1, <2>2 DEF IInv, TypeOK
<1>4. LockGood'
  BY <1>1, <1>2, Names DEF IInv, LockGood, Held
<1>5. VersionsCarried'
  BY <1>1, <1>2, Names DEF IInv, VersionsCarried, Building
<1>6. ~disturbed' => Undisturbed'
  <2> SUFFICES ASSUME ~disturbed' PROVE Undisturbed'
    OBVIOUS
  <2>1. ~disturbed /\ at[a] \in {"queued", "bind"}
    BY <1>1
  <2>2. stray' = {} /\ disk' \in Config
    BY <1>1, <2>1 DEF IInv, Undisturbed
  <2>3. Announced'
    BY <1>1, <1>2, <2>1, AnnouncedKept
  <2>4. CASE lock = a
    <3>1. ~HolderAt({"commit", "swap", "join"}) /\ ~HolderAt({"join"})
      BY <2>1, <2>4 DEF HolderAt
    <3>2. Agree'
      BY <1>1, <2>1, <3>1 DEF IInv, Undisturbed, Placed, Agree, Same
    <3>3. Placed' /\ ~HolderAt({"join"})'
      BY <1>1, <2>4, <3>2 DEF Placed, HolderAt
    <3>4. WorkersPlaced'
      BY <1>1, <2>1, <3>1, <3>3, WorkersKept
    <3>5. QED BY <2>2, <2>3, <3>3, <3>4 DEF Undisturbed
  <2>5. CASE lock # a
    <3>1. /\ lock' = lock
          /\ lock # None => at'[lock] = at[lock] /\ joining'[lock] = joining[lock]
      BY <1>1, <1>2, <2>5 DEF IInv, TypeOK
    <3>2. Placed' /\ WorkersPlaced'
      BY <1>1, <2>1, <3>1 DEF IInv, Undisturbed, Placed, WorkersPlaced, HolderAt, Agree, Same, Ended
    <3>3. QED BY <2>2, <2>3, <3>2 DEF Undisturbed
  <2>6. QED BY <2>4, <2>5
<1>7. QED BY <1>3, <1>4, <1>5, <1>6 DEF IInv

(* A write that outlived the apply that began it reaches the file.         *)
LEMMA StrayWriteStep == ASSUME IInv, NEW c \in stray, StrayWrite(c) PROVE IInv'
<1>1. /\ WriteAtomic(c) /\ stray' = stray \ {c} /\ c \in Config
      /\ UNCHANGED <<mem, serving, lock, at, new, joining, unbumped, disturbed, handle, thread, budget>>
  BY DEF StrayWrite, workerVars, IInv, TypeOK
<1>2. disturbed
  BY DEF IInv, Undisturbed
<1>3. TypeOK'
  <2>1. disk' \in Config \cup {Torn}
    BY <1>1, WriteType DEF IInv
  <2>2. QED BY <1>1, <2>1 DEF IInv, TypeOK
<1>4. LockGood' /\ VersionsCarried'
  BY <1>1 DEF IInv, LockGood, VersionsCarried
<1>5. QED BY <1>1, <1>2, <1>3, <1>4 DEF IInv

(* The process starts again from the file.                                 *)
LEMMA RestartStep == ASSUME IInv, Restart PROVE IInv'
<1>1. /\ disk \in Config /\ mem' = disk /\ disk' = disk /\ serving' = disk.bind /\ lock' = None
      /\ at' = [a \in Applier |-> "idle"] /\ stray' = {} /\ joining' = [a \in Applier |-> None]
      /\ unbumped' = {} /\ disturbed' = FALSE /\ handle' \in Thread /\ new' = new
      /\ thread' = Boots(handle', disk.content)
      /\ budget' \in [Moves -> Nat]
  BY SpendType DEF Restart, Moves, IInv, TypeOK
<1>2. disk.content \in Content /\ disk.bind \in Bind /\ disk.ver \in Nat
  BY <1>1 DEF Config
<1>3. thread' \in [Thread -> Worker]
  BY <1>1, <1>2 DEF Boots, Worker, State
<1>4. TypeOK'
  BY <1>1, <1>2, <1>3 DEF IInv, TypeOK, Place
<1>5. LockGood' /\ VersionsCarried'
  BY <1>1, Names DEF LockGood, VersionsCarried, Held, Building
<1>6. Placed'
  BY <1>1, <1>2 DEF Placed, HolderAt, Agree, Same
<1>7. WorkersPlaced'
  BY <1>1, Names DEF WorkersPlaced, HolderAt, Boots, Ended
<1>8. QED BY <1>1, <1>4, <1>5, <1>6, <1>7 DEF IInv, Undisturbed, Announced

-----------------------------------------------------------------------------
(* Every step preserves the invariant.                                     *)
LEMMA Inductive == IInv /\ [Next]_vars => IInv'
<1> SUFFICES ASSUME IInv, [Next]_vars PROVE IInv'
  OBVIOUS
<1>1. CASE \/ \E a \in Client, c \in Content, b \in Bind, block \in BOOLEAN : Put(a, c, b, block)
           \/ \E c \in Content, v \in Version : Push(c, v)
           \/ \E v \in Version : Accepted(v)
  BY <1>1, RequestSteps
<1>2. CASE Persist
  BY <1>2, LockToRecordStep, NothingToRecordStep, WriteRecordStep DEF Persist
<1>3. ASSUME NEW a \in Applier, Apply(a) PROVE IInv'
  <2>1. CASE LockToApply(a)
    BY <2>1, LockToApplyStep
  <2>2. CASE BindListener(a)
    BY <2>2, BindListenerStep
  <2>3. CASE BindInUse(a)
    BY <2>3, ReleaseStep DEF BindInUse, IInv, TypeOK
  <2>4. CASE WriteFile(a)
    BY <2>4, WriteFileStep
  <2>5. CASE CommitServer(a)
    BY <2>5, CommitServerStep
  <2>6. CASE Swap(a)
    BY <2>6, SwapStep
  <2>7. CASE Bump(a)
    BY <2>7, BumpStep
  <2>8. CASE \E t \in Thread : SpawnWorker(a, t)
    BY <2>8, SpawnWorkerStep
  <2>9. QED BY <1>3, <2>1, <2>2, <2>3, <2>4, <2>5, <2>6, <2>7, <2>8 DEF Apply
<1>4. ASSUME NEW a \in Applier, ApplyFails(a) PROVE IInv'
  <2>1. at[a] \in {"bind", "write"} /\ Release(a) /\ budget' \in [Moves -> Nat]
    BY <1>4, SpendType DEF ApplyFails, Moves, IInv, TypeOK
  <2>2. QED BY <2>1, ReleaseStep
<1>5. ASSUME NEW a \in Client, Leave(a) PROVE IInv'
  BY <1>5, LeaveStep
<1>6. ASSUME NEW c \in stray, StrayWrite(c) PROVE IInv'
  BY <1>6, StrayWriteStep
<1>7. ASSUME NEW t \in Thread, Work(t) \/ DeviceFails(t) PROVE IInv'
  BY <1>7, ThreadSteps DEF Work
<1>8. CASE Restart
  BY <1>8, RestartStep
<1>9. CASE UNCHANGED vars
  BY <1>9 DEF vars, placeVars, workerVars, IInv, TypeOK, LockGood, VersionsCarried, Undisturbed,
              Placed, WorkersPlaced, Announced, HolderAt, Agree, Same, Ended
<1>10. QED BY <1>1, <1>2, <1>3, <1>4, <1>5, <1>6, <1>7, <1>8, <1>9 DEF Next

(* The inductive invariant holds of every reachable state.                 *)
THEOREM Invariance == Spec => []IInv
BY Initially, Inductive, PTL DEF Spec

(* Every variable keeps its type, through every dropped handler, torn file *)
(* and restart.                                                            *)
THEOREM TypeCorrect == Spec => []TypeOK
BY Invariance, PTL DEF IInv

(* With config_write free, file, config, listener and worker say the same, *)
(* whatever failed (server.rs apply_config).                               *)
THEOREM Settles == Spec => []SettledWhenFree
<1>1. IInv => SettledWhenFree
  <2> SUFFICES ASSUME IInv, ~disturbed, lock = None PROVE Settled
    BY DEF SettledWhenFree
  <2>1. ~HolderAt({"commit", "swap", "join"}) /\ ~HolderAt({"join"})
    BY DEF HolderAt
  <2>2. Agree /\ WorkersPlaced
    BY <2>1 DEF IInv, Undisturbed, Placed
  <2>3. QED BY <2>1, <2>2 DEF Agree, WorkersPlaced, Settled
<1>2. QED BY <1>1, Invariance, PTL

(* The listener leaves the address in the file only between the write and  *)
(* the commit (server.rs apply_config).                                    *)
THEOREM ListensOnFile == Spec => []ListensUndisturbed
<1>1. IInv => ListensUndisturbed
  <2> SUFFICES ASSUME IInv, ~disturbed PROVE ListensWhereDiskSays
    BY DEF ListensUndisturbed
  <2>1. CASE HolderAt({"commit"})
    BY <2>1 DEF HolderAt, ListensWhereDiskSays
  <2>2. CASE HolderAt({"swap"}) \/ HolderAt({"join"})
    BY <2>2 DEF IInv, Undisturbed, Placed, ListensWhereDiskSays
  <2>3. CASE ~HolderAt({"commit"}) /\ ~HolderAt({"swap"}) /\ ~HolderAt({"join"})
    <3>1. ~HolderAt({"commit", "swap", "join"})
      BY <2>3 DEF HolderAt
    <3>2. QED BY <3>1 DEF IInv, Undisturbed, Placed, Agree, Same, ListensWhereDiskSays
  <2>4. QED BY <2>1, <2>2, <2>3
<1>2. QED BY <1>1, Invariance, PTL

(* Two workers are never alive at once (server.rs restart_worker).         *)
THEOREM OneAtATime == Spec => []OneWorker
<1>1. IInv => OneWorker
  BY DEF IInv, Undisturbed, WorkersPlaced, OneWorker
<1>2. QED BY <1>1, Invariance, PTL

(* No edit in effect is left unannounced (server.rs put_config).           *)
THEOREM Announces == Spec => []EditsAnnounced
<1>1. IInv => EditsAnnounced
  BY DEF IInv, Undisturbed, Announced, EditsAnnounced
<1>2. QED BY <1>1, Invariance, PTL

-----------------------------------------------------------------------------
(* ConfigApply implements ConfigStore.  Where the config in effect is read *)
(* from, the file or the process, changes only between the write and the   *)
(* swap, when both say the same.                                           *)
Moving == HolderAt({"commit", "swap"})

(* What is in effect depends on the running config and on who is between   *)
(* commit and swap.                                                        *)
LEMMA SameEffect ==
    ASSUME UNCHANGED <<mem, disk>>, Moving' <=> Moving
    PROVE  UNCHANGED <<Effective, disk>>
BY DEF Moving, HolderAt, Effective

(* A step that is neither changes no config.                               *)
LEMMA InPlace ==
    ASSUME IInv, NEW a \in Applier,
           \/ lock # a /\ lock' = lock
           \/ lock \in {a, None} /\ lock' \in {a, None},
           at[a] \notin {"commit", "swap"}, at'[a] \notin {"commit", "swap"},
           \A b \in Applier : b # a => at'[b] = at[b],
           UNCHANGED <<mem, disk>>
    PROVE  UNCHANGED <<Effective, disk>>
<1>1. Moving' <=> Moving
  BY Names DEF IInv, TypeOK, Moving, HolderAt
<1>2. QED BY <1>1, SameEffect

(* What another config says is said under the lock.                        *)
LEMMA RecordRefines ==
    ASSUME IInv, ~disturbed, Persist
    PROVE  Store!Next \/ UNCHANGED <<Effective, disk>>
<1>1. CASE LockToRecord
  <2>1. /\ lock = None /\ lock' = Sync /\ disk' = disk /\ at[Sync] = "torecord"
        /\ at' = [at EXCEPT ![Sync] = "record"] /\ mem' = [mem EXCEPT !.ver = new[Sync].ver]
    BY <1>1 DEF LockToRecord, Move
  <2>. mem.block /\ mem.ver # new[Sync].ver
    BY <1>1 DEF LockToRecord, Records
  <2>2. at'[Sync] = "record"
    BY <2>1, Names DEF IInv, TypeOK
  <2>3. /\ mem \in Config /\ new[Sync].ver \in Nat /\ new[Sync].ver > mem.ver
        /\ mem'.ver = new[Sync].ver
    <3>1. mem \in Config /\ new[Sync] \in Config
      BY Names DEF IInv, TypeOK
    <3>2. mem.ver \in Nat /\ new[Sync].ver \in Nat /\ mem'.ver = new[Sync].ver
      BY <2>1, <3>1 DEF Config
    <3>3. new[Sync].ver >= mem.ver
      BY <2>1 DEF IInv, VersionsCarried
    <3>4. QED BY <3>1, <3>2, <3>3
  <2>4. Effective = mem /\ Effective' = mem'
    BY <2>1, <2>2 DEF Effective
  <2>5. Store!Record
    BY <2>1, <2>3, <2>4 DEF Store!Record
  <2>6. QED BY <2>5 DEF Store!Next
<1>2. CASE WriteRecord
  <2>1. /\ at[Sync] = "record" /\ lock' = None /\ mem' = mem
        /\ WriteAtomic(new[Sync]) \/ disk' = disk
    BY <1>2 DEF WriteRecord, Move
  <2>2. lock = Sync /\ new[Sync] = mem
    BY <2>1, Names DEF IInv, LockGood, Held, VersionsCarried
  <2>3. disk' \in {mem, disk}
    BY <2>1, <2>2, Names, OneWriter
  <2>4. Effective = mem /\ Effective' = mem
    BY <2>1, <2>2 DEF Effective
  <2>5. Store!Save \/ UNCHANGED <<Effective, disk>>
    BY <2>3, <2>4 DEF Store!Save
  <2>6. QED BY <2>5 DEF Store!Next
<1>3. CASE NothingToRecord
  <2>1. UNCHANGED <<mem, disk>> /\ lock = None /\ lock' = None
    BY <1>3 DEF NothingToRecord
  <2>2. QED BY <2>1 DEF Effective
<1>4. QED BY <1>1, <1>2, <1>3 DEF Persist

(* A change takes effect at the write.                                     *)
LEMMA WriteRefines ==
    ASSUME IInv, ~disturbed, NEW a \in Applier, WriteFile(a)
    PROVE  Store!Next
<1>1. /\ at[a] = "write" /\ at' = [at EXCEPT ![a] = "commit"] /\ WriteAtomic(new[a])
      /\ lock' = lock /\ new[a] \in Config
  BY DEF WriteFile, Move, IInv, TypeOK
<1>2. lock = a /\ a # None /\ at'[a] = "commit"
  BY <1>1, Names DEF IInv, LockGood, Held, TypeOK
<1>3. disk' = new[a]
  BY <1>1, <1>2, OneWriter
<1>4. IF new[a].block THEN new[a].ver >= mem.ver ELSE new[a].ver = 0
  <2>1. mem.ver \in Nat /\ new[a].ver \in Nat
    BY DEF IInv, TypeOK, Config
  <2>2. QED BY <1>1, <2>1, Names DEF IInv, VersionsCarried, Building
<1>5. Effective = mem /\ Effective' = disk'
  BY <1>1, <1>2 DEF Effective
<1>6. new[a] \in [content : Content, bind : Bind, block : BOOLEAN, ver : Nat]
  BY <1>1 DEF Config
<1>7. Store!Change
  BY <1>3, <1>4, <1>5, <1>6 DEF Store!Change
<1>8. QED BY <1>7 DEF Store!Next

(* The swap puts in the process what the file says already.                *)
LEMMA SwapRefines ==
    ASSUME IInv, ~disturbed, NEW a \in Applier, CommitServer(a) \/ Swap(a)
    PROVE  UNCHANGED <<Effective, disk>>
<1>1. /\ at[a] \in {"commit", "swap"} /\ at' \in [Applier -> Place] /\ lock' = lock /\ disk' = disk
  BY DEF CommitServer, Swap, Move, IInv, TypeOK, Place
<1>2. lock = a /\ a # None
  BY <1>1, Names DEF IInv, LockGood, Held
<1>3. Effective = disk
  BY <1>1, <1>2 DEF Effective
<1>4. CASE CommitServer(a)
  <2>1. at'[a] = "swap"
    BY <1>4, <1>1 DEF CommitServer, Move, IInv, TypeOK
  <2>2. QED BY <1>1, <1>2, <1>3, <2>1 DEF Effective
<1>5. CASE Swap(a)
  <2>1. at'[a] = "join" /\ mem' = new[a] /\ at[a] = "swap"
    BY <1>5, <1>1 DEF Swap, Move, IInv, TypeOK
  <2>2. disk = new[a]
    BY <1>2, <2>1 DEF IInv, Undisturbed, Placed, HolderAt
  <2>3. QED BY <1>1, <1>2, <1>3, <2>1, <2>2 DEF Effective
<1>6. QED BY <1>4, <1>5

(* The file and the config in effect change together, one writer at a      *)
(* time, and no change takes the version back but the edit that takes its  *)
(* block away: what ConfigSync takes for one step is one (server.rs        *)
(* apply_config, persist_config_version).                                  *)
THEOREM ImplementsStore == Spec => AtomicChanges
<1> DEFINE Refines == Store!Next \/ UNCHANGED <<Effective, disk>>
<1>1. ASSUME IInv, [Next]_vars, ~disturbed' PROVE Refines
  <2>1. CASE Restart
    <3>1. Effective' = disk /\ disk' = disk
      BY <2>1 DEF Restart, Effective
    <3>2. QED BY <3>1 DEF Store!Reload, Store!Next
  <2>2. CASE \/ \E a \in Client, c \in Content, b \in Bind, block \in BOOLEAN : Put(a, c, b, block)
             \/ \E c \in Content, v \in Version : Push(c, v)
             \/ \E v \in Version : Accepted(v)
    <3>1. UNCHANGED <<mem, disk, lock>>
      BY <2>2 DEF Put, Push, Accepted
    <3>2. PICK a \in Applier, to \in {"queued", "torecord"} : Move(a, "idle", to)
      BY <2>2, Names DEF Put, Push, Accepted
    <3>3. lock # a /\ at[a] = "idle" /\ at'[a] = to /\ \A b \in Applier : b # a => at'[b] = at[b]
      BY <1>1, <3>2 DEF Move, IInv, TypeOK, LockGood, Held
    <3>4. QED BY <1>1, <3>1, <3>3, InPlace
  <2>3. CASE Persist
    BY <1>1, <2>3, RecordRefines DEF Persist, LockToRecord, NothingToRecord, WriteRecord
  <2>4. ASSUME NEW a \in Applier, Apply(a) \/ ApplyFails(a) PROVE Refines
    <3>1. ~disturbed
      BY <1>1, <2>4 DEF Apply, ApplyFails, LockToApply, BindListener, BindInUse, WriteFile,
                        CommitServer, Swap, Bump, SpawnWorker, Release
    <3>2. CASE WriteFile(a)
      BY <1>1, <3>1, <3>2, WriteRefines
    <3>3. CASE CommitServer(a) \/ Swap(a)
      BY <1>1, <3>1, <3>3, SwapRefines
    <3>4. CASE Bump(a)
      <4>1. /\ at[a] = "bump" /\ at'[a] = "idle" /\ \A b \in Applier : b # a => at'[b] = at[b]
            /\ UNCHANGED <<mem, disk, lock>>
        BY <1>1, <3>4 DEF Bump, Move, IInv, TypeOK
      <4>2. lock # a
        BY <1>1, <4>1 DEF IInv, LockGood, Held
      <4>3. QED BY <1>1, <4>1, <4>2, InPlace
    <3>5. CASE \/ LockToApply(a) \/ BindListener(a) \/ BindInUse(a) \/ ApplyFails(a)
               \/ \E t \in Thread : SpawnWorker(a, t)
      <4>1. UNCHANGED <<mem, disk>>
        BY <3>5 DEF LockToApply, BindListener, BindInUse, ApplyFails, SpawnWorker, Release
      <4>2. /\ at[a] \in {"queued", "bind", "write", "join"}
            /\ at'[a] \in {"idle", "bind", "write", "bump"}
            /\ \A b \in Applier : b # a => at'[b] = at[b]
        BY <1>1, <3>5 DEF LockToApply, BindListener, BindInUse, ApplyFails, SpawnWorker, Release,
                          Move, IInv, TypeOK
      <4>3. lock \in {a, None}
        BY <1>1, <3>5, <4>2 DEF LockToApply, IInv, LockGood, Held, BindListener, BindInUse,
                                ApplyFails, SpawnWorker, Move
      <4>4. lock' \in {lock, a, None}
        BY <3>5 DEF LockToApply, BindListener, BindInUse, ApplyFails, SpawnWorker, Release
      <4>5. QED BY <1>1, <4>1, <4>2, <4>3, <4>4, InPlace
    <3>6. QED BY <2>4, <3>2, <3>3, <3>4, <3>5 DEF Apply
  <2>5. ASSUME NEW a \in Client, Leave(a) PROVE Refines
    <3>1. /\ a \in Applier /\ at[a] \in {"queued", "bind"} /\ at'[a] = "idle"
          /\ \A b \in Applier : b # a => at'[b] = at[b]
          /\ UNCHANGED <<mem, disk>> /\ lock' = IF lock = a THEN None ELSE lock
      BY <1>1, <2>5, Names DEF Leave, IInv, TypeOK
    <3>2. QED BY <1>1, <3>1, InPlace
  <2>6. ASSUME NEW c \in stray, StrayWrite(c) PROVE Refines
    BY <1>1, <2>6 DEF StrayWrite, IInv, Undisturbed
  <2>7. ASSUME NEW t \in Thread, Work(t) \/ DeviceFails(t) PROVE Refines
    BY <2>7 DEF Work, OpenDevice, Quit, DeviceFails, Becomes, placeVars, Effective
  <2>8. CASE UNCHANGED vars
    BY <2>8 DEF vars, placeVars, Effective
  <2>9. QED BY <1>1, <2>1, <2>2, <2>3, <2>4, <2>5, <2>6, <2>7, <2>8 DEF Next
<1>2. IInv /\ [Next]_vars => [disturbed' \/ Store!Next]_<<Effective, disk>>
  BY <1>1
<1>3. QED BY <1>2, Invariance, PTL DEF Spec, AtomicChanges
=============================================================================
