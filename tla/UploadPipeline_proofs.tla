------------------------ MODULE UploadPipeline_proofs ------------------------
(***************************************************************************)
(* Proofs about UploadPipeline, for every size of the buffers, every       *)
(* number of windows, faults, config changes and restarts.                 *)
(*                                                                         *)
(* None of the properties is inductive.  InOrder does not see the channel  *)
(* to the bridge, where the next measurement may be an old one: Ordered    *)
(* chains every hop from the worker to the website.  Stamped does not know *)
(* that the start the bridge remembers is that of the window to come:      *)
(* PipeStamped says so of every measurement still in the channel, and of   *)
(* the window the worker is in.  That a measurement is not older than the  *)
(* gain stamped on it needs OneGeneration: the channel carries one         *)
(* worker's events, its info first.  And that the ring buffer has the      *)
(* newest without a gap needs Made: what is in the channel was measured by *)
(* this process.                                                           *)
(***************************************************************************)
EXTENDS UploadPipeline, SequenceTheorems, TLAPS

Lower(S, T) == \A x \in S, y \in T : x < y
AtMost(S, T) == \A x \in S, y \in T : x <= y

(* What a sequence holds when its head is taken off.                       *)
LEMMA TailItems ==
    ASSUME NEW S, NEW q \in Seq(S), q # <<>>
    PROVE  /\ Head(q) \in S /\ Tail(q) \in Seq(S) /\ Len(Tail(q)) = Len(q) - 1
           /\ ToSet(q) = {Head(q)} \cup ToSet(Tail(q))
           /\ Windows(q) = {Head(q).window} \cup Windows(Tail(q))
<1>1. /\ Head(q) \in S /\ Tail(q) \in Seq(S) /\ Len(Tail(q)) = Len(q) - 1
      /\ Head(q) = q[1] /\ Len(q) \in Nat /\ Len(q) > 0
      /\ DOMAIN q = 1..Len(q) /\ DOMAIN Tail(q) = 1..Len(Tail(q))
      /\ \A i \in 1..Len(Tail(q)) : Tail(q)[i] = q[i + 1]
    OBVIOUS
<1>2. ASSUME NEW i \in 1..Len(q) PROVE i = 1 \/ (i - 1 \in 1..Len(Tail(q)) /\ q[i] = Tail(q)[i - 1])
    BY <1>1
<1>3. ToSet(q) = {Head(q)} \cup ToSet(Tail(q))
    <2>1. /\ ToSet(q) = {q[i] : i \in 1..Len(q)}
          /\ ToSet(Tail(q)) = {Tail(q)[i] : i \in 1..Len(Tail(q))}
        BY <1>1 DEF ToSet
    <2>2. \A i \in 1..Len(q) : q[i] \in {Head(q)} \cup ToSet(Tail(q))
        BY <1>1, <1>2, <2>1
    <2>3. 1 \in 1..Len(q) /\ \A i \in 1..Len(Tail(q)) : i + 1 \in 1..Len(q)
        BY <1>1
    <2>4. Head(q) \in ToSet(q) /\ \A i \in 1..Len(Tail(q)) : Tail(q)[i] \in ToSet(q)
        BY <1>1, <2>1, <2>3
    <2>5. ToSet(q) \subseteq {Head(q)} \cup ToSet(Tail(q))
        BY <2>1, <2>2
    <2>6. {Head(q)} \cup ToSet(Tail(q)) \subseteq ToSet(q)
        BY <2>1, <2>4
    <2>7. QED
        BY <2>5, <2>6
<1>4. Windows(q) = {Head(q).window} \cup Windows(Tail(q))
    <2>1. \A i \in 1..Len(q) : q[i].window \in {Head(q).window} \cup Windows(Tail(q))
        BY <1>1, <1>2 DEF Windows
    <2>2. 1 \in 1..Len(q) /\ \A i \in 1..Len(Tail(q)) : i + 1 \in 1..Len(q)
        BY <1>1
    <2>3. Head(q).window \in Windows(q)
        BY <1>1, <2>2 DEF Windows
    <2>4. \A i \in 1..Len(Tail(q)) : Tail(q)[i].window \in Windows(q)
        BY <1>1, <2>2 DEF Windows
    <2>5. Windows(q) \subseteq {Head(q).window} \cup Windows(Tail(q))
        BY <2>1 DEF Windows
    <2>6. Windows(Tail(q)) \subseteq Windows(q)
        BY <2>4 DEF Windows
    <2>7. QED
        BY <2>3, <2>5, <2>6
<1>5. QED
    BY <1>1, <1>3, <1>4

(* And when an item joins it.                                              *)
LEMMA AppendItems ==
    ASSUME NEW S, NEW q \in Seq(S), NEW m \in S
    PROVE  /\ Append(q, m) \in Seq(S) /\ Len(Append(q, m)) = Len(q) + 1
           /\ ToSet(Append(q, m)) = ToSet(q) \cup {m}
           /\ Windows(Append(q, m)) = Windows(q) \cup {m.window}
<1>1. /\ Append(q, m) \in Seq(S) /\ Len(Append(q, m)) = Len(q) + 1 /\ Len(q) \in Nat
      /\ DOMAIN q = 1..Len(q) /\ DOMAIN Append(q, m) = 1..(Len(q) + 1)
      /\ Append(q, m)[Len(q) + 1] = m
      /\ \A i \in 1..Len(q) : Append(q, m)[i] = q[i]
    OBVIOUS
<1>2. ToSet(Append(q, m)) = ToSet(q) \cup {m}
    BY <1>1 DEF ToSet
<1>3. Windows(Append(q, m)) = Windows(q) \cup {m.window}
    BY <1>1 DEF Windows
<1>4. QED
    BY <1>1, <1>2, <1>3

(* Taking the head off a rising sequence leaves one that is above the      *)
(* head.                                                                   *)
LEMMA TailRising ==
    ASSUME NEW S, NEW q \in Seq(S), q # <<>>, Rising(q)
    PROVE  Rising(Tail(q)) /\ Lower({Head(q).window}, Windows(Tail(q)))
<1>1. /\ Head(q) = q[1] /\ Len(q) \in Nat /\ Len(q) > 0 /\ Len(Tail(q)) = Len(q) - 1
      /\ \A i \in 1..Len(Tail(q)) : Tail(q)[i] = q[i + 1]
    OBVIOUS
<1>2. \A i \in 1..Len(Tail(q)) : i + 1 \in 1..Len(q) /\ 1 < i + 1
    BY <1>1
<1>3. Lower({Head(q).window}, Windows(Tail(q)))
    BY <1>1, <1>2 DEF Rising, Lower, Windows
<1>4. Rising(Tail(q))
    <2>1. SUFFICES ASSUME NEW i \in 1..Len(Tail(q)), NEW j \in 1..Len(Tail(q)), i < j
                   PROVE  Tail(q)[i].window < Tail(q)[j].window
        BY DEF Rising
    <2>2. i + 1 \in 1..Len(q) /\ j + 1 \in 1..Len(q) /\ i + 1 < j + 1
        BY <1>1, <2>1
    <2>3. QED
        BY <1>1, <2>2 DEF Rising
<1>5. QED
    BY <1>3, <1>4

(* An item made later than all of them keeps a sequence rising.            *)
LEMMA AppendRising ==
    ASSUME NEW S, NEW q \in Seq(S), NEW m \in S, Rising(q), Lower(Windows(q), {m.window})
    PROVE  Rising(Append(q, m))
<1>1. /\ Len(Append(q, m)) = Len(q) + 1 /\ Len(q) \in Nat
      /\ Append(q, m)[Len(q) + 1] = m
      /\ \A i \in 1..Len(q) : Append(q, m)[i] = q[i]
    OBVIOUS
<1>2. SUFFICES ASSUME NEW i \in 1..(Len(q) + 1), NEW j \in 1..(Len(q) + 1), i < j
               PROVE  Append(q, m)[i].window < Append(q, m)[j].window
    BY <1>1 DEF Rising
<1>3. i \in 1..Len(q) /\ q[i].window \in Windows(q)
    BY <1>1, <1>2 DEF Windows
<1>4. CASE j \in 1..Len(q)
    BY <1>1, <1>2, <1>3, <1>4 DEF Rising
<1>5. CASE j = Len(q) + 1
    BY <1>1, <1>3, <1>5 DEF Lower
<1>6. QED
    BY <1>1, <1>2, <1>4, <1>5

(* Whatever has to make room, the newest item is in and nothing is new but *)
(* it; what is left out is the oldest.                                     *)
LEMMA PushItems ==
    ASSUME NEW S, NEW q \in Seq(S), NEW m \in S, Len(q) <= MaxEntries
    PROVE  /\ Push(q, m) \in Seq(S) /\ Len(Push(q, m)) <= MaxEntries
           /\ Push(q, m) # <<>>
           /\ ToSet(Push(q, m)) \subseteq ToSet(q) \cup {m}
           /\ Windows(Push(q, m)) \subseteq Windows(q) \cup {m.window}
           /\ m.window \in Windows(Push(q, m))
<1> MaxEntries \in Nat \ {0} /\ Len(q) \in Nat
    BY MaxEntriesAssumption
<1> DEFINE r == IF Len(q) >= MaxEntries THEN Tail(q) ELSE q
<1>1. r \in Seq(S) /\ Len(r) < MaxEntries /\ ToSet(r) \subseteq ToSet(q)
      /\ Windows(r) \subseteq Windows(q)
    <2>1. CASE Len(q) >= MaxEntries
        BY <2>1, TailItems
    <2>2. CASE ~(Len(q) >= MaxEntries)
        BY <2>2
    <2>3. QED
        BY <2>1, <2>2
<1>2. Push(q, m) = Append(r, m)
    BY DEF Push
<1> HIDE DEF r
<1>3. /\ Append(r, m) \in Seq(S) /\ Len(Append(r, m)) = Len(r) + 1
      /\ ToSet(Append(r, m)) = ToSet(r) \cup {m}
      /\ Windows(Append(r, m)) = Windows(r) \cup {m.window}
    BY <1>1, AppendItems
<1>4. Append(r, m) # <<>> /\ Len(r) \in Nat
    BY <1>1
<1>5. QED
    BY <1>1, <1>2, <1>3, <1>4

(* And so does a bounded push of one, which takes off the oldest.          *)
LEMMA PushRising ==
    ASSUME NEW S, NEW q \in Seq(S), NEW m \in S, Len(q) <= MaxEntries,
           Rising(q), Lower(Windows(q), {m.window})
    PROVE  Rising(Push(q, m))
<1> MaxEntries \in Nat \ {0} /\ Len(q) \in Nat
    BY MaxEntriesAssumption
<1>1. CASE Len(q) >= MaxEntries
    <2>1. q # <<>> /\ Push(q, m) = Append(Tail(q), m)
        BY <1>1 DEF Push
    <2>2. Tail(q) \in Seq(S) /\ Rising(Tail(q)) /\ Lower(Windows(Tail(q)), {m.window})
        BY <2>1, TailItems, TailRising DEF Lower
    <2>3. QED
        BY <2>1, <2>2, AppendRising
<1>2. CASE ~(Len(q) >= MaxEntries)
    BY <1>2, AppendRising DEF Push
<1>3. QED
    BY <1>1, <1>2

-----------------------------------------------------------------------------
(* The parts of the inductive invariant.                                   *)

MeasuredRising(p) ==
    \A i, j \in 1..Len(p) :
        p[i].type = "measured" /\ p[j].type = "measured" /\ i < j => p[i].window < p[j].window

Arrived == Windows(store) \cup Windows(feed) \cup Windows(queue) \cup Windows(site)

(* From the website back to the worker each place holds younger windows    *)
(* than the one before it.  A POST whose answer is lost leaves its         *)
(* measurement at the website and at the head of the queue: AtMost there.  *)
Ordered ==
    /\ Rising(store) /\ Rising(feed) /\ Rising(queue) /\ Rising(site)
    /\ MeasuredRising(pipe)
    /\ Lower(Windows(queue) \cup Windows(site), Windows(feed))
    /\ AtMost(Windows(site), Windows(queue))
    /\ Lower(Arrived, Waiting(pipe))
    /\ Arrived \cup Waiting(pipe) \subseteq 1..windows
    /\ worker.phase = "window" => windows \notin Arrived \cup Waiting(pipe) /\ windows > 0

(* A measurement follows the start of its own window, in the channel or    *)
(* remembered by the bridge, and a window that is open began last.         *)
PipeStamped ==
    /\ \A i \in 1..Len(pipe) : pipe[i].type = "measured" =>
          IF i = 1 THEN start = pipe[1].window
          ELSE pipe[i - 1].type = "started" /\ pipe[i - 1].window = pipe[i].window
    /\ worker.phase = "window" =>
          IF pipe = <<>> THEN start = windows
          ELSE pipe[Len(pipe)].type = "started" /\ pipe[Len(pipe)].window = windows

(* The channel holds one worker's events, its info first; no measurement   *)
(* passes the bridge before the info of the worker that made it.           *)
OneGeneration ==
    /\ worker.gen <= cfg.gen /\ device <= worker.gen
    /\ \A i \in 1..Len(pipe) :
          pipe[i].gen = worker.gen /\ (pipe[i].type = "info" => i = 1)
    /\ \A m \in ToSet(feed) : m.gen <= worker.gen /\ (device # 0 => m.gen <= device)
    /\ pipe # <<>> => pipe[1].type = "info" \/ device = worker.gen
    /\ worker.phase = "opening" => pipe = <<>>
    /\ worker.phase \in {"between", "window"} /\ pipe = <<>> => device = worker.gen

OwnStart(q) == \A m \in ToSet(q) : m.stamp = m.window
NeverOlder(q) == \A m \in ToSet(q) : m.gen <= m.gain /\ m.gain <= m.cfg

StampsGood ==
    /\ OwnStart(store) /\ OwnStart(feed) /\ OwnStart(queue) /\ OwnStart(site)
    /\ NeverOlder(queue) /\ NeverOlder(site)

HasPost == pos = "posting" => queue # <<>>

(* What is in the channel, and the window that is open, are this process'. *)
Live == {w \in measured : w > since}
Made ==
    /\ Waiting(pipe) \subseteq Live
    /\ worker.phase = "window" => windows > since

IInv ==
    /\ TypeOK /\ HasPost
    /\ Ordered /\ PipeStamped /\ OneGeneration /\ StampsGood
    /\ Accounted /\ Made /\ StoreKeepsNewest

-----------------------------------------------------------------------------
(* The channel to the bridge, at either end.                               *)
LEMMA PipeTail ==
    ASSUME NEW p \in Seq(Event), p # <<>>
    PROVE  /\ Head(p) = p[1] /\ Head(p) \in Event
           /\ Tail(p) \in Seq(Event) /\ Len(Tail(p)) = Len(p) - 1
           /\ \A i \in 1..Len(Tail(p)) : i + 1 \in 1..Len(p) /\ Tail(p)[i] = p[i + 1]
           /\ Waiting(p) = Waiting(Tail(p))
                           \cup (IF Head(p).type = "measured" THEN {Head(p).window} ELSE {})
           /\ MeasuredRising(p) =>
                 /\ MeasuredRising(Tail(p))
                 /\ Head(p).type = "measured" => Lower({Head(p).window}, Waiting(Tail(p)))
<1>1. /\ Head(p) = p[1] /\ Head(p) \in Event /\ Tail(p) \in Seq(Event)
      /\ Len(p) \in Nat /\ Len(p) > 0 /\ Len(Tail(p)) = Len(p) - 1
      /\ \A i \in 1..Len(Tail(p)) : Tail(p)[i] = p[i + 1]
    OBVIOUS
<1>2. \A i \in 1..Len(Tail(p)) : i + 1 \in 1..Len(p) /\ Tail(p)[i] = p[i + 1]
    BY <1>1
<1>3. ASSUME NEW i \in 1..Len(p)
      PROVE  i = 1 \/ (i - 1 \in 1..Len(Tail(p)) /\ p[i] = Tail(p)[i - 1])
    BY <1>1
<1>4. Waiting(p) = Waiting(Tail(p)) \cup (IF Head(p).type = "measured" THEN {Head(p).window} ELSE {})
    <2>1. 1 \in 1..Len(p)
        BY <1>1
    <2>2. Waiting(Tail(p)) \subseteq Waiting(p)
        BY <1>2 DEF Waiting
    <2>3. Head(p).type = "measured" => Head(p).window \in Waiting(p)
        BY <1>1, <2>1 DEF Waiting
    <2>4. ASSUME NEW w \in Waiting(p)
          PROVE  w \in Waiting(Tail(p)) \/ (Head(p).type = "measured" /\ w = Head(p).window)
        <3>1. PICK i \in 1..Len(p) : p[i].type = "measured" /\ w = p[i].window
            BY <2>4 DEF Waiting
        <3>2. QED
            BY <1>1, <1>3, <3>1 DEF Waiting
    <2>5. QED
        BY <2>2, <2>3, <2>4
<1>5. ASSUME MeasuredRising(p) PROVE MeasuredRising(Tail(p))
    <2>1. SUFFICES ASSUME NEW i \in 1..Len(Tail(p)), NEW j \in 1..Len(Tail(p)), i < j,
                          Tail(p)[i].type = "measured", Tail(p)[j].type = "measured"
                   PROVE  Tail(p)[i].window < Tail(p)[j].window
        BY DEF MeasuredRising
    <2>2. i + 1 < j + 1
        BY <1>1, <2>1
    <2>3. QED
        BY <1>2, <1>5, <2>1, <2>2 DEF MeasuredRising
<1>6. ASSUME MeasuredRising(p), Head(p).type = "measured"
      PROVE  Lower({Head(p).window}, Waiting(Tail(p)))
    <2>1. \A i \in 1..Len(Tail(p)) : 1 < i + 1 /\ 1 \in 1..Len(p)
        BY <1>1
    <2>2. QED
        BY <1>1, <1>2, <1>6, <2>1 DEF MeasuredRising, Lower, Waiting
<1>7. QED
    BY <1>1, <1>2, <1>4, <1>5, <1>6

(* An event joins the channel to the bridge.                               *)
LEMMA PipeAppend ==
    ASSUME NEW p \in Seq(Event), NEW e \in Event
    PROVE  /\ Append(p, e) \in Seq(Event) /\ Len(Append(p, e)) = Len(p) + 1
           /\ Append(p, e)[Len(p) + 1] = e
           /\ \A i \in 1..Len(p) : Append(p, e)[i] = p[i]
           /\ Append(p, e) # <<>>
           /\ Waiting(Append(p, e)) =
                 Waiting(p) \cup (IF e.type = "measured" THEN {e.window} ELSE {})
           /\ MeasuredRising(p) /\ (e.type = "measured" => Lower(Waiting(p), {e.window})) =>
                 MeasuredRising(Append(p, e))
<1>1. /\ Append(p, e) \in Seq(Event) /\ Len(Append(p, e)) = Len(p) + 1
      /\ Len(p) \in Nat /\ Append(p, e)[Len(p) + 1] = e
      /\ \A i \in 1..Len(p) : Append(p, e)[i] = p[i]
    OBVIOUS
<1>2. Append(p, e) # <<>>
    BY <1>1
<1>3. Waiting(Append(p, e)) = Waiting(p) \cup (IF e.type = "measured" THEN {e.window} ELSE {})
    <2>1. Len(p) + 1 \in 1..(Len(p) + 1) /\ \A i \in 1..Len(p) : i \in 1..(Len(p) + 1)
        BY <1>1
    <2>2. \A i \in 1..(Len(p) + 1) : i \in 1..Len(p) \/ i = Len(p) + 1
        BY <1>1
    <2>3. Waiting(p) \subseteq Waiting(Append(p, e))
        BY <1>1, <2>1 DEF Waiting
    <2>4. e.type = "measured" => e.window \in Waiting(Append(p, e))
        BY <1>1, <2>1 DEF Waiting
    <2>5. ASSUME NEW w \in Waiting(Append(p, e))
          PROVE  w \in Waiting(p) \/ (e.type = "measured" /\ w = e.window)
        <3>1. PICK i \in 1..(Len(p) + 1) : /\ Append(p, e)[i].type = "measured"
                                           /\ w = Append(p, e)[i].window
            BY <1>1, <2>5 DEF Waiting
        <3>2. QED
            BY <1>1, <2>2, <3>1 DEF Waiting
    <2>6. QED
        BY <2>3, <2>4, <2>5
<1>4. ASSUME MeasuredRising(p), e.type = "measured" => Lower(Waiting(p), {e.window})
      PROVE  MeasuredRising(Append(p, e))
    <2>1. SUFFICES ASSUME NEW i \in 1..(Len(p) + 1), NEW j \in 1..(Len(p) + 1), i < j,
                          Append(p, e)[i].type = "measured", Append(p, e)[j].type = "measured"
                   PROVE  Append(p, e)[i].window < Append(p, e)[j].window
        BY <1>1 DEF MeasuredRising
    <2>2. i \in 1..Len(p)
        BY <1>1, <2>1
    <2>3. CASE j \in 1..Len(p)
        BY <1>1, <1>4, <2>1, <2>2, <2>3 DEF MeasuredRising
    <2>4. CASE j = Len(p) + 1
        BY <1>1, <1>4, <2>1, <2>2, <2>4 DEF Lower, Waiting
    <2>5. QED
        BY <1>1, <2>1, <2>3, <2>4
<1>5. QED
    BY <1>1, <1>2, <1>3, <1>4

(* Nothing stands in an empty sequence.                                    *)
LEMMA EmptyItems ==
    /\ Windows(<<>>) = {} /\ ToSet(<<>>) = {} /\ Waiting(<<>>) = {}
    /\ Rising(<<>>) /\ MeasuredRising(<<>>) /\ OwnStart(<<>>) /\ NeverOlder(<<>>)
<1>1. ToSet(<<>>) = {}
    BY DEF ToSet
<1>2. QED
    BY <1>1 DEF Windows, Waiting, Rising, MeasuredRising, OwnStart, NeverOlder

(* What stands in the sequences, by their windows.                         *)
LEMMA ItemWindows ==
    ASSUME NEW S, NEW q \in Seq(S)
    PROVE  Windows(q) = {m.window : m \in ToSet(q)}
<1>1. DOMAIN q = 1..Len(q)
    OBVIOUS
<1>2. QED
    BY <1>1 DEF Windows, ToSet

(* And it has every type.                                                  *)
LEMMA EmptyTypes ==
    /\ <<>> \in Seq(Event) /\ <<>> \in Seq(Measured) /\ <<>> \in Seq(Wire)
    /\ Len(<<>>) <= MaxEntries /\ \A n \in Nat : {} \subseteq 1..n
BY MaxEntriesAssumption

(* Every budget stays a number.                                            *)
LEMMA SpendType ==
    ASSUME budget \in [Moves -> Nat], NEW move \in Moves, Spend(move)
    PROVE  budget' \in [Moves -> Nat]
BY DEF Spend

(* The windows of all that is pending have begun.                          *)
LEMMA PendingBegun ==
    ASSUME IInv
    PROVE  /\ Pending = Waiting(pipe) \cup Windows(feed) \cup Windows(queue)
           /\ Pending \subseteq 1..windows
BY DEF IInv, Ordered, Arrived, Pending, Waiting

(* So whatever is next in a queue has begun.                               *)
LEMMA HeadBegun ==
    ASSUME IInv
    PROVE  /\ feed # <<>> => Head(feed).window \in 1..windows
           /\ queue # <<>> => Head(queue).window \in 1..windows
           /\ Windows(queue) \subseteq 1..windows
<1>1. feed \in Seq(Measured) /\ queue \in Seq(Wire)
    BY DEF IInv, TypeOK
<1>2. Windows(feed) \subseteq 1..windows /\ Windows(queue) \subseteq 1..windows
    BY PendingBegun
<1>3. feed # <<>> => Head(feed).window \in Windows(feed)
    BY <1>1, TailItems
<1>4. queue # <<>> => Head(queue).window \in Windows(queue)
    BY <1>1, TailItems
<1>5. QED
    BY <1>2, <1>3, <1>4

(* What the bridge makes of a measurement, and the uploader of that.       *)
LEMMA HeadTypes ==
    ASSUME IInv
    PROVE  /\ pipe # <<>> => /\ Head(pipe) \in Event /\ Stamp(Head(pipe)) \in Nat
                            /\ [window |-> Head(pipe).window, stamp |-> Stamp(Head(pipe)),
                                gen |-> Head(pipe).gen] \in Measured
           /\ feed # <<>> => Head(feed) \in Measured /\ WireOf(Head(feed)) \in Wire
           /\ queue # <<>> => Head(queue) \in Wire
<1>1. TypeOK
    BY DEF IInv
<1>2. ASSUME pipe # <<>>
      PROVE  Head(pipe) \in Event
    BY <1>1, <1>2, PipeTail DEF TypeOK
<1>3. ASSUME pipe # <<>>
      PROVE  /\ Stamp(Head(pipe)) \in Nat
             /\ [window |-> Head(pipe).window, stamp |-> Stamp(Head(pipe)),
                 gen |-> Head(pipe).gen] \in Measured
    BY <1>1, <1>2, <1>3 DEF TypeOK, Event, Measured, Stamp
<1>4. ASSUME feed # <<>>
      PROVE  Head(feed) \in Measured
    BY <1>1, <1>4, TailItems DEF TypeOK
<1>5. ASSUME feed # <<>>
      PROVE  WireOf(Head(feed)) \in Wire
    BY <1>1, <1>4, <1>5 DEF TypeOK, WireOf, Wire, Measured, Gain
<1>6. ASSUME queue # <<>>
      PROVE  Head(queue) \in Wire
    BY <1>1, <1>6, TailItems DEF TypeOK
<1>7. QED
    BY <1>2, <1>3, <1>4, <1>5, <1>6

-----------------------------------------------------------------------------
(* Nothing is on its way when the process starts.                          *)
LEMMA Initially == Init => IInv
<1> SUFFICES ASSUME Init PROVE IInv
    OBVIOUS
<1>1. PICK setup \in Setups : /\ cfg = [gen |-> 1, uploads |-> setup.uploads]
                              /\ budget = setup.budget
    BY DEF Init
<1>2. setup.uploads \in BOOLEAN /\ setup.budget \in [Moves -> Nat]
    BY SetupsAssumption
<1>3. Arrived = {} /\ Waiting(pipe) = {}
    BY EmptyItems DEF Init, Arrived
<1>4. TypeOK
    <2>1. /\ cfg \in [gen : Nat \ {0}, uploads : BOOLEAN] /\ budget \in [Moves -> Nat]
          /\ worker \in [phase : {"opening", "between", "window", "ended"}, gen : Nat \ {0},
                         stop : BOOLEAN]
        BY <1>1, <1>2 DEF Init, NewWorker
    <2>2. windows \in Nat /\ since \in Nat /\ since <= windows
        BY DEF Init
    <2>3. QED
        BY <2>1, <2>2, EmptyTypes DEF Init, TypeOK, Pos
<1>5. Ordered /\ PipeStamped
    BY <1>3, EmptyItems
    DEF Init, Ordered, PipeStamped, NewWorker, Lower, AtMost
<1>6. OneGeneration /\ StampsGood /\ HasPost
    BY <1>1, EmptyItems
    DEF Init, OneGeneration, StampsGood, HasPost, NewWorker
<1>7. Accounted /\ Made /\ StoreKeepsNewest
    <2>1. measured = {} /\ Windows(store) = {} /\ Waiting(pipe) = {} /\ Rising(store)
          /\ worker.phase # "window"
        BY EmptyItems DEF Init, NewWorker
    <2>2. QED
        BY <2>1 DEF Accounted, Made, StoreKeepsNewest, Bridged
<1>8. QED
    BY <1>4, <1>5, <1>6, <1>7 DEF IInv

-----------------------------------------------------------------------------
(* Types.                                                                  *)
LEMMA TypeStep ==
    ASSUME IInv, [Next]_vars
    PROVE  TypeOK'
<1> USE DEF Pos, Moves
<1>1. TypeOK
    BY DEF IInv
<1>2. CASE Open \/ StartWindow \/ FinishWindow
    <2>1. PICK type \in {"info", "started", "measured"}, w \in Nat :
              UNCHANGED pipe \/ Send(type, w)
        BY <1>1, <1>2 DEF Open, StartWindow, FinishWindow, TypeOK
    <2>2. pipe' \in Seq(Event)
        <3>1. worker.gen \in Nat
            BY <1>1 DEF TypeOK
        <3>2. [type |-> type, window |-> w, gen |-> worker.gen] \in Event
            BY <3>1 DEF Event
        <3>3. pipe \in Seq(Event) /\ Append(pipe, [type |-> type, window |-> w, gen |-> worker.gen])
                                        \in Seq(Event)
            BY <1>1, <3>2, PipeAppend DEF TypeOK
        <3>4. QED
            BY <2>1, <3>3 DEF Send
    <2>3. /\ worker' \in [phase : {"opening", "between", "window", "ended"}, gen : Nat \ {0},
                           stop : BOOLEAN]
        <3>1. worker \in [phase : {"opening", "between", "window", "ended"}, gen : Nat \ {0},
                           stop : BOOLEAN]
            BY <1>1 DEF TypeOK
        <3>2. \E phase \in {"between", "window"} : WorkerAt(phase)
            BY <1>2 DEF Open, StartWindow, FinishWindow
        <3>3. QED
            BY <3>1, <3>2 DEF WorkerAt
    <2>4. windows' \in Nat /\ measured' \subseteq 1..windows' /\ dropped' \subseteq 1..windows'
        <3>1. /\ windows \in Nat /\ windows' \in {windows, windows + 1}
              /\ 1..windows \subseteq 1..windows'
            <4>1. windows \in Nat
                BY <1>1 DEF TypeOK
            <4>2. windows' \in {windows, windows + 1}
                BY <1>2 DEF Open, StartWindow, FinishWindow
            <4>3. QED
                BY <4>1, <4>2
        <3>2. FinishWindow => windows \in 1..windows
            BY <3>1 DEF FinishWindow, IInv, Ordered
        <3>3. /\ dropped' = dropped /\ dropped \subseteq 1..windows /\ measured \subseteq 1..windows
              /\ FinishWindow => windows' = windows /\ measured' \subseteq measured \cup {windows}
              /\ ~FinishWindow => measured' = measured
            BY <1>1, <1>2 DEF Open, StartWindow, FinishWindow, TypeOK
        <3>4. measured' \subseteq 1..windows'
            <4>1. CASE FinishWindow
                BY <3>2, <3>3, <4>1
            <4>2. CASE ~FinishWindow
                BY <3>1, <3>3, <4>2
            <4>3. QED
                BY <4>1, <4>2
        <3>5. dropped' \subseteq 1..windows' /\ windows' \in Nat
            BY <3>1, <3>3
        <3>6. QED
            BY <3>4, <3>5
    <2>5. budget' \in [Moves -> Nat]
        BY <1>1, <1>2, SpendType DEF Open, StartWindow, FinishWindow, TypeOK
    <2>6. since' \in Nat /\ since' <= windows'
        <3>1. since \in Nat /\ windows \in Nat /\ since <= windows
            BY <1>1 DEF TypeOK
        <3>2. since' = since /\ windows' \in {windows, windows + 1}
            BY <1>2 DEF Open, StartWindow, FinishWindow
        <3>3. QED
            BY <3>1, <3>2
    <2>7. QED
        BY <1>1, <1>2, <2>2, <2>3, <2>4, <2>5, <2>6
        DEF Open, StartWindow, FinishWindow, TypeOK, bridgeVars, uploadVars
<1>3. CASE Stop \/ DeviceFails
    <2>1. budget' \in [Moves -> Nat]
        BY <1>1, <1>3, SpendType DEF Stop, DeviceFails, TypeOK
    <2>2. QED
        BY <1>1, <1>3, <2>1 DEF Stop, DeviceFails, WorkerAt, TypeOK, bridgeVars, uploadVars
<1>4. CASE Bridge
    <2> DEFINE e == Head(pipe)
               m == [window |-> e.window, stamp |-> Stamp(e), gen |-> e.gen]
    <2>1. pipe # <<>> /\ e \in Event /\ Stamp(e) \in Nat /\ m \in Measured
        BY <1>4, HeadTypes DEF Bridge
    <2>2. pipe' \in Seq(Event)
        BY <1>1, <1>4, <2>1 DEF Bridge, TypeOK
    <2>3. start' \in Nat /\ device' \in Nat
        BY <1>1, <1>4, <2>1 DEF Bridge, TypeOK, Event
    <2>4. store' \in Seq(Measured) /\ Len(store') <= MaxEntries /\ feed' \in Seq(Measured)
        <3>1. CASE e.type = "measured"
            <4>1. store' = Push(store, m) /\ feed' = Append(feed, m)
                BY <1>4, <3>1 DEF Bridge
            <4>2. store \in Seq(Measured) /\ Len(store) <= MaxEntries /\ feed \in Seq(Measured)
                BY <1>1 DEF TypeOK
            <4>3. m \in Measured
                BY <2>1
            <4> HIDE DEF m
            <4>4. Push(store, m) \in Seq(Measured) /\ Len(Push(store, m)) <= MaxEntries
                BY <4>2, <4>3, PushItems
            <4>5. Append(feed, m) \in Seq(Measured)
                BY <4>2, <4>3, AppendItems
            <4>6. QED
                BY <4>1, <4>4, <4>5
        <3>2. CASE e.type # "measured"
            BY <1>1, <1>4, <3>2 DEF Bridge, TypeOK
        <3>3. QED
            BY <3>1, <3>2
    <2>5. QED
        BY <1>1, <1>4, <2>2, <2>3, <2>4 DEF Bridge, TypeOK, workerVars, uploadVars
<1>5. CASE \E uploads \in BOOLEAN : ChangeConfig(uploads)
    <2>1. budget' \in [Moves -> Nat]
        BY <1>1, <1>5, SpendType DEF ChangeConfig, TypeOK
    <2>2. cfg' \in [gen : Nat \ {0}, uploads : BOOLEAN]
        <3>1. PICK uploads \in BOOLEAN : cfg' = [gen |-> cfg.gen + 1, uploads |-> uploads]
            BY <1>5 DEF ChangeConfig
        <3>2. cfg.gen + 1 \in Nat \ {0}
            <4>1. cfg \in [gen : Nat \ {0}, uploads : BOOLEAN]
                BY <1>1 DEF TypeOK
            <4>2. cfg.gen \in Nat \ {0}
                BY <4>1
            <4>3. QED
                BY <4>2
        <3>3. QED
            BY <3>1, <3>2
    <2>3. worker' \in [phase : {"opening", "between", "window", "ended"}, gen : Nat \ {0},
                       stop : BOOLEAN]
        BY <1>1, <1>5 DEF ChangeConfig, TypeOK
    <2>4. QED
        BY <1>1, <1>5, <2>1, <2>2, <2>3 DEF ChangeConfig, TypeOK, bridgeVars, uploadVars
<1>6. CASE Respawn
    BY <1>1, <1>6 DEF Respawn, TypeOK, NewWorker, uploadVars
<1>7. CASE BeginPost \/ Tick
    BY <1>1, <1>7 DEF BeginPost, Tick, TypeOK, workerVars, bridgeVars
<1>8. CASE Receive
    <2>1. feed # <<>> /\ Head(feed) \in Measured /\ WireOf(Head(feed)) \in Wire
        BY <1>8, HeadTypes DEF Receive
    <2>2. feed' \in Seq(Measured)
        BY <1>1, <1>8, <2>1 DEF Receive, TypeOK
    <2>3. Head(feed).window \in 1..windows /\ Windows(queue) \subseteq 1..windows
        BY <2>1, HeadBegun
    <2>4. /\ queue' \in Seq(Wire) /\ Len(queue') <= MaxEntries
          /\ dropped' \subseteq 1..windows
        <3>1. CASE cfg.uploads
            <4>1. queue' = Push(queue, WireOf(Head(feed)))
                BY <1>8, <3>1 DEF Receive, Enqueue
            <4>2. dropped' \subseteq dropped \cup Windows(queue) \cup {Head(feed).window}
                BY <1>8, <3>1 DEF Receive, Enqueue
            <4>3. queue \in Seq(Wire) /\ Len(queue) <= MaxEntries /\ dropped \subseteq 1..windows
                BY <1>1 DEF TypeOK
            <4>4. QED
                BY <2>1, <2>3, <4>1, <4>2, <4>3, PushItems
        <3>2. CASE ~cfg.uploads
            BY <1>1, <1>8, <2>3, <3>2 DEF Receive, Enqueue, TypeOK
        <3>3. QED
            BY <3>1, <3>2
    <2>5. QED
        BY <1>1, <1>8, <2>2, <2>4 DEF Receive, TypeOK, workerVars, bridgeVars
<1>9. CASE Answer
    <2>1. pos = "posting" /\ queue # <<>> /\ Head(queue) \in Wire
        BY <1>9, HeadTypes DEF Answer, Posted, PostRefused, PostFails, IInv, HasPost
    <2>2. site' \in Seq(Wire)
        <3>1. site \in Seq(Wire) /\ Append(site, Head(queue)) \in Seq(Wire)
            BY <1>1, <2>1, AppendItems DEF TypeOK
        <3>2. site' \in {site, Append(site, Head(queue))}
            BY <1>9 DEF Answer, Posted, PostRefused, PostFails, Record
        <3>3. QED
            BY <3>1, <3>2
    <2>3. queue' \in Seq(Wire) /\ Len(queue') <= MaxEntries
        <3>1. /\ Tail(queue) \in Seq(Wire) /\ Len(Tail(queue)) = Len(queue) - 1
              /\ Len(queue) \in Nat /\ queue \in Seq(Wire) /\ Len(queue) <= MaxEntries
              /\ MaxEntries \in Nat
            BY <1>1, <2>1, TailItems, MaxEntriesAssumption DEF TypeOK
        <3>2. queue' \in {queue, Tail(queue)}
            BY <1>9 DEF Answer, Posted, PostRefused, PostFails
        <3>3. QED
            BY <3>1, <3>2
    <2>4. dropped' \subseteq 1..windows
        <3>1. Head(queue).window \in 1..windows
            BY <2>1, HeadBegun
        <3>2. dropped' \subseteq dropped \cup {Head(queue).window}
            BY <1>9 DEF Answer, Posted, PostRefused, PostFails
        <3>3. QED
            BY <1>1, <3>1, <3>2 DEF TypeOK
    <2>5. budget' \in [Moves -> Nat] /\ pos' \in Pos
        BY <1>1, <1>9, SpendType DEF Answer, Posted, PostRefused, PostFails, TypeOK
    <2>6. UNCHANGED <<cfg, applying, workerVars, pipe, bridgeVars, feed>>
        BY <1>9 DEF Answer, Posted, PostRefused, PostFails
    <2>7. QED
        BY <1>1, <2>2, <2>3, <2>4, <2>5, <2>6 DEF TypeOK, workerVars, bridgeVars
<1>10. CASE Lag
    <2>1. feed # <<>> /\ Head(feed).window \in 1..windows /\ feed' \in Seq(Measured)
        <3>1. feed # <<>> /\ feed \in Seq(Measured) /\ feed' = Tail(feed)
            BY <1>1, <1>10 DEF Lag, TypeOK
        <3>2. QED
            BY <3>1, HeadBegun, TailItems
    <2>2. budget' \in [Moves -> Nat]
        BY <1>1, <1>10, SpendType DEF Lag, TypeOK
    <2>3. QED
        BY <1>1, <1>10, <2>1, <2>2 DEF Lag, TypeOK, workerVars, bridgeVars, uploadVars
<1>11. CASE Restart
    <2>1. budget' \in [Moves -> Nat]
        BY <1>1, <1>11, SpendType DEF Restart, TypeOK
    <2>2. dropped' \subseteq 1..windows
        BY <1>1, <1>11, PendingBegun DEF Restart, TypeOK
    <2>3. worker' \in [phase : {"opening", "between", "window", "ended"}, gen : Nat \ {0},
                       stop : BOOLEAN]
        BY <1>1, <1>11 DEF Restart, TypeOK, NewWorker
    <2>4. windows' \in Nat /\ since' \in Nat /\ since' <= windows'
        BY <1>1, <1>11 DEF Restart, TypeOK
    <2>5. QED
        BY <1>1, <1>11, <2>1, <2>2, <2>3, <2>4, EmptyTypes DEF Restart, TypeOK
<1>12. CASE UNCHANGED vars
    BY <1>1, <1>12 DEF TypeOK, vars, workerVars, bridgeVars, uploadVars
<1>13. QED
    BY <1>2, <1>3, <1>4, <1>5, <1>6, <1>7, <1>8, <1>9, <1>10, <1>11, <1>12
    DEF Next, Thread, Uploader

-----------------------------------------------------------------------------
(* Where the uploader stands.                                              *)
LEMMA HasPostStep ==
    ASSUME IInv, [Next]_vars
    PROVE  HasPost'
<1>1. HasPost
    BY DEF IInv
<1>2. CASE BeginPost \/ Receive \/ Tick \/ Answer \/ Restart
    BY <1>1, <1>2
    DEF HasPost, BeginPost, Postable, Receive, Tick, Answer, Posted, PostRefused, PostFails, Restart
<1>3. CASE UNCHANGED <<queue, pos>>
    BY <1>1, <1>3 DEF HasPost
<1>4. QED
    BY <1>2, <1>3
    DEF Next, vars, Thread, Uploader, Open, StartWindow, FinishWindow, Stop, DeviceFails, Bridge,
        ChangeConfig, Respawn, Lag, uploadVars

-----------------------------------------------------------------------------
(* The channel.                                                            *)

(* An event joins it.                                                      *)
LEMMA SendStep ==
    ASSUME TypeOK, NEW type \in {"info", "started", "measured"}, NEW w \in Nat, Send(type, w)
    PROVE  LET e == [type |-> type, window |-> w, gen |-> worker.gen]
           IN  /\ e \in Event /\ pipe' = Append(pipe, e)
               /\ Len(pipe') = Len(pipe) + 1 /\ Len(pipe) \in Nat /\ pipe' # <<>>
               /\ pipe'[Len(pipe) + 1] = e
               /\ \A i \in 1..Len(pipe) : pipe'[i] = pipe[i]
<1>1. worker.gen \in Nat /\ pipe \in Seq(Event)
    BY DEF TypeOK
<1>2. [type |-> type, window |-> w, gen |-> worker.gen] \in Event
    BY <1>1 DEF Event
<1>3. QED
    BY <1>1, <1>2, PipeAppend DEF Send

(* Of what the worker sends only a measurement is one.                     *)
LEMMA Sent ==
    ASSUME TypeOK, Open \/ StartWindow \/ FinishWindow
    PROVE  /\ UNCHANGED <<since, store>>
           /\ \/ UNCHANGED measured /\ Waiting(pipe') = Waiting(pipe)
              \/ /\ worker.phase = "window"
                 /\ measured' = measured \cup {windows}
                 /\ Waiting(pipe') = Waiting(pipe) \cup {windows}
<1>1. UNCHANGED <<since, store>> /\ pipe \in Seq(Event) /\ worker.gen \in Nat /\ windows \in Nat
    BY DEF TypeOK, Open, StartWindow, FinishWindow, bridgeVars
<1>2. ASSUME NEW type \in {"info", "started", "measured"}, NEW w \in Nat, Send(type, w)
      PROVE  Waiting(pipe') = Waiting(pipe) \cup (IF type = "measured" THEN {w} ELSE {})
    <2> DEFINE e == [type |-> type, window |-> w, gen |-> worker.gen]
    <2>1. e \in Event /\ pipe' = Append(pipe, e) /\ e.type = type /\ e.window = w
        BY <1>1, <1>2 DEF Event, Send
    <2> HIDE DEF e
    <2>2. QED
        BY <1>1, <2>1, PipeAppend
<1>3. CASE Open
    BY <1>1, <1>2, <1>3 DEF Open
<1>4. CASE StartWindow
    <2>1. windows + 1 \in Nat /\ Send("started", windows + 1) /\ UNCHANGED measured
        BY <1>1, <1>4 DEF StartWindow
    <2>2. QED
        BY <1>1, <1>2, <2>1
<1>5. CASE FinishWindow
    <2>1. CASE Send("measured", windows) /\ measured' = measured \cup {windows}
        BY <1>1, <1>2, <1>5, <2>1 DEF FinishWindow
    <2>2. CASE UNCHANGED <<pipe, measured>>
        BY <1>1, <2>2
    <2>3. QED
        BY <1>5, <2>1, <2>2 DEF FinishWindow
<1>6. QED
    BY <1>3, <1>4, <1>5

(* A measurement follows the start of its own window down the channel: the *)
(* worker sends the two in turn, and the bridge takes them in turn.        *)
LEMMA PipeStampedStep ==
    ASSUME IInv, [Next]_vars
    PROVE  PipeStamped'
<1>1. TypeOK /\ PipeStamped /\ OneGeneration
    BY DEF IInv
<1>2. CASE Open
    <2>1. pipe = <<>> /\ worker'.phase = "between"
        BY <1>1, <1>2 DEF Open, WorkerAt, OneGeneration, TypeOK
    <2>2. Len(pipe') = 1 /\ pipe'[1].type = "info"
        <3>1. Send("info", 0) /\ Len(pipe) = 0 /\ 0 \in Nat
            BY <1>2, <2>1 DEF Open
        <3>2. /\ Len(pipe') = Len(pipe) + 1
              /\ pipe'[Len(pipe) + 1] = [type |-> "info", window |-> 0, gen |-> worker.gen]
            BY <1>1, <3>1, SendStep
        <3>3. QED
            BY <3>1, <3>2
    <2>3. QED
        BY <2>1, <2>2 DEF PipeStamped
<1>3. CASE StartWindow
    <2>1. windows + 1 \in Nat /\ windows' = windows + 1 /\ start' = start
        BY <1>1, <1>3 DEF StartWindow, TypeOK, bridgeVars
    <2>2. /\ Len(pipe') = Len(pipe) + 1 /\ Len(pipe) \in Nat /\ pipe' # <<>>
          /\ pipe'[Len(pipe) + 1] =
                 [type |-> "started", window |-> windows + 1, gen |-> worker.gen]
          /\ \A i \in 1..Len(pipe) : pipe'[i] = pipe[i]
        BY <1>1, <1>3, <2>1, SendStep DEF StartWindow
    <2>3. ASSUME NEW i \in 1..Len(pipe'), pipe'[i].type = "measured"
          PROVE  IF i = 1 THEN start' = pipe'[1].window
                 ELSE pipe'[i - 1].type = "started" /\ pipe'[i - 1].window = pipe'[i].window
        <3>1. i \in 1..Len(pipe) /\ pipe[i].type = "measured"
              /\ (i # 1 => i - 1 \in 1..Len(pipe)) /\ 1 \in 1..Len(pipe)
            BY <2>2, <2>3
        <3>2. QED
            BY <1>1, <2>1, <2>2, <3>1 DEF PipeStamped
    <2>4. QED
        BY <2>1, <2>2, <2>3 DEF PipeStamped
<1>4. CASE FinishWindow
    <2>1. /\ worker.phase = "window" /\ worker'.phase = "between"
          /\ windows \in Nat /\ UNCHANGED <<windows, start>>
        BY <1>1, <1>4 DEF FinishWindow, WorkerAt, TypeOK, bridgeVars
    <2>2. CASE UNCHANGED pipe
        BY <1>1, <2>1, <2>2 DEF PipeStamped
    <2>3. CASE Send("measured", windows)
        <3>1. /\ Len(pipe') = Len(pipe) + 1 /\ Len(pipe) \in Nat
              /\ pipe'[Len(pipe) + 1] =
                     [type |-> "measured", window |-> windows, gen |-> worker.gen]
              /\ \A i \in 1..Len(pipe) : pipe'[i] = pipe[i]
            BY <1>1, <2>1, <2>3, SendStep
        <3>2. ASSUME NEW i \in 1..Len(pipe'), pipe'[i].type = "measured"
              PROVE  IF i = 1 THEN start' = pipe'[1].window
                     ELSE pipe'[i - 1].type = "started" /\ pipe'[i - 1].window = pipe'[i].window
            <4>1. CASE i \in 1..Len(pipe)
                <5>1. pipe[i].type = "measured" /\ (i # 1 => i - 1 \in 1..Len(pipe))
                      /\ 1 \in 1..Len(pipe)
                    BY <3>1, <3>2, <4>1
                <5>2. QED
                    BY <1>1, <2>1, <3>1, <4>1, <5>1 DEF PipeStamped
            <4>2. CASE i = Len(pipe) + 1 /\ pipe = <<>>
                BY <1>1, <2>1, <3>1, <4>2 DEF PipeStamped
            <4>3. CASE i = Len(pipe) + 1 /\ pipe # <<>>
                <5>1. Len(pipe) \in 1..Len(pipe) /\ i # 1 /\ i - 1 = Len(pipe)
                    BY <1>1, <3>1, <4>3 DEF TypeOK
                <5>2. QED
                    BY <1>1, <2>1, <3>1, <4>3, <5>1 DEF PipeStamped
            <4>4. QED
                BY <3>1, <4>1, <4>2, <4>3
        <3>3. QED
            BY <2>1, <3>2 DEF PipeStamped
    <2>4. QED
        BY <1>4, <2>2, <2>3 DEF FinishWindow
<1>5. CASE Bridge
    <2>1. /\ pipe # <<>> /\ pipe' = Tail(pipe) /\ UNCHANGED <<worker, windows>>
          /\ start' = IF Head(pipe).type = "started" THEN Head(pipe).window ELSE start
        BY <1>5 DEF Bridge, Stamp, workerVars
    <2>2. /\ Head(pipe) = pipe[1] /\ Len(Tail(pipe)) = Len(pipe) - 1 /\ Len(pipe) \in Nat
          /\ Len(pipe) > 0
          /\ \A i \in 1..Len(Tail(pipe)) : i + 1 \in 1..Len(pipe) /\ Tail(pipe)[i] = pipe[i + 1]
        BY <1>1, <2>1, PipeTail DEF TypeOK
    <2>3. ASSUME NEW i \in 1..Len(pipe'), pipe'[i].type = "measured"
          PROVE  IF i = 1 THEN start' = pipe'[1].window
                 ELSE pipe'[i - 1].type = "started" /\ pipe'[i - 1].window = pipe'[i].window
        <3>1. /\ i + 1 \in 1..Len(pipe) /\ i + 1 # 1 /\ (i + 1) - 1 = i
              /\ pipe'[i] = pipe[i + 1]
            BY <2>1, <2>2
        <3>2. pipe[i].type = "started" /\ pipe[i].window = pipe[i + 1].window
            BY <1>1, <2>3, <3>1 DEF PipeStamped
        <3>3. CASE i = 1
            BY <2>1, <2>2, <3>1, <3>2, <3>3
        <3>4. CASE i # 1
            <4>1. i - 1 \in 1..Len(Tail(pipe)) /\ (i - 1) + 1 = i
                BY <2>1, <3>4
            <4>2. pipe'[i - 1] = pipe[i]
                BY <2>1, <2>2, <4>1
            <4>3. QED
                BY <3>1, <3>2, <3>4, <4>2
        <3>5. QED
            BY <3>3, <3>4
    <2>4. ASSUME worker'.phase = "window"
          PROVE  IF pipe' = <<>> THEN start' = windows'
                 ELSE pipe'[Len(pipe')].type = "started" /\ pipe'[Len(pipe')].window = windows'
        <3>1. pipe[Len(pipe)].type = "started" /\ pipe[Len(pipe)].window = windows
            BY <1>1, <2>1, <2>4 DEF PipeStamped
        <3>2. CASE pipe' = <<>>
            <4>1. Len(pipe) = 1
                <5>1. Tail(pipe) = <<>>
                    BY <2>1, <3>2
                <5>2. Len(<<>>) = 0
                    OBVIOUS
                <5>3. Len(Tail(pipe)) = 0
                    BY <5>1, <5>2, Zenon
                <5>4. QED
                    BY <2>2, <5>3
            <4>2. QED
                BY <2>1, <2>2, <3>1, <3>2, <4>1
        <3>3. CASE pipe' # <<>>
            <4>1. Tail(pipe) \in Seq(Event)
                BY <1>1, <2>1, PipeTail DEF TypeOK
            <4>2. Len(Tail(pipe)) \in 1..Len(Tail(pipe)) /\ Len(Tail(pipe)) + 1 = Len(pipe)
                BY <2>1, <2>2, <3>3, <4>1
            <4>3. pipe'[Len(pipe')] = pipe[Len(pipe)]
                BY <2>1, <2>2, <4>2
            <4>4. QED
                BY <2>1, <3>1, <3>3, <4>3
        <3>4. QED
            BY <3>2, <3>3
    <2>5. QED
        BY <2>3, <2>4 DEF PipeStamped
<1>6. CASE Respawn \/ Restart
    <2>1. pipe' = <<>> /\ worker'.phase = "opening"
        BY <1>6 DEF Respawn, Restart, NewWorker
    <2>2. QED
        BY <2>1 DEF PipeStamped
<1>7. CASE UNCHANGED <<pipe, start, windows>> /\ (worker'.phase = "window" => worker.phase = "window")
    BY <1>1, <1>7 DEF PipeStamped
<1>8. CASE Stop \/ DeviceFails \/ \E uploads \in BOOLEAN : ChangeConfig(uploads)
    <2>1. UNCHANGED <<pipe, start, windows>> /\ (worker'.phase = "window" => worker.phase = "window")
        BY <1>1, <1>8 DEF Stop, DeviceFails, ChangeConfig, WorkerAt, bridgeVars, TypeOK
    <2>2. QED
        BY <1>7, <2>1
<1>9. QED
    BY <1>2, <1>3, <1>4, <1>5, <1>6, <1>7, <1>8
    DEF Next, vars, workerVars, bridgeVars, Thread, Uploader, Answer, Receive, BeginPost, Tick,
        Posted, PostRefused, PostFails, Lag

(* A worker is joined, and its channel drained, before the next one opens. *)
LEMMA OneGenerationStep ==
    ASSUME IInv, [Next]_vars
    PROVE  OneGeneration'
<1>1. TypeOK /\ OneGeneration
    BY DEF IInv
<1>2. CASE Open
    <2>1. pipe = <<>> /\ worker'.phase = "between" /\ worker'.gen = worker.gen
          /\ UNCHANGED <<cfg, device, feed>>
        BY <1>1, <1>2 DEF Open, WorkerAt, OneGeneration, TypeOK, bridgeVars
    <2>2. pipe' # <<>> /\ Len(pipe') = 1 /\ pipe'[1].type = "info" /\ pipe'[1].gen = worker.gen
        <3>1. Send("info", 0) /\ Len(pipe) = 0 /\ 0 \in Nat
            BY <1>2, <2>1 DEF Open
        <3>2. /\ Len(pipe') = Len(pipe) + 1 /\ pipe' # <<>>
              /\ pipe'[Len(pipe) + 1] = [type |-> "info", window |-> 0, gen |-> worker.gen]
            BY <1>1, <3>1, SendStep
        <3>3. QED
            BY <3>1, <3>2
    <2>3. QED
        BY <1>1, <2>1, <2>2 DEF OneGeneration
<1>3. CASE StartWindow \/ (FinishWindow /\ pipe' # pipe)
    <2>1. PICK type \in {"started", "measured"}, w \in Nat : Send(type, w)
        BY <1>1, <1>3 DEF StartWindow, FinishWindow, TypeOK
    <2>2. /\ Len(pipe') = Len(pipe) + 1 /\ Len(pipe) \in Nat /\ pipe' # <<>>
          /\ pipe'[Len(pipe) + 1] = [type |-> type, window |-> w, gen |-> worker.gen]
          /\ \A i \in 1..Len(pipe) : pipe'[i] = pipe[i]
        BY <1>1, <2>1, SendStep
    <2>3. /\ worker.phase \in {"between", "window"} /\ worker'.phase \in {"between", "window"}
          /\ worker'.gen = worker.gen /\ UNCHANGED <<cfg, device, feed>>
        BY <1>1, <1>3 DEF StartWindow, FinishWindow, WorkerAt, TypeOK, bridgeVars
    <2>4. \A i \in 1..Len(pipe') :
              pipe'[i].gen = worker.gen /\ (pipe'[i].type = "info" => i = 1)
        BY <1>1, <2>2 DEF OneGeneration
    <2>5. pipe'[1].type = "info" \/ device = worker.gen
        <3>1. CASE pipe = <<>>
            BY <1>1, <2>3, <3>1 DEF OneGeneration
        <3>2. CASE pipe # <<>>
            <4>1. 1 \in 1..Len(pipe)
                BY <1>1, <3>2 DEF TypeOK
            <4>2. QED
                BY <1>1, <2>2, <3>2, <4>1 DEF OneGeneration
        <3>3. QED
            BY <3>1, <3>2
    <2>6. QED
        BY <1>1, <2>2, <2>3, <2>4, <2>5 DEF OneGeneration
<1>4. CASE Bridge
    <2> DEFINE e == Head(pipe)
               m == [window |-> e.window, stamp |-> Stamp(e), gen |-> e.gen]
    <2>1. /\ pipe # <<>> /\ pipe' = Tail(pipe) /\ UNCHANGED <<worker, cfg>>
          /\ device' = IF e.type = "info" THEN e.gen ELSE device
          /\ feed' = IF e.type = "measured" THEN Append(feed, m) ELSE feed
        BY <1>4 DEF Bridge, workerVars
    <2>2. /\ e = pipe[1] /\ Len(Tail(pipe)) = Len(pipe) - 1 /\ Len(pipe) \in Nat
          /\ Len(pipe) > 0 /\ 1 \in 1..Len(pipe) /\ Tail(pipe) \in Seq(Event)
          /\ \A i \in 1..Len(Tail(pipe)) : i + 1 \in 1..Len(pipe) /\ Tail(pipe)[i] = pipe[i + 1]
        BY <1>1, <2>1, PipeTail DEF TypeOK
    <2>3. e.gen = worker.gen /\ device' = worker.gen
        BY <1>1, <2>1, <2>2 DEF OneGeneration
    <2>4. \A i \in 1..Len(pipe') : pipe'[i].gen = worker.gen /\ pipe'[i].type # "info"
        <3>1. SUFFICES ASSUME NEW i \in 1..Len(Tail(pipe))
                       PROVE  Tail(pipe)[i].gen = worker.gen /\ Tail(pipe)[i].type # "info"
            BY <2>1
        <3>2. i + 1 \in 1..Len(pipe) /\ Tail(pipe)[i] = pipe[i + 1] /\ i + 1 # 1
            BY <2>2
        <3>3. QED
            BY <1>1, <3>2 DEF OneGeneration
    <2>5. \A x \in ToSet(feed') : x.gen <= worker.gen
        <3>1. CASE e.type = "measured"
            <4>1. m \in Measured /\ m.gen = worker.gen
                BY <2>1, <2>3, HeadTypes
            <4>2. ToSet(feed') = ToSet(feed) \cup {m}
                BY <1>1, <2>1, <3>1, <4>1, AppendItems DEF TypeOK
            <4>3. worker.gen \in Nat
                BY <1>1 DEF TypeOK
            <4>4. QED
                BY <1>1, <4>1, <4>2, <4>3 DEF OneGeneration
        <3>2. CASE e.type # "measured"
            BY <1>1, <2>1, <3>2 DEF OneGeneration
        <3>3. QED
            BY <3>1, <3>2
    <2>6. worker.gen \in Nat /\ worker.phase # "opening"
        BY <1>1, <2>1 DEF TypeOK, OneGeneration
    <2>7. QED
        BY <1>1, <2>1, <2>3, <2>4, <2>5, <2>6 DEF OneGeneration
<1>5. CASE Respawn
    <2>1. /\ pipe' = <<>> /\ worker'.phase = "opening" /\ worker'.gen = cfg.gen
          /\ UNCHANGED <<cfg, device, feed>>
        BY <1>5 DEF Respawn, NewWorker
    <2>2. /\ worker.gen \in Nat /\ cfg.gen \in Nat /\ device \in Nat
          /\ \A x \in ToSet(feed) : x.gen \in Nat
        <3>1. DOMAIN feed = 1..Len(feed) /\ \A i \in 1..Len(feed) : feed[i] \in Measured
            BY <1>1, ElementOfSeq DEF TypeOK
        <3>2. QED
            BY <1>1, <3>1 DEF TypeOK, ToSet, Measured
    <2>3. QED
        BY <1>1, <2>1, <2>2 DEF OneGeneration
<1>6. CASE Restart
    <2>1. /\ pipe' = <<>> /\ feed' = <<>> /\ device' = 0
          /\ worker'.phase = "opening" /\ worker'.gen = cfg.gen /\ UNCHANGED cfg
        BY <1>6 DEF Restart, NewWorker
    <2>2. cfg.gen \in Nat
        BY <1>1 DEF TypeOK
    <2>3. QED
        BY <2>1, <2>2, EmptyItems DEF OneGeneration
<1>7. CASE \E uploads \in BOOLEAN : ChangeConfig(uploads)
    <2>1. /\ cfg'.gen = cfg.gen + 1 /\ worker'.gen = worker.gen /\ worker'.phase = worker.phase
          /\ UNCHANGED <<pipe, feed, device>>
        BY <1>1, <1>7 DEF ChangeConfig, TypeOK, bridgeVars
    <2>2. cfg.gen \in Nat /\ worker.gen \in Nat
        BY <1>1 DEF TypeOK
    <2>3. QED
        BY <1>1, <2>1, <2>2 DEF OneGeneration
<1>8. CASE /\ UNCHANGED <<cfg, pipe, device>> /\ worker'.gen = worker.gen
           /\ worker'.phase \in {worker.phase, "ended"}
                \/ (worker.phase = "window" /\ worker'.phase = "between")
           /\ ToSet(feed') \subseteq ToSet(feed)
    BY <1>1, <1>8 DEF OneGeneration
<1>9. CASE Stop \/ DeviceFails \/ (FinishWindow /\ pipe' = pipe)
    <2>1. /\ UNCHANGED <<cfg, pipe, device, feed>> /\ worker'.gen = worker.gen
          /\ worker'.phase = "ended" \/ (worker.phase = "window" /\ worker'.phase = "between")
        BY <1>1, <1>9 DEF Stop, DeviceFails, FinishWindow, WorkerAt, bridgeVars, TypeOK
    <2>2. QED
        BY <1>8, <2>1
<1>10. CASE Receive \/ Lag
    <2>1. feed # <<>> /\ feed' = Tail(feed) /\ UNCHANGED <<cfg, pipe, device, worker>>
        BY <1>10 DEF Receive, Lag, bridgeVars, workerVars
    <2>2. ToSet(feed') \subseteq ToSet(feed)
        BY <1>1, <2>1, TailItems DEF TypeOK
    <2>3. QED
        BY <1>8, <2>1, <2>2
<1>11. CASE UNCHANGED <<cfg, pipe, device, worker, feed>>
    BY <1>8, <1>11
<1>12. QED
    BY <1>2, <1>3, <1>4, <1>5, <1>6, <1>7, <1>9, <1>10, <1>11
    DEF Next, vars, workerVars, bridgeVars, Thread, Uploader, Answer, BeginPost, Tick,
        Posted, PostRefused, PostFails

-----------------------------------------------------------------------------
(* What each place holds after a step, from what it held before.           *)

(* The bridge, with a measurement in hand.                                 *)
LEMMA BridgeMeasured ==
    ASSUME IInv, Bridge, Head(pipe).type = "measured"
    PROVE  LET e == Head(pipe)
               m == [window |-> e.window, stamp |-> Stamp(e), gen |-> e.gen]
           IN  /\ m \in Measured /\ m.stamp = m.window
               /\ store \in Seq(Measured) /\ Len(store) <= MaxEntries /\ feed \in Seq(Measured)
               /\ store' = Push(store, m) /\ feed' = Append(feed, m)
               /\ ToSet(feed') = ToSet(feed) \cup {m}
               /\ Windows(feed') = Windows(feed) \cup {e.window}
               /\ ToSet(store') \subseteq ToSet(store) \cup {m}
               /\ Windows(store') \subseteq Windows(store) \cup {e.window}
               /\ Waiting(pipe) = Waiting(pipe') \cup {e.window}
               /\ Lower({e.window}, Waiting(pipe')) /\ MeasuredRising(pipe')
               /\ UNCHANGED <<queue, site, worker, windows>>
<1> DEFINE e == Head(pipe)
           m == [window |-> e.window, stamp |-> Stamp(e), gen |-> e.gen]
<1>1. TypeOK /\ PipeStamped /\ MeasuredRising(pipe)
    BY DEF IInv, Ordered
<1>2. /\ pipe # <<>> /\ pipe' = Tail(pipe)
      /\ store' = Push(store, m) /\ feed' = Append(feed, m)
      /\ UNCHANGED <<queue, site, worker, windows>>
    BY DEF Bridge, uploadVars, workerVars
<1>3. m \in Measured
    BY <1>2, HeadTypes
<1>4. e = pipe[1] /\ 1 \in 1..Len(pipe)
    BY <1>1, <1>2 DEF TypeOK
<1>5. m.stamp = m.window
    BY <1>1, <1>4 DEF PipeStamped, Stamp
<1>6. store \in Seq(Measured) /\ Len(store) <= MaxEntries /\ feed \in Seq(Measured)
    BY <1>1 DEF TypeOK
<1>7. /\ ToSet(feed') = ToSet(feed) \cup {m}
      /\ Windows(feed') = Windows(feed) \cup {m.window}
    BY <1>2, <1>3, <1>6, AppendItems
<1>8. /\ ToSet(store') \subseteq ToSet(store) \cup {m}
      /\ Windows(store') \subseteq Windows(store) \cup {m.window}
    <2> HIDE DEF m
    <2>1. /\ ToSet(Push(store, m)) \subseteq ToSet(store) \cup {m}
          /\ Windows(Push(store, m)) \subseteq Windows(store) \cup {m.window}
        BY <1>3, <1>6, PushItems
    <2>2. QED
        BY <1>2, <2>1
<1>9. /\ Waiting(pipe) = Waiting(pipe') \cup {e.window}
      /\ Lower({e.window}, Waiting(pipe')) /\ MeasuredRising(pipe')
    BY <1>1, <1>2, PipeTail DEF TypeOK
<1>10. QED
    BY <1>2, <1>3, <1>5, <1>6, <1>7, <1>8, <1>9

(* The bridge takes an info or a start: no measurement moves.              *)
LEMMA BridgeOther ==
    ASSUME IInv, Bridge, Head(pipe).type # "measured"
    PROVE  /\ Waiting(pipe') = Waiting(pipe) /\ MeasuredRising(pipe')
           /\ UNCHANGED <<store, feed, queue, site, worker, windows, measured, dropped>>
<1>1. TypeOK /\ MeasuredRising(pipe)
    BY DEF IInv, Ordered
<1>2. pipe # <<>> /\ pipe' = Tail(pipe)
    BY DEF Bridge
<1>3. Waiting(pipe') = Waiting(pipe) /\ MeasuredRising(pipe')
    BY <1>1, <1>2, PipeTail DEF TypeOK
<1>4. QED
    BY <1>3 DEF Bridge, workerVars, uploadVars

(* The uploader, taking a measurement off the broadcast channel.           *)
LEMMA FeedTaken ==
    ASSUME IInv, feed # <<>>, feed' = Tail(feed)
    PROVE  /\ ToSet(feed) = {Head(feed)} \cup ToSet(feed')
           /\ Windows(feed) = {Head(feed).window} \cup Windows(feed')
           /\ Rising(feed') /\ Lower({Head(feed).window}, Windows(feed'))
<1>1. feed \in Seq(Measured) /\ Rising(feed)
    BY DEF IInv, TypeOK, Ordered
<1>2. QED
    BY <1>1, TailItems, TailRising

(* The uploader reads a measurement: it is queued, or given up.            *)
LEMMA Received ==
    ASSUME IInv, Receive
    PROVE  /\ feed # <<>> /\ feed' = Tail(feed)
           /\ UNCHANGED <<pipe, store, site, worker, windows, measured>>
           /\ WireOf(Head(feed)) \in Wire
           /\ ToSet(queue') \subseteq ToSet(queue) \cup {WireOf(Head(feed))}
           /\ Windows(queue') \subseteq Windows(queue) \cup {Head(feed).window}
           /\ Windows(queue) \cup {Head(feed).window} \subseteq Windows(queue') \cup dropped'
           /\ dropped \subseteq dropped'
           /\ queue' = queue \/ queue' = Push(queue, WireOf(Head(feed)))
<1>1. /\ feed # <<>> /\ feed' = Tail(feed)
      /\ UNCHANGED <<pipe, store, site, worker, windows, measured>>
      /\ queue \in Seq(Wire) /\ Len(queue) <= MaxEntries
    BY DEF Receive, workerVars, bridgeVars, IInv, TypeOK
<1>2. WireOf(Head(feed)) \in Wire /\ WireOf(Head(feed)).window = Head(feed).window
    BY <1>1, HeadTypes DEF WireOf
<1>3. CASE cfg.uploads
    <2>1. /\ queue' = Push(queue, WireOf(Head(feed)))
          /\ dropped' = dropped
                \cup ((Windows(queue) \cup {Head(feed).window}) \ Windows(queue'))
        BY <1>3 DEF Receive, Enqueue
    <2>2. /\ ToSet(queue') \subseteq ToSet(queue) \cup {WireOf(Head(feed))}
          /\ Windows(queue') \subseteq Windows(queue) \cup {Head(feed).window}
        BY <1>1, <1>2, <2>1, PushItems
    <2>3. QED
        BY <1>1, <1>2, <2>1, <2>2
<1>4. CASE ~cfg.uploads
    <2>1. queue' = queue /\ dropped' = dropped \cup {Head(feed).window}
        BY <1>4 DEF Receive, Enqueue
    <2>2. QED
        BY <1>1, <1>2, <2>1
<1>5. QED
    BY <1>3, <1>4

(* The website holds the head of the queue if it holds one of its window.  *)
LEMMA HeldByWindow ==
    ASSUME IInv, queue # <<>>
    PROVE  Held(Head(queue)) <=> Head(queue).window \in Windows(site)
<1>1. /\ queue \in Seq(Wire) /\ OwnStart(queue) /\ OwnStart(site)
      /\ DOMAIN site = 1..Len(site)
    BY DEF IInv, TypeOK, StampsGood
<1>2. Head(queue).stamp = Head(queue).window
    BY <1>1, TailItems DEF OwnStart
<1>3. \A i \in 1..Len(site) : site[i].stamp = site[i].window
    BY <1>1 DEF OwnStart, ToSet
<1>4. QED
    BY <1>2, <1>3 DEF Held, Windows

(* A POST, answered or not.                                                *)
LEMMA Answered ==
    ASSUME IInv, Answer
    PROVE  /\ queue # <<>> /\ queue' \in {queue, Tail(queue)}
           /\ ToSet(queue') \subseteq ToSet(queue) /\ Windows(queue') \subseteq Windows(queue)
           /\ Windows(queue) \subseteq {Head(queue).window} \cup Windows(queue')
           /\ Head(queue) \in ToSet(queue) /\ Head(queue).window \in Windows(queue)
           /\ AtMost({Head(queue).window}, Windows(queue))
           /\ Rising(queue')
           /\ site' = site \/ (site' = Append(site, Head(queue))
                                  /\ Head(queue).window \notin Windows(site))
           /\ Head(queue) \in Wire
           /\ ToSet(site) \subseteq ToSet(site')
           /\ ToSet(site') \subseteq ToSet(site) \cup {Head(queue)}
           /\ Windows(site) \subseteq Windows(site')
           /\ Windows(site') \subseteq Windows(site) \cup {Head(queue).window}
           /\ UNCHANGED <<pipe, store, feed, worker, windows, measured>>
           /\ dropped \subseteq dropped'
           /\ queue' # queue => Head(queue).window \in Windows(site') \cup dropped'
<1>1. /\ queue # <<>> /\ queue' \in {queue, Tail(queue)}
      /\ UNCHANGED <<pipe, store, feed, worker, windows, measured>>
    BY DEF Answer, Posted, PostRefused, PostFails, IInv, HasPost, workerVars, bridgeVars
<1>2. queue \in Seq(Wire) /\ site \in Seq(Wire) /\ Rising(queue) /\ Windows(queue) \subseteq 1..windows
    BY DEF IInv, TypeOK, Ordered, Arrived
<1>3. /\ Head(queue) \in Wire
      /\ ToSet(queue) = {Head(queue)} \cup ToSet(Tail(queue))
      /\ Windows(queue) = {Head(queue).window} \cup Windows(Tail(queue))
      /\ Rising(Tail(queue)) /\ Lower({Head(queue).window}, Windows(Tail(queue)))
    BY <1>1, <1>2, TailItems, TailRising
<1>4. AtMost({Head(queue).window}, Windows(queue))
    BY <1>2, <1>3 DEF AtMost, Lower
<1>5. /\ ToSet(queue') \subseteq ToSet(queue) /\ Windows(queue') \subseteq Windows(queue)
      /\ Windows(queue) \subseteq {Head(queue).window} \cup Windows(queue') /\ Rising(queue')
    BY <1>1, <1>2, <1>3
<1>6. \/ site' = site
      \/ site' = Append(site, Head(queue)) /\ Head(queue).window \notin Windows(site)
    BY <1>1, HeldByWindow DEF Answer, Posted, PostRefused, PostFails, Record
<1>7. /\ ToSet(Append(site, Head(queue))) = ToSet(site) \cup {Head(queue)}
      /\ Windows(Append(site, Head(queue))) = Windows(site) \cup {Head(queue).window}
    BY <1>2, <1>3, AppendItems
<1>8. dropped \subseteq dropped'
    BY DEF Answer, Posted, PostRefused, PostFails
<1>9. ASSUME queue' # queue
      PROVE  Head(queue).window \in Windows(site') \cup dropped'
    <2>1. CASE Posted
        <3>1. site' = Append(site, Head(queue))
            BY <2>1 DEF Posted, Record
        <3>2. QED
            BY <1>7, <3>1
    <2>2. CASE PostRefused
        <3>1. site' = site /\ (Held(Head(queue)) \/ Head(queue).window \in dropped')
            BY <2>2 DEF PostRefused
        <3>2. QED
            BY <1>1, <3>1, HeldByWindow
    <2>3. QED
        BY <1>9, <2>1, <2>2 DEF Answer, PostFails
<1>10. QED
    BY <1>1, <1>3, <1>4, <1>5, <1>6, <1>7, <1>8, <1>9

-----------------------------------------------------------------------------
(* The stamps.                                                             *)

(* What enqueue_measurement stamps is no older than the measurement.       *)
LEMMA WireGood ==
    ASSUME IInv, feed # <<>>
    PROVE  LET w == WireOf(Head(feed))
           IN  w.stamp = w.window /\ w.gen <= w.gain /\ w.gain <= w.cfg
<1>1. TypeOK /\ OneGeneration /\ OwnStart(feed)
    BY DEF IInv, StampsGood
<1>2. Head(feed) \in Measured /\ Head(feed) \in ToSet(feed)
    BY <1>1, TailItems DEF TypeOK
<1>3. /\ Head(feed).stamp = Head(feed).window
      /\ Head(feed).gen <= worker.gen /\ (device # 0 => Head(feed).gen <= device)
      /\ worker.gen <= cfg.gen /\ device <= worker.gen
    BY <1>1, <1>2 DEF OwnStart, OneGeneration
<1>4. Head(feed).gen \in Nat /\ worker.gen \in Nat /\ cfg.gen \in Nat /\ device \in Nat
    BY <1>1, <1>2 DEF TypeOK, Measured
<1>5. QED
    BY <1>3, <1>4 DEF WireOf, Gain

(* The stamps are right where they are made, and nothing changes them.     *)
LEMMA StampsStep ==
    ASSUME IInv, [Next]_vars
    PROVE  StampsGood'
<1>1. StampsGood
    BY DEF IInv
<1>2. CASE Bridge
    <2>1. CASE Head(pipe).type = "measured"
        BY <1>1, <1>2, <2>1, BridgeMeasured DEF StampsGood, OwnStart, NeverOlder
    <2>2. CASE Head(pipe).type # "measured"
        BY <1>1, <1>2, <2>2, BridgeOther DEF StampsGood
    <2>3. QED
        BY <2>1, <2>2
<1>3. CASE Receive
    <2>1. OwnStart(queue') /\ NeverOlder(queue')
        BY <1>1, <1>3, Received, WireGood DEF StampsGood, OwnStart, NeverOlder
    <2>2. OwnStart(feed')
        BY <1>1, <1>3, Received, FeedTaken DEF StampsGood, OwnStart
    <2>3. QED
        BY <1>1, <1>3, <2>1, <2>2, Received DEF StampsGood
<1>4. CASE Answer
    BY <1>1, <1>4, Answered DEF StampsGood, OwnStart, NeverOlder
<1>5. CASE Lag
    <2>1. OwnStart(feed')
        BY <1>1, <1>5, FeedTaken DEF Lag, StampsGood, OwnStart
    <2>2. QED
        BY <1>1, <1>5, <2>1 DEF Lag, StampsGood, bridgeVars, uploadVars
<1>6. CASE Restart
    BY <1>1, <1>6, EmptyItems DEF Restart, StampsGood
<1>7. CASE UNCHANGED <<store, feed, queue, site>>
    BY <1>1, <1>7 DEF StampsGood
<1>8. QED
    BY <1>2, <1>3, <1>4, <1>5, <1>6, <1>7
    DEF Next, vars, workerVars, bridgeVars, uploadVars, Thread, Uploader, Open, StartWindow,
        FinishWindow, Stop, DeviceFails, ChangeConfig, Respawn, BeginPost, Tick

-----------------------------------------------------------------------------
(* The order.                                                              *)

(* What is ahead of the channel has begun, and before any open window.     *)
LEMMA Begun ==
    ASSUME IInv
    PROVE  /\ windows \in Nat /\ Arrived \cup Waiting(pipe) \subseteq 1..windows
           /\ Arrived \cup Waiting(pipe) \subseteq Nat
           /\ \A x \in Arrived \cup Waiting(pipe) : x < windows + 1
           /\ worker.phase = "window" => \A x \in Arrived \cup Waiting(pipe) : x < windows
BY DEF IInv, TypeOK, Ordered

(* Each hop is first in, first out, and the queue keeps what failed at its *)
(* head.                                                                   *)
LEMMA OrderedStep ==
    ASSUME IInv, [Next]_vars
    PROVE  Ordered'
<1>1. TypeOK /\ Ordered /\ windows \in Nat
    BY DEF IInv, TypeOK
<1>2. CASE Open \/ StartWindow \/ (FinishWindow /\ pipe' = pipe)
    <2>1. UNCHANGED <<store, feed, queue, site>> /\ Arrived' = Arrived
        BY <1>2 DEF Open, StartWindow, FinishWindow, bridgeVars, uploadVars, Arrived
    <2>2. Waiting(pipe') = Waiting(pipe) /\ MeasuredRising(pipe')
        <3>1. CASE UNCHANGED pipe
            BY <1>1, <3>1 DEF Ordered
        <3>2. CASE Open \/ StartWindow
            <4>1. PICK type \in {"info", "started"}, w \in Nat : Send(type, w)
                BY <1>1, <3>2 DEF Open, StartWindow
            <4>2. pipe \in Seq(Event) /\ MeasuredRising(pipe)
                BY <1>1 DEF TypeOK, Ordered
            <4> DEFINE e == [type |-> type, window |-> w, gen |-> worker.gen]
            <4>3. e \in Event /\ pipe' = Append(pipe, e)
                BY <1>1, <4>1, SendStep
            <4>4. e.type # "measured"
                OBVIOUS
            <4> HIDE DEF e
            <4>5. QED
                <5>1. /\ Waiting(Append(pipe, e)) = Waiting(pipe) \cup {}
                      /\ MeasuredRising(Append(pipe, e))
                    BY <4>2, <4>3, <4>4, PipeAppend
                <5>2. QED
                    BY <4>3, <5>1
        <3>3. QED
            BY <1>2, <3>1, <3>2
    <2>3. windows' \in Nat /\ Arrived \cup Waiting(pipe) \subseteq 1..windows'
        BY <1>1, <1>2, Begun DEF Open, StartWindow, FinishWindow
    <2>4. worker'.phase = "window" => windows' = windows + 1
        BY <1>1, <1>2 DEF Open, StartWindow, FinishWindow, WorkerAt, TypeOK
    <2>5. windows + 1 \notin Arrived \cup Waiting(pipe)
        BY Begun
    <2>6. QED
        BY <1>1, <2>1, <2>2, <2>3, <2>4, <2>5 DEF Ordered
<1>3. CASE FinishWindow /\ pipe' # pipe
    <2>1. /\ worker.phase = "window" /\ worker'.phase = "between" /\ Send("measured", windows)
          /\ UNCHANGED <<store, feed, queue, site, windows>> /\ Arrived' = Arrived
        BY <1>1, <1>3 DEF FinishWindow, WorkerAt, TypeOK, bridgeVars, uploadVars, Arrived
    <2>2. /\ pipe \in Seq(Event) /\ MeasuredRising(pipe) /\ windows > 0
          /\ \A x \in Arrived \cup Waiting(pipe) : x < windows
        BY <1>1, <2>1, Begun DEF TypeOK, Ordered
    <2>3. Waiting(pipe') = Waiting(pipe) \cup {windows} /\ MeasuredRising(pipe')
        <3> DEFINE e == [type |-> "measured", window |-> windows, gen |-> worker.gen]
        <3>1. e \in Event /\ pipe' = Append(pipe, e)
            BY <1>1, <2>1, SendStep
        <3>2. e.type = "measured" /\ e.window = windows
            OBVIOUS
        <3> HIDE DEF e
        <3>3. Lower(Waiting(pipe), {e.window})
            BY <2>2, <3>2 DEF Lower
        <3>4. QED
            BY <2>2, <3>1, <3>2, <3>3, PipeAppend
    <2>4. Lower(Arrived, Waiting(pipe'))
        BY <1>1, <2>2, <2>3 DEF Ordered, Lower
    <2>5. Arrived \cup Waiting(pipe') \subseteq 1..windows
        BY <1>1, <2>2, <2>3 DEF Ordered
    <2>6. QED
        BY <1>1, <2>1, <2>3, <2>4, <2>5 DEF Ordered
<1>4. CASE Bridge
    <2>1. CASE Head(pipe).type # "measured"
        BY <1>1, <1>4, <2>1, BridgeOther DEF Ordered, Arrived
    <2>2. CASE Head(pipe).type = "measured"
        <3> DEFINE w == Head(pipe).window
                   m == [window |-> w, stamp |-> Stamp(Head(pipe)), gen |-> Head(pipe).gen]
        <3>1. /\ m \in Measured /\ store \in Seq(Measured) /\ Len(store) <= MaxEntries
              /\ feed \in Seq(Measured) /\ store' = Push(store, m) /\ feed' = Append(feed, m)
              /\ Windows(feed') = Windows(feed) \cup {w}
              /\ Windows(store') \subseteq Windows(store) \cup {w}
              /\ Waiting(pipe) = Waiting(pipe') \cup {w}
              /\ Lower({w}, Waiting(pipe')) /\ MeasuredRising(pipe')
              /\ UNCHANGED <<queue, site, worker, windows>>
            BY <1>4, <2>2, BridgeMeasured
        <3>2. Lower(Arrived, {w})
            BY <1>1, <3>1 DEF Ordered, Lower
        <3>3. Rising(feed') /\ Rising(store')
            <4> HIDE DEF m
            <4>1. m.window = w
                BY DEF m
            <4>2. Lower(Windows(feed), {m.window}) /\ Lower(Windows(store), {m.window})
                BY <3>2, <4>1 DEF Lower, Arrived
            <4>3. Rising(feed) /\ Rising(store)
                BY <1>1 DEF Ordered
            <4>4. QED
                BY <3>1, <4>2, <4>3, AppendRising, PushRising
        <3>4. Arrived' \subseteq Arrived \cup {w}
            BY <3>1 DEF Arrived
        <3>5. Lower(Arrived', Waiting(pipe'))
            BY <1>1, <3>1, <3>4 DEF Ordered, Lower
        <3>6. Lower(Windows(queue) \cup Windows(site), Windows(feed'))
            BY <1>1, <3>1, <3>2 DEF Ordered, Lower, Arrived
        <3>7. Arrived' \cup Waiting(pipe') \subseteq Arrived \cup Waiting(pipe)
            BY <3>1, <3>4
        <3>8. QED
            BY <1>1, <3>1, <3>3, <3>5, <3>6, <3>7 DEF Ordered
    <2>3. QED
        BY <2>1, <2>2
<1>5. CASE Receive
    <2> DEFINE h == Head(feed)
    <2>1. /\ feed # <<>> /\ feed' = Tail(feed)
          /\ UNCHANGED <<pipe, store, site, worker, windows>>
          /\ WireOf(h) \in Wire /\ WireOf(h).window = h.window
          /\ Windows(queue') \subseteq Windows(queue) \cup {h.window}
          /\ queue' = queue \/ queue' = Push(queue, WireOf(h))
        BY <1>5, Received DEF WireOf
    <2>2. /\ Windows(feed) = {h.window} \cup Windows(feed')
          /\ Rising(feed') /\ Lower({h.window}, Windows(feed'))
        BY <2>1, FeedTaken
    <2>3. Lower(Windows(queue) \cup Windows(site), {h.window})
        BY <1>1, <2>2 DEF Ordered, Lower
    <2>4. Rising(queue')
        <3>1. queue \in Seq(Wire) /\ Len(queue) <= MaxEntries /\ Rising(queue)
            BY <1>1 DEF TypeOK, Ordered
        <3>2. Lower(Windows(queue), {WireOf(h).window})
            BY <2>1, <2>3 DEF Lower
        <3>3. Rising(Push(queue, WireOf(h)))
            BY <2>1, <3>1, <3>2, PushRising
        <3>4. QED
            BY <2>1, <3>1, <3>3
    <2>5. Arrived' \subseteq Arrived
        BY <2>1, <2>2 DEF Arrived
    <2>6. Lower(Windows(queue') \cup Windows(site'), Windows(feed'))
        BY <1>1, <2>1, <2>2 DEF Ordered, Lower
    <2>7. AtMost(Windows(site'), Windows(queue'))
        <3>1. \A x \in Windows(site) : x \in Nat /\ x < h.window /\ h.window \in Nat
            BY <2>2, <2>3, Begun DEF Lower, Arrived
        <3>2. QED
            BY <1>1, <2>1, <3>1 DEF Ordered, AtMost
    <2>8. Lower(Arrived', Waiting(pipe'))
        BY <1>1, <2>1, <2>5 DEF Ordered, Lower
    <2>9. QED
        BY <1>1, <2>1, <2>2, <2>4, <2>5, <2>6, <2>7, <2>8 DEF Ordered
<1>6. CASE Answer
    <2> DEFINE h == Head(queue)
    <2>1. /\ h \in Wire /\ h.window \in Windows(queue)
          /\ AtMost({h.window}, Windows(queue)) /\ Rising(queue')
          /\ Windows(queue') \subseteq Windows(queue)
          /\ site' = site \/ (site' = Append(site, h) /\ h.window \notin Windows(site))
          /\ Windows(site') \subseteq Windows(site) \cup {h.window}
          /\ UNCHANGED <<pipe, store, feed, worker, windows>>
        BY <1>6, Answered
    <2>2. Rising(site')
        <3>1. site \in Seq(Wire) /\ Rising(site)
            BY <1>1 DEF TypeOK, Ordered
        <3>2. ASSUME h.window \notin Windows(site)
              PROVE  Lower(Windows(site), {h.window})
            <4>1. \A x \in Windows(site) : x \in Nat /\ h.window \in Nat /\ x <= h.window /\ x # h.window
                BY <1>1, <2>1, <3>2, Begun DEF Ordered, AtMost, Arrived
            <4>2. QED
                BY <4>1 DEF Lower
        <3>3. QED
            BY <2>1, <3>1, <3>2, AppendRising
    <2>3. Arrived' \subseteq Arrived
        BY <2>1 DEF Arrived
    <2>4. Lower(Windows(queue') \cup Windows(site'), Windows(feed'))
        BY <1>1, <2>1 DEF Ordered, Lower
    <2>5. AtMost(Windows(site'), Windows(queue'))
        BY <1>1, <2>1 DEF Ordered, AtMost
    <2>6. Lower(Arrived', Waiting(pipe'))
        BY <1>1, <2>1, <2>3 DEF Ordered, Lower
    <2>7. QED
        BY <1>1, <2>1, <2>2, <2>3, <2>4, <2>5, <2>6 DEF Ordered
<1>7. CASE Lag
    <2>1. feed # <<>> /\ feed' = Tail(feed) /\ UNCHANGED <<pipe, store, queue, site, worker, windows>>
        BY <1>7 DEF Lag, workerVars, bridgeVars, uploadVars
    <2>2. Rising(feed') /\ Windows(feed') \subseteq Windows(feed)
        BY <2>1, FeedTaken
    <2>3. Arrived' \subseteq Arrived
        BY <2>1, <2>2 DEF Arrived
    <2>4. Lower(Windows(queue) \cup Windows(site), Windows(feed')) /\ Lower(Arrived', Waiting(pipe))
        BY <1>1, <2>2, <2>3 DEF Ordered, Lower
    <2>5. QED
        BY <1>1, <2>1, <2>2, <2>3, <2>4 DEF Ordered
<1>8. CASE Restart
    <2>1. /\ pipe' = <<>> /\ store' = <<>> /\ feed' = <<>> /\ queue' = <<>>
          /\ UNCHANGED <<site, windows>> /\ worker'.phase = "opening"
        BY <1>8 DEF Restart, NewWorker
    <2>2. Arrived' \subseteq Arrived
        BY <2>1, EmptyItems DEF Arrived
    <2>3. QED
        BY <1>1, <2>1, <2>2, EmptyItems DEF Ordered, Lower, AtMost
<1>9. CASE /\ UNCHANGED <<pipe, store, feed, queue, site, windows>>
           /\ worker'.phase = "window" => worker.phase = "window"
    BY <1>1, <1>9 DEF Ordered, Arrived
<1>10. CASE Stop \/ DeviceFails \/ Respawn \/ \E uploads \in BOOLEAN : ChangeConfig(uploads)
    <2>1. /\ UNCHANGED <<store, feed, queue, site, windows>>
          /\ worker'.phase = "window" => worker.phase = "window"
          /\ pipe' = pipe
        BY <1>1, <1>10 DEF Stop, DeviceFails, Respawn, NewWorker, ChangeConfig, WorkerAt,
           bridgeVars, uploadVars, TypeOK
    <2>2. QED
        BY <1>9, <2>1
<1>11. QED
    BY <1>2, <1>3, <1>4, <1>5, <1>6, <1>7, <1>8, <1>9, <1>10
    DEF Next, vars, workerVars, bridgeVars, uploadVars, Thread, Uploader, BeginPost, Tick

-----------------------------------------------------------------------------
(* Nothing is lost without a name for it.                                  *)
Told ==
    Waiting(pipe) \cup Windows(feed) \cup Windows(queue) \cup Windows(site) \cup dropped

(* What leaves one place arrives in the next, or is given up there.        *)
LEMMA AccountedStep ==
    ASSUME IInv, [Next]_vars
    PROVE  Accounted'
<1>1. TypeOK /\ measured \subseteq Told
    BY DEF IInv, Accounted, Told, Pending, Waiting
<1>2. SUFFICES measured' \subseteq Told'
    BY DEF Accounted, Told, Pending, Waiting
<1>3. CASE Open \/ StartWindow
    <2>1. PICK type \in {"info", "started"}, w \in Nat : Send(type, w)
        BY <1>1, <1>3 DEF Open, StartWindow, TypeOK
    <2>2. \E e \in Event : pipe' = Append(pipe, e)
        BY <1>1, <2>1, SendStep
    <2>3. Waiting(pipe) \subseteq Waiting(pipe')
        <3>1. pipe \in Seq(Event)
            BY <1>1 DEF TypeOK
        <3>2. QED
            BY <2>2, <3>1, PipeAppend
    <2>4. QED
        BY <1>1, <1>3, <2>3 DEF Open, StartWindow, bridgeVars, uploadVars, Told
<1>4. CASE FinishWindow
    <2>1. CASE Send("measured", windows) /\ measured' = measured \cup {windows}
        <3> DEFINE e == [type |-> "measured", window |-> windows, gen |-> worker.gen]
        <3>1. e \in Event /\ pipe' = Append(pipe, e)
            BY <1>1, <2>1, SendStep DEF TypeOK
        <3>2. e.type = "measured" /\ e.window = windows
            OBVIOUS
        <3> HIDE DEF e
        <3>3. pipe \in Seq(Event)
            BY <1>1 DEF TypeOK
        <3>4. Waiting(pipe') = Waiting(pipe) \cup {windows}
            BY <3>1, <3>2, <3>3, PipeAppend
        <3>5. QED
            BY <1>1, <1>4, <2>1, <3>4 DEF FinishWindow, bridgeVars, uploadVars, Told
    <2>2. CASE UNCHANGED <<pipe, measured>>
        BY <1>1, <1>4, <2>2 DEF FinishWindow, bridgeVars, uploadVars, Told
    <2>3. QED
        BY <1>4, <2>1, <2>2 DEF FinishWindow
<1>5. CASE Bridge
    <2>1. UNCHANGED <<measured, queue, site, dropped>>
        BY <1>5 DEF Bridge, workerVars, uploadVars
    <2>2. CASE Head(pipe).type = "measured"
        BY <1>1, <1>5, <2>1, <2>2, BridgeMeasured DEF Told
    <2>3. CASE Head(pipe).type # "measured"
        BY <1>1, <1>5, <2>1, <2>3, BridgeOther DEF Told
    <2>4. QED
        BY <2>2, <2>3
<1>6. CASE Receive
    BY <1>1, <1>6, Received, FeedTaken DEF Told
<1>7. CASE Answer
    <2>1. Windows(queue) \subseteq Windows(queue') \cup Windows(site') \cup dropped'
        BY <1>7, Answered
    <2>2. QED
        BY <1>1, <1>7, <2>1, Answered DEF Told
<1>8. CASE Lag
    BY <1>1, <1>8, FeedTaken DEF Lag, workerVars, bridgeVars, uploadVars, Told
<1>9. CASE Restart
    <2>1. /\ dropped' = dropped \cup (Pending \ Windows(site))
          /\ UNCHANGED <<measured, site>>
        BY <1>9 DEF Restart
    <2>2. QED
        BY <1>1, <2>1, PendingBegun DEF Told
<1>10. CASE UNCHANGED <<measured, pipe, feed, queue, site, dropped>>
    BY <1>1, <1>10 DEF Told
<1>11. CASE Respawn
    BY <1>10, <1>11 DEF Respawn, uploadVars
<1>12. QED
    BY <1>3, <1>4, <1>5, <1>6, <1>7, <1>8, <1>9, <1>10, <1>11
    DEF Next, vars, workerVars, bridgeVars, uploadVars, Thread, Uploader, Stop, DeviceFails,
        ChangeConfig, BeginPost, Tick

-----------------------------------------------------------------------------
(* The ring buffer.                                                        *)

(* What a full ring buffer gives up is older than all it keeps.            *)
LEMMA PushKeeps ==
    ASSUME NEW S, NEW q \in Seq(S), NEW m \in S, Len(q) <= MaxEntries,
           Rising(q), Lower(Windows(q), {m.window}), NEW w \in Windows(q), m.window \in Nat
    PROVE  \/ w \in Windows(Push(q, m))
           \/ Len(Push(q, m)) = MaxEntries /\ \A v \in Windows(Push(q, m)) : w < v
<1> MaxEntries \in Nat \ {0} /\ Len(q) \in Nat
    BY MaxEntriesAssumption
<1> DEFINE r == Tail(q)
<1>1. CASE Len(q) >= MaxEntries
    <2>1. q # <<>> /\ Push(q, m) = Append(r, m)
        BY <1>1 DEF Push
    <2>2. r \in Seq(S) /\ Len(r) = Len(q) - 1
        BY <2>1, TailItems
    <2>3. /\ Windows(q) = {Head(q).window} \cup Windows(r)
          /\ Lower({Head(q).window}, Windows(r))
        BY <2>1, TailItems, TailRising
    <2> HIDE DEF r
    <2>4. /\ Len(Append(r, m)) = Len(r) + 1
          /\ Windows(Append(r, m)) = Windows(r) \cup {m.window}
        BY <2>2, AppendItems
    <2>5. Len(q) = MaxEntries
        BY <1>1
    <2>6. Len(Push(q, m)) = MaxEntries
        BY <2>1, <2>2, <2>4, <2>5
    <2>7. CASE w \in Windows(r)
        BY <2>1, <2>4, <2>7
    <2>8. CASE w = Head(q).window
        BY <2>1, <2>3, <2>4, <2>6, <2>8 DEF Lower
    <2>9. QED
        BY <2>3, <2>7, <2>8
<1>2. CASE ~(Len(q) >= MaxEntries)
    BY <1>2, AppendItems DEF Push
<1>3. QED
    BY <1>1, <1>2

(* Once full, it stays full.                                               *)
LEMMA PushFull ==
    ASSUME NEW S, NEW q \in Seq(S), NEW m \in S, Len(q) = MaxEntries
    PROVE  Len(Push(q, m)) = MaxEntries
<1>1. MaxEntries \in Nat \ {0} /\ Len(q) >= MaxEntries /\ q # <<>>
    BY MaxEntriesAssumption
<1>2. Tail(q) \in Seq(S) /\ Len(Tail(q)) = MaxEntries - 1 /\ Push(q, m) = Append(Tail(q), m)
    BY <1>1 DEF Push
<1>3. QED
    BY <1>1, <1>2, AppendItems

(* The windows a step adds to the channel are of this process.             *)
LEMMA MadeStep ==
    ASSUME IInv, [Next]_vars
    PROVE  Made'
<1>1. TypeOK /\ Made /\ windows \in Nat /\ since \in Nat /\ since <= windows
    BY DEF IInv, TypeOK
<1>2. CASE Open \/ StartWindow \/ FinishWindow
    <2>1. UNCHANGED since /\ (worker'.phase = "window" => windows' > since)
        BY <1>1, <1>2, Sent DEF Open, StartWindow, FinishWindow, WorkerAt, TypeOK
    <2>2. Waiting(pipe') \subseteq Live'
        BY <1>1, <1>2, <2>1, Sent DEF Made, Live
    <2>3. QED
        BY <2>1, <2>2 DEF Made
<1>3. CASE Bridge
    <2>1. UNCHANGED <<worker, windows, measured, since>> /\ pipe # <<>> /\ pipe' = Tail(pipe)
        BY <1>3 DEF Bridge, workerVars
    <2>2. Waiting(pipe') \subseteq Waiting(pipe)
        BY <1>1, <2>1, PipeTail DEF TypeOK
    <2>3. QED
        BY <1>1, <2>1, <2>2 DEF Made, Live
<1>4. CASE Restart
    BY <1>4, EmptyItems DEF Restart, NewWorker, Made
<1>5. CASE /\ UNCHANGED <<windows, measured, since, pipe>>
           /\ worker'.phase = "window" => worker.phase = "window"
    BY <1>1, <1>5 DEF Made, Live
<1>6. CASE \E uploads \in BOOLEAN : ChangeConfig(uploads)
    BY <1>1, <1>5, <1>6 DEF ChangeConfig, TypeOK
<1>7. CASE Stop \/ DeviceFails \/ Respawn
    BY <1>1, <1>5, <1>7 DEF Stop, DeviceFails, Respawn, WorkerAt, NewWorker, TypeOK
<1>8. QED
    BY <1>2, <1>3, <1>4, <1>5, <1>6, <1>7
    DEF Next, vars, workerVars, Thread, Uploader, Answer, BeginPost, Receive, Tick, Posted,
        PostRefused, PostFails, Lag

Kept(w) == \/ w \in Windows(store)
           \/ Len(store) = MaxEntries /\ \A v \in Windows(store) : w < v

(* Only the bridge writes to the ring buffer, and it takes off the oldest. *)
LEMMA NewestStep ==
    ASSUME IInv, [Next]_vars
    PROVE  StoreKeepsNewest'
<1>1. /\ TypeOK /\ Ordered /\ Made /\ Rising(store) /\ Windows(store) \subseteq Bridged
      /\ \A w \in Bridged : Kept(w)
    BY DEF IInv, StoreKeepsNewest, Kept
<1>2. SUFFICES /\ Rising(store') /\ Windows(store') \subseteq Bridged'
               /\ \A w \in Bridged' : Kept(w)'
    BY DEF StoreKeepsNewest, Kept
<1>3. CASE UNCHANGED store /\ Bridged' = Bridged
    BY <1>1, <1>3 DEF Kept
<1>4. CASE UNCHANGED <<measured, since, pipe, store>>
    BY <1>3, <1>4 DEF Bridged
<1>5. CASE Open \/ StartWindow \/ FinishWindow
    <2>1. CASE UNCHANGED measured /\ Waiting(pipe') = Waiting(pipe)
        BY <1>1, <1>3, <1>5, <2>1, Sent DEF Bridged
    <2>2. CASE /\ worker.phase = "window"
               /\ measured' = measured \cup {windows}
               /\ Waiting(pipe') = Waiting(pipe) \cup {windows}
        <3>1. windows \notin Windows(store)
            BY <1>1, <2>2 DEF Ordered, Arrived
        <3>2. UNCHANGED <<since, store>> /\ Bridged' = Bridged \ {windows}
            BY <1>1, <1>5, <2>2, Sent DEF Bridged
        <3>3. QED
            BY <1>1, <3>1, <3>2 DEF Kept
    <2>3. QED
        BY <1>1, <1>5, <2>1, <2>2, Sent
<1>6. CASE Bridge
    <2>1. /\ UNCHANGED <<measured, since>> /\ pipe # <<>> /\ pipe' = Tail(pipe)
          /\ Waiting(pipe) = Waiting(pipe')
                \cup (IF Head(pipe).type = "measured" THEN {Head(pipe).window} ELSE {})
        BY <1>1, <1>6, PipeTail DEF Bridge, workerVars, TypeOK
    <2>2. CASE Head(pipe).type # "measured"
        <3>1. UNCHANGED store
            BY <1>6, <2>2, BridgeOther
        <3>2. QED
            BY <1>3, <2>1, <2>2, <3>1 DEF Bridged
    <2>3. CASE Head(pipe).type = "measured"
        <3> DEFINE m == [window |-> Head(pipe).window, stamp |-> Stamp(Head(pipe)),
                         gen |-> Head(pipe).gen]
        <3>1. /\ m \in Measured /\ store \in Seq(Measured) /\ Len(store) <= MaxEntries
              /\ store' = Push(store, m)
              /\ m.window \in Waiting(pipe) /\ m.window = Head(pipe).window
            BY <1>6, <2>3, BridgeMeasured
        <3> HIDE DEF m
        <3>2. Lower(Windows(store), {m.window})
            BY <1>1, <3>1 DEF Ordered, Lower, Arrived
        <3>3. /\ m.window \in Windows(store') /\ Rising(store')
              /\ Windows(store') \subseteq Windows(store) \cup {m.window}
            BY <1>1, <3>1, <3>2, PushItems, PushRising
        <3>4. m.window \notin Waiting(pipe') /\ m.window \in measured /\ m.window > since
            <4>1. Lower({m.window}, Waiting(pipe'))
                BY <1>1, <2>1, <2>3, <3>1, PipeTail DEF Ordered, TypeOK
            <4>2. m.window \in Nat
                BY <3>1 DEF Measured
            <4>3. QED
                BY <1>1, <3>1, <4>1, <4>2 DEF Lower, Made, Live
        <3>5. Bridged' = Bridged \cup {m.window}
            BY <2>1, <2>3, <3>1, <3>4 DEF Bridged
        <3>6. SUFFICES ASSUME NEW w \in Bridged
                       PROVE  Kept(w)'
            BY <1>1, <3>3, <3>5 DEF Kept
        <3>7. CASE w \in Windows(store)
            <4>1. m.window \in Nat
                BY <3>1 DEF Measured
            <4>2. \/ w \in Windows(Push(store, m))
                  \/ /\ Len(Push(store, m)) = MaxEntries
                     /\ \A v \in Windows(Push(store, m)) : w < v
                BY <1>1, <3>1, <3>2, <3>7, <4>1, PushKeeps
            <4>3. QED
                BY <3>1, <4>2 DEF Kept
        <3>8. CASE w \notin Windows(store)
            <4>1. Len(store) = MaxEntries /\ \A v \in Windows(store) : w < v
                BY <1>1, <3>6, <3>8 DEF Kept
            <4>2. Len(store') = MaxEntries
                BY <3>1, <4>1, PushFull
            <4>3. w < m.window
                <5>1. store[1].window \in Windows(store)
                    BY <4>1, MaxEntriesAssumption DEF Windows
                <5>2. w < store[1].window /\ store[1].window < m.window
                    BY <3>2, <4>1, <5>1 DEF Lower
                <5>3. w \in Nat /\ store[1].window \in Nat /\ m.window \in Nat
                    <6>1. Bridged \subseteq measured /\ measured \subseteq 1..windows
                        BY <1>1 DEF Bridged, TypeOK
                    <6>2. w \in 1..windows /\ store[1].window \in 1..windows
                        BY <1>1, <3>6, <5>1, <6>1
                    <6>3. QED
                        BY <3>1, <6>2 DEF Measured
                <5>4. QED
                    BY <5>2, <5>3
            <4>4. QED
                BY <3>3, <4>1, <4>2, <4>3 DEF Kept
        <3>9. QED
            BY <3>7, <3>8
    <2>4. QED
        BY <2>2, <2>3
<1>7. CASE Restart
    <2>1. store' = <<>> /\ pipe' = <<>> /\ measured' = measured /\ since' = windows
        BY <1>7 DEF Restart
    <2>2. \A w \in measured : ~(w > windows)
        BY <1>1 DEF TypeOK
    <2>3. Bridged' = {}
        BY <2>1, <2>2 DEF Bridged
    <2>4. QED
        BY <2>1, <2>3, EmptyItems
<1>8. QED
    BY <1>4, <1>5, <1>6, <1>7
    DEF Next, vars, workerVars, bridgeVars, Thread, Uploader, Answer, Stop, DeviceFails,
        ChangeConfig, Respawn, BeginPost, Receive, Tick, Posted, PostRefused, PostFails, Lag

-----------------------------------------------------------------------------
(* The order the run checks, from the order by parts.                      *)
LEMMA OrderIsInOrder ==
    ASSUME IInv
    PROVE  InOrder
<1>1. /\ Rising(queue) /\ Rising(feed) /\ Rising(site) /\ Rising(store)
      /\ Lower(Windows(queue), Windows(feed)) /\ AtMost(Windows(site), Windows(queue))
      /\ queue \in Seq(Wire) /\ feed \in Seq(Measured) /\ site \in Seq(Wire)
    BY DEF IInv, TypeOK, Ordered, Lower
<1>2. Rising(queue \o feed)
    <2>1. /\ Len(queue \o feed) = Len(queue) + Len(feed)
          /\ Len(queue) \in Nat /\ Len(feed) \in Nat
          /\ \A i \in 1..(Len(queue) + Len(feed)) :
                (queue \o feed)[i] = IF i <= Len(queue) THEN queue[i] ELSE feed[i - Len(queue)]
        BY <1>1
    <2>2. SUFFICES ASSUME NEW i \in 1..(Len(queue) + Len(feed)),
                          NEW j \in 1..(Len(queue) + Len(feed)), i < j
                   PROVE  (queue \o feed)[i].window < (queue \o feed)[j].window
        BY <2>1 DEF Rising
    <2>3. CASE j <= Len(queue)
        <3>1. i \in 1..Len(queue) /\ j \in 1..Len(queue)
            BY <2>1, <2>2, <2>3
        <3>2. QED
            BY <1>1, <2>1, <2>2, <2>3, <3>1 DEF Rising
    <2>4. CASE i <= Len(queue) /\ ~(j <= Len(queue))
        <3>1. i \in 1..Len(queue) /\ j - Len(queue) \in 1..Len(feed)
            BY <2>1, <2>2, <2>4
        <3>2. queue[i].window \in Windows(queue) /\ feed[j - Len(queue)].window \in Windows(feed)
            BY <3>1 DEF Windows
        <3>3. QED
            BY <1>1, <2>1, <2>4, <3>2 DEF Lower
    <2>5. CASE ~(i <= Len(queue))
        <3>1. /\ i - Len(queue) \in 1..Len(feed) /\ j - Len(queue) \in 1..Len(feed)
              /\ i - Len(queue) < j - Len(queue) /\ ~(j <= Len(queue))
            BY <2>1, <2>2, <2>5
        <3>2. feed[i - Len(queue)].window < feed[j - Len(queue)].window
            BY <1>1, <3>1 DEF Rising
        <3>3. QED
            BY <2>1, <2>5, <3>1, <3>2
    <2>6. QED
        BY <2>3, <2>4, <2>5
<1>3. ASSUME site # <<>>, queue # <<>>
      PROVE  Last(site).window <= Head(queue).window
    <2>1. Len(site) \in 1..Len(site) /\ Last(site) = site[Len(site)]
        BY <1>1, <1>3 DEF Last
    <2>2. Last(site).window \in Windows(site)
        BY <2>1 DEF Windows
    <2>3. Head(queue).window \in Windows(queue)
        BY <1>1, <1>3, TailItems
    <2>4. QED
        BY <1>1, <2>2, <2>3 DEF AtMost
<1>4. QED
    BY <1>1, <1>2, <1>3 DEF InOrder

(* The stamps the run checks, from those of the items.                     *)
LEMMA StampsAreStamped ==
    ASSUME IInv
    PROVE  Stamped
<1>1. StampsGood /\ TypeOK
    BY DEF IInv
<1>2. /\ DOMAIN store = 1..Len(store) /\ DOMAIN feed = 1..Len(feed)
      /\ DOMAIN queue = 1..Len(queue) /\ DOMAIN site = 1..Len(site)
    BY <1>1 DEF TypeOK
<1>3. StampedWithOwnStart
    BY <1>1, <1>2 DEF StampedWithOwnStart, StampsGood, OwnStart, ToSet
<1>4. StampsNeverOlder
    BY <1>1, <1>2 DEF StampsNeverOlder, StampsGood, NeverOlder, ToSet
<1>5. QED
    BY <1>3, <1>4 DEF Stamped

-----------------------------------------------------------------------------
(* The inductive invariant holds of every reachable state.                 *)
LEMMA Invariance == Spec => []IInv
<1>1. Init => IInv
    BY Initially
<1>2. IInv /\ [Next]_vars => IInv'
    BY TypeStep, HasPostStep, OrderedStep, PipeStampedStep, OneGenerationStep, StampsStep,
       AccountedStep, MadeStep, NewestStep DEF IInv
<1>3. QED
    BY <1>1, <1>2, PTL DEF Spec

(* Every variable keeps its type, and the two bounded buffers their bound. *)
THEOREM TypeCorrect == Spec => []TypeOK
<1>1. IInv => TypeOK
    BY DEF IInv
<1>2. QED
    BY <1>1, Invariance, PTL

(* A measurement is on its way, at the website, or given up for a reason   *)
(* the code names: none is lost between worker, bridge and uploader.       *)
THEOREM NoneLost == Spec => []Accounted
<1>1. IInv => Accounted
    BY DEF IInv
<1>2. QED
    BY <1>1, Invariance, PTL

(* Measurements reach the website in the order they were made.             *)
THEOREM DeliversInOrder == Spec => []InOrder
<1>1. IInv => InOrder
    BY OrderIsInOrder
<1>2. QED
    BY <1>1, Invariance, PTL

(* A measurement is stamped with the beginning of its own window, and with *)
(* a config and a gain that are no older than it.                          *)
THEOREM StampsCorrect == Spec => []Stamped
<1>1. IInv => Stamped
    BY StampsAreStamped
<1>2. QED
    BY <1>1, Invariance, PTL

(* The ring buffer holds the newest measurements of this process, as many  *)
(* as fit, each once, in order and without a gap.                          *)
THEOREM KeepsNewest == Spec => []StoreKeepsNewest
<1>1. IInv => StoreKeepsNewest
    BY DEF IInv
<1>2. QED
    BY <1>1, Invariance, PTL
=============================================================================
