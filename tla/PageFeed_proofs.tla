--------------------------- MODULE PageFeed_proofs ---------------------------
(***************************************************************************)
(* Proofs about PageFeed, for every capacity of the broadcast and of the   *)
(* socket and every number of changes, frames, dropped sockets and         *)
(* restarts.                                                               *)
(*                                                                         *)
(* NothingInTheGap speaks of the moment when nothing is on its way; it is  *)
(* not inductive.  What is, is Flows: at every moment, of everything that  *)
(* has been broadcast or held, the newest value of a topic is the last one *)
(* of its kind along receiver, snapshot, socket and screen, unless the     *)
(* receiver was too slow for it.  SocketGood says in which phase of        *)
(* handle_ws which of these are empty, ValuesMade that no frame and no     *)
(* request carries a content nobody has made.                              *)
(***************************************************************************)
EXTENDS PageFeed, TLAPS

Has(q, t) == \E i \in 1..Len(q) : q[i].topic = t

(* The last frame of q about t carries v.                                  *)
Ends(q, t, v) ==
    \E i \in 1..Len(q) :
        /\ q[i].topic = t /\ q[i].value = v
        /\ \A j \in 1..Len(q) : i < j => q[j].topic # t

Within(q, bound) == \A i \in 1..Len(q) : q[i].topic = "config" => q[i].value \in 0..bound

Shown(t) == IF t = "measurement" THEN ShowsMeasurement ELSE ShowsConfig

ValuesMade ==
    /\ Within(feed, made) /\ Within(wire, made) /\ Within(task.snapshot, made)
    /\ boot \in [at : {"none", "asked", "answered"}, value : 0..made]
    /\ save \in [at : {"none", "sent", "applied", "ok"}, value : 0..made]
    /\ save.at # "none" => save.value # 0

SocketGood ==
    /\ (link = "up") = (task.at # "none")
    /\ task.at = "none" => feed = <<>>
    /\ task.at \in {"none", "store", "config"} => wire = <<>>
    /\ task.at \in {"none", "store", "live"} => task.snapshot = <<>>
    /\ \A t \in missed : ~Has(feed, t)

(* handle_ws has read t for the snapshot.                                  *)
HasRead(t) == task.at \in {"sending", "live"} \/ (t = "measurement" /\ task.at = "config")

OnItsWay(t) ==
    IF Has(task.snapshot, t) THEN Ends(task.snapshot, t, held[t])
    ELSE IF Has(wire, t) THEN Ends(wire, t, held[t])
    ELSE Shown(t)

Flows(t) ==
    t \notin unsent =>
        IF Has(feed, t) THEN Ends(feed, t, held[t])
        ELSE t \notin missed /\ HasRead(t) => OnItsWay(t)

-----------------------------------------------------------------------------
(* Sequences of frames                                                     *)

(* Nothing is in an empty sequence.                                        *)
LEMMA EmptyFrames ==
    /\ <<>> \in Seq(Frame) /\ Len(<<>>) = 0
    /\ \A t : ~Has(<<>>, t)
    /\ \A m \in Nat : Within(<<>>, m)
<1>1. <<>> \in Seq(Frame) /\ Len(<<>>) = 0
    OBVIOUS
<1>2. 1..Len(<<>>) = {}
    BY <1>1
<1>3. QED
    BY <1>1, <1>2, Zenon DEF Has, Within

(* A frame that joins is the last of its kind.                             *)
LEMMA AppendFrame ==
    ASSUME NEW q \in Seq(Frame), NEW f \in Frame
    PROVE  /\ Append(q, f) \in Seq(Frame) /\ Len(Append(q, f)) = Len(q) + 1
           /\ \A t : Has(Append(q, f), t) <=> Has(q, t) \/ f.topic = t
           /\ Ends(Append(q, f), f.topic, f.value)
           /\ \A t, v : f.topic # t => (Ends(Append(q, f), t, v) <=> Ends(q, t, v))
           /\ \A m \in Nat : Within(q, m) /\ (f.topic = "config" => f.value \in 0..m)
                                => Within(Append(q, f), m)
<1> DEFINE a == Append(q, f)
<1>1. /\ a \in Seq(Frame) /\ Len(a) = Len(q) + 1 /\ Len(q) \in Nat
      /\ a[Len(q) + 1] = f /\ \A i \in 1..Len(q) : a[i] = q[i]
    OBVIOUS
<1> HIDE DEF a
<1>2. \A i \in 1..Len(a) : i \in 1..Len(q) \/ i = Len(q) + 1
    BY <1>1
<1>3. Len(a) \in 1..Len(a) /\ \A i \in 1..Len(q) : i \in 1..Len(a) /\ i < Len(a)
    BY <1>1
<1>4. \A t : Has(a, t) <=> Has(q, t) \/ f.topic = t
    BY <1>1, <1>2, <1>3 DEF Has
<1>5. Ends(a, f.topic, f.value)
    BY <1>1, <1>3 DEF Ends
<1>6. ASSUME NEW t, NEW v, f.topic # t
      PROVE  Ends(a, t, v) <=> Ends(q, t, v)
    <2>1. ASSUME Ends(a, t, v) PROVE Ends(q, t, v)
        <3>1. PICK i \in 1..Len(a) : /\ a[i].topic = t /\ a[i].value = v
                                     /\ \A j \in 1..Len(a) : i < j => a[j].topic # t
            BY <2>1 DEF Ends
        <3>2. i \in 1..Len(q)
            BY <1>1, <1>2, <1>6, <3>1
        <3>3. QED
            BY <1>1, <1>3, <3>1, <3>2 DEF Ends
    <2>2. ASSUME Ends(q, t, v) PROVE Ends(a, t, v)
        <3>1. PICK i \in 1..Len(q) : /\ q[i].topic = t /\ q[i].value = v
                                     /\ \A j \in 1..Len(q) : i < j => q[j].topic # t
            BY <2>2 DEF Ends
        <3>2. \A j \in 1..Len(a) : i < j => a[j].topic # t
            BY <1>1, <1>2, <1>6, <3>1
        <3>3. QED
            BY <1>1, <1>3, <3>1, <3>2 DEF Ends
    <2>3. QED
        BY <2>1, <2>2
<1>7. ASSUME NEW m \in Nat, Within(q, m), f.topic = "config" => f.value \in 0..m
      PROVE  Within(a, m)
    BY <1>1, <1>2, <1>7 DEF Within
<1>8. QED
    BY <1>1, <1>4, <1>5, <1>6, <1>7 DEF a

(* What is left is what followed the head.                                 *)
LEMMA TailFrames ==
    ASSUME NEW q \in Seq(Frame), q # <<>>
    PROVE  /\ Head(q) \in Frame /\ Tail(q) \in Seq(Frame) /\ Len(Tail(q)) = Len(q) - 1
           /\ \A t : Has(q, t) <=> Head(q).topic = t \/ Has(Tail(q), t)
           /\ \A t, v : Has(Tail(q), t) => (Ends(Tail(q), t, v) <=> Ends(q, t, v))
           /\ \A t, v : ~Has(Tail(q), t) /\ Ends(q, t, v)
                            => Head(q).topic = t /\ Head(q).value = v
           /\ \A m \in Nat : Within(q, m) =>
                  Within(Tail(q), m) /\ (Head(q).topic = "config" => Head(q).value \in 0..m)
<1> DEFINE r == Tail(q)
<1>1. /\ r \in Seq(Frame) /\ Head(q) \in Frame /\ Head(q) = q[1]
      /\ Len(q) \in Nat /\ Len(q) > 0 /\ Len(r) = Len(q) - 1
      /\ \A i \in 1..Len(r) : r[i] = q[i + 1]
    OBVIOUS
<1> HIDE DEF r
<1>2. \A i \in 1..Len(q) : i = 1 \/ (i - 1 \in 1..Len(r) /\ q[i] = r[i - 1])
    BY <1>1
<1>3. 1 \in 1..Len(q) /\ \A i \in 1..Len(r) : i + 1 \in 1..Len(q)
    BY <1>1
<1>4. \A t : Has(q, t) <=> Head(q).topic = t \/ Has(r, t)
    <2>1. ASSUME NEW t, Has(q, t) PROVE Head(q).topic = t \/ Has(r, t)
        BY <1>1, <1>2, <2>1 DEF Has
    <2>2. ASSUME NEW t, Head(q).topic = t PROVE Has(q, t)
        BY <1>1, <1>3, <2>2 DEF Has
    <2>3. ASSUME NEW t, Has(r, t) PROVE Has(q, t)
        BY <1>1, <1>3, <2>3 DEF Has
    <2>4. QED
        BY <2>1, <2>2, <2>3
<1>5. ASSUME NEW t, NEW v, Has(r, t)
      PROVE  Ends(r, t, v) <=> Ends(q, t, v)
    <2>1. ASSUME Ends(r, t, v) PROVE Ends(q, t, v)
        <3>1. PICK i \in 1..Len(r) : /\ r[i].topic = t /\ r[i].value = v
                                     /\ \A j \in 1..Len(r) : i < j => r[j].topic # t
            BY <2>1 DEF Ends
        <3>2. ASSUME NEW j \in 1..Len(q), i + 1 < j PROVE q[j].topic # t
            <4>1. j # 1 /\ i < j - 1
                BY <3>2
            <4>2. QED
                BY <1>2, <3>1, <4>1
        <3>3. i + 1 \in 1..Len(q) /\ q[i + 1].topic = t /\ q[i + 1].value = v
            BY <1>1, <1>3, <3>1
        <3>4. QED
            BY <3>2, <3>3 DEF Ends
    <2>2. ASSUME Ends(q, t, v) PROVE Ends(r, t, v)
        <3>1. PICK i \in 1..Len(q) : /\ q[i].topic = t /\ q[i].value = v
                                     /\ \A j \in 1..Len(q) : i < j => q[j].topic # t
            BY <2>2 DEF Ends
        <3>2. PICK k \in 1..Len(r) : r[k].topic = t
            BY <1>5 DEF Has
        <3>3. i # 1
            <4>1. k + 1 \in 1..Len(q) /\ q[k + 1].topic = t /\ 1 < k + 1
                BY <1>1, <1>3, <3>2
            <4>2. QED
                BY <3>1, <4>1
        <3>4. i - 1 \in 1..Len(r) /\ r[i - 1].topic = t /\ r[i - 1].value = v
            BY <1>2, <3>1, <3>3
        <3>5. ASSUME NEW j \in 1..Len(r), i - 1 < j PROVE r[j].topic # t
            <4>1. j + 1 \in 1..Len(q) /\ i < j + 1
                BY <1>3, <3>5
            <4>2. QED
                BY <1>1, <3>1, <4>1
        <3>6. QED
            BY <3>4, <3>5 DEF Ends
    <2>3. QED
        BY <2>1, <2>2
<1>6. ASSUME NEW t, NEW v, ~Has(r, t), Ends(q, t, v)
      PROVE  Head(q).topic = t /\ Head(q).value = v
    <2>1. PICK i \in 1..Len(q) : q[i].topic = t /\ q[i].value = v
        BY <1>6 DEF Ends
    <2>2. i = 1
        BY <1>2, <1>6, <2>1 DEF Has
    <2>3. QED
        BY <1>1, <2>1, <2>2
<1>7. ASSUME NEW m \in Nat, Within(q, m)
      PROVE  Within(r, m) /\ (Head(q).topic = "config" => Head(q).value \in 0..m)
    BY <1>1, <1>3, <1>7 DEF Within
<1>8. QED
    BY <1>1, <1>4, <1>5, <1>6, <1>7 DEF r

(* More contents are made, and what was within the bound still is.         *)
LEMMA WithinMore ==
    ASSUME NEW m \in Nat, NEW q, Within(q, m)
    PROVE  Within(q, m + 1)
<1>1. 0..m \subseteq 0..(m + 1)
    OBVIOUS
<1>2. QED
    BY <1>1 DEF Within

(* A broadcast frame joins the receiver, which may lag: what it passes     *)
(* over was the last of its kind, and is then missed, or a newer one is    *)
(* still to come.                                                          *)
LEMMA PushFrame ==
    ASSUME feed \in Seq(Frame), Len(feed) <= BROADCAST_CAPACITY, missed \subseteq Topic,
           NEW f \in Frame, Push(f)
    PROVE  /\ feed' \in Seq(Frame) /\ Len(feed') <= BROADCAST_CAPACITY
           /\ missed' \subseteq Topic
           /\ \A t \in missed' : ~Has(feed', t)
           /\ Has(feed', f.topic) /\ Ends(feed', f.topic, f.value)
           /\ \A t \in Topic : t # f.topic /\ Has(feed', t) =>
                  Has(feed, t) /\ \A v : Ends(feed, t, v) => Ends(feed', t, v)
           /\ \A t \in Topic : ~Has(feed', t) /\ t \notin missed' =>
                  ~Has(feed, t) /\ t \notin missed
           /\ \A m \in Nat : Within(feed, m) /\ (f.topic = "config" => f.value \in 0..m)
                                => Within(feed', m)
<1> DEFINE lagging == Len(feed) >= BROADCAST_CAPACITY
           after == IF lagging THEN Tail(feed) ELSE feed
           lost == {t \in Topic : lagging /\ Head(feed).topic = t}
<1> BROADCAST_CAPACITY \in Nat \ {0} /\ Len(feed) \in Nat
    BY SizesAssumption
<1>1. /\ feed' = Append(after, f)
      /\ missed' = {t \in missed \cup lost :
                        t # f.topic /\ ~\E i \in DOMAIN after : after[i].topic = t}
    BY DEF Push
<1>2. /\ after \in Seq(Frame) /\ Len(after) < BROADCAST_CAPACITY
      /\ \A m \in Nat : Within(feed, m) => Within(after, m)
      /\ \A t, v : Has(after, t) => Has(feed, t) /\ (Ends(after, t, v) <=> Ends(feed, t, v))
      /\ \A t \in Topic : ~Has(after, t) /\ t \notin lost => ~Has(feed, t)
    <2>1. CASE lagging
        <3>1. feed # <<>>
            BY <2>1
        <3>2. QED
            BY <2>1, <3>1, TailFrames
    <2>2. CASE ~lagging
        BY <2>2
    <2>3. QED
        BY <2>1, <2>2
<1> HIDE DEF after, lagging
<1>3. DOMAIN after = 1..Len(after) /\ Len(after) \in Nat
    BY <1>2
<1>4. missed' = {t \in missed \cup lost : t # f.topic /\ ~Has(after, t)}
    BY <1>1, <1>3 DEF Has
<1>5. /\ Append(after, f) \in Seq(Frame) /\ Len(Append(after, f)) = Len(after) + 1
      /\ \A t : Has(Append(after, f), t) <=> Has(after, t) \/ f.topic = t
      /\ Ends(Append(after, f), f.topic, f.value)
      /\ \A t, v : f.topic # t => (Ends(Append(after, f), t, v) <=> Ends(after, t, v))
      /\ \A m \in Nat : Within(after, m) /\ (f.topic = "config" => f.value \in 0..m)
                           => Within(Append(after, f), m)
    BY <1>2, AppendFrame
<1>6. feed' \in Seq(Frame) /\ Len(feed') <= BROADCAST_CAPACITY
    BY <1>1, <1>2, <1>3, <1>5
<1>7. missed' \subseteq Topic
    BY <1>4
<1>8. \A t : Has(feed', t) <=> Has(after, t) \/ f.topic = t
    BY <1>1, <1>5
<1>9. \A t \in missed' : ~Has(feed', t)
    BY <1>4, <1>8
<1>10. Has(feed', f.topic) /\ Ends(feed', f.topic, f.value)
    BY <1>1, <1>5, <1>8
<1>11. ASSUME NEW t \in Topic, t # f.topic, Has(feed', t)
       PROVE  Has(feed, t) /\ \A v : Ends(feed, t, v) => Ends(feed', t, v)
    BY <1>1, <1>2, <1>5, <1>8, <1>11
<1>12. ASSUME NEW t \in Topic, ~Has(feed', t), t \notin missed'
       PROVE  ~Has(feed, t) /\ t \notin missed
    <2>1. ~Has(after, t) /\ t # f.topic
        BY <1>8, <1>12
    <2>2. t \notin missed \cup lost
        BY <1>4, <1>12, <2>1
    <2>3. QED
        BY <1>2, <2>1, <2>2
<1>13. \A m \in Nat : Within(feed, m) /\ (f.topic = "config" => f.value \in 0..m)
                       => Within(feed', m)
    BY <1>1, <1>2, <1>5
<1>14. QED
    BY <1>6, <1>7, <1>9, <1>10, <1>11, <1>12, <1>13

-----------------------------------------------------------------------------
(* Types, and what is empty when                                           *)

TInv == TypeOK /\ ValuesMade /\ SocketGood

(* A move spent is one the budget had.                                     *)
LEMMA SpendType ==
    ASSUME budget \in [Moves -> Nat], NEW move \in Moves, Spend(move)
    PROVE  /\ budget' \in [Moves -> Nat] /\ budget[move] > 0
           /\ \A m \in Moves : budget'[m] <= budget[m]
<1>1. budget[move] \in Nat /\ budget[move] - 1 \in Nat
    BY DEF Spend
<1>2. budget' = [budget EXCEPT ![move] = budget[move] - 1] /\ budget[move] > 0
    BY DEF Spend
<1>3. \A m \in Moves : budget'[m] = IF m = move THEN budget[move] - 1 ELSE budget[m]
    BY <1>2
<1>4. QED
    BY <1>1, <1>2, <1>3

(* The program starts with values of the right kind.                       *)
LEMMA InitType == Init => TInv
<1> SUFFICES ASSUME Init PROVE TInv
    OBVIOUS
<1>1. PICK setup \in Setups :
          /\ budget = setup.budget
          /\ task = IF setup.start = "open" THEN Live ELSE NoTask
          /\ link = IF setup.start = "open" THEN "up" ELSE "down"
          /\ form = IF setup.start = "open" THEN 1 ELSE 0
          /\ boot = IF setup.start = "open" THEN Idle(0) ELSE [at |-> "asked", value |-> 0]
    BY DEF Init
<1>2. setup \in [start : {"boot", "open"}, budget : [Moves -> Nat]]
    BY SetupsAssumption
<1>3. /\ feed = <<>> /\ wire = <<>> /\ task.snapshot = <<>>
      /\ task \in [at : {"none", "store", "config", "sending", "live"}, snapshot : Seq(Frame)]
      /\ task.at = IF setup.start = "open" THEN "live" ELSE "none"
    BY <1>1, EmptyFrames DEF Init, Live, NoTask
<1>4. held \in [Topic -> Nat] /\ held["config"] = 1
    BY DEF Init, Topic
<1>5. TypeOK
    <2>1. /\ feed \in Seq(Frame) /\ Len(feed) <= BROADCAST_CAPACITY
          /\ wire \in Seq(Frame) /\ Len(wire) <= SocketRoom
        BY <1>3, EmptyFrames, SizesAssumption
    <2>2. boot.at \in {"none", "asked"} /\ form \in 0..1 /\ link \in {"down", "up"}
        BY <1>1 DEF Idle
    <2>3. budget \in [Moves -> Nat]
        BY <1>1, <1>2
    <2>4. /\ made \in Nat /\ held["config"] \in 1..made /\ form \in 0..made
          /\ unsent = {} /\ missed = {} /\ readout \in Nat /\ save.at = "none"
        BY <1>4, <2>2 DEF Init, Idle
    <2>5. formDirty \in BOOLEAN /\ unsaved \in BOOLEAN
        BY DEF Init
    <2>6. QED
        BY <1>3, <1>4, <2>1, <2>2, <2>3, <2>4, <2>5 DEF TypeOK
<1>6. ValuesMade
    BY <1>1, <1>3, EmptyFrames DEF ValuesMade, Init, Idle
<1>7. SocketGood
    BY <1>1, <1>3, EmptyFrames DEF SocketGood, Init
<1>8. QED
    BY <1>5, <1>6, <1>7 DEF TInv

(* A socket that ends leaves nothing behind.                               *)
LEMMA LoseSocketType ==
    ASSUME TypeOK, NEW state \in {"down", "dead"}, LoseSocket(state), made' = made
    PROVE  /\ link' \in {"down", "up", "dead"} /\ wire' \in Seq(Frame) /\ Len(wire') <= SocketRoom
           /\ feed' \in Seq(Frame) /\ Len(feed') <= BROADCAST_CAPACITY /\ missed' \subseteq Topic
           /\ task' \in [at : {"none", "store", "config", "sending", "live"}, snapshot : Seq(Frame)]
           /\ Within(feed', made') /\ Within(wire', made') /\ Within((task').snapshot, made')
           /\ SocketGood'
<1>1. /\ link' = state /\ wire' = <<>> /\ feed' = <<>> /\ missed' = {}
      /\ task' = NoTask /\ (task').at = "none" /\ (task').snapshot = <<>>
    BY DEF LoseSocket, NoTask
<1>2. QED
    BY <1>1, EmptyFrames, SizesAssumption DEF TypeOK, SocketGood, NoTask

(* Every step keeps the types.                                             *)
LEMMA TypeStep ==
    ASSUME TInv, [Next]_vars
    PROVE  TInv'
<1> USE DEF TInv
<1>0. /\ made \in Nat /\ held \in [Topic -> Nat] /\ held["config"] \in 1..made
      /\ budget \in [Moves -> Nat] /\ task.snapshot \in Seq(Frame)
      /\ Topic = {"measurement", "config"}
    BY DEF TypeOK, Topic
<1>1. ASSUME NEW topic \in Topic, Announce(topic) PROVE TInv'
    <2> DEFINE f == [topic |-> topic, value |-> held[topic]]
    <2>1. f \in Frame /\ (f.topic = "config" => f.value \in 0..made)
        BY <1>0 DEF Frame
    <2>2. CASE Subscribed
        <3>1. Push(f)
            BY <1>1, <2>2 DEF Announce, Broadcast
        <3> HIDE DEF f
        <3>2. /\ feed' \in Seq(Frame) /\ Len(feed') <= BROADCAST_CAPACITY
              /\ missed' \subseteq Topic /\ \A t \in missed' : ~Has(feed', t)
              /\ Within(feed', made)
            BY <1>0, <2>1, <3>1, PushFrame DEF TypeOK, ValuesMade
        <3>3. TypeOK'
            BY <1>1, <3>2 DEF TypeOK, Announce, pageVars
        <3>4. ValuesMade'
            BY <1>1, <3>2 DEF ValuesMade, Announce
        <3>5. SocketGood'
            BY <1>1, <2>2, <3>2 DEF SocketGood, Announce, Subscribed
        <3>6. QED
            BY <3>3, <3>4, <3>5
    <2>3. CASE ~Subscribed
        <3>1. UNCHANGED <<feed, missed>>
            BY <1>1, <2>3 DEF Announce, Broadcast
        <3>2. QED
            BY <1>1, <3>1 DEF TypeOK, ValuesMade, SocketGood, Announce, pageVars
    <2>4. QED
        BY <2>2, <2>3
<1>2. CASE ApplyPut
    <2>1. save.value \in 1..made
        BY <1>2, <1>0 DEF ApplyPut, ValuesMade
    <2>2. /\ held' \in [Topic -> Nat] /\ (held')["config"] = save.value
          /\ unsent' \subseteq Topic
        BY <1>0, <1>2, <2>1 DEF ApplyPut, Swapped, TypeOK
    <2>3. save' \in [at : {"none", "sent", "applied", "ok"}, value : 0..made]
          /\ (save').value = save.value
        BY <1>2 DEF ApplyPut, ValuesMade
    <2>4. QED
        BY <1>2, <2>1, <2>2, <2>3
        DEF ApplyPut, TypeOK, ValuesMade, SocketGood, socketVars, pageVars
<1>3. CASE AnswerPut
    <2>1. save' \in [at : {"none", "sent", "applied", "ok"}, value : 0..made]
          /\ (save').value = save.value /\ save.at # "none"
        BY <1>3 DEF AnswerPut, ValuesMade
    <2>2. QED
        BY <1>3, <2>1 DEF AnswerPut, TypeOK, ValuesMade, SocketGood, daemonVars, socketVars, pageVars
<1>4. CASE AnswerGet
    BY <1>0, <1>4
    DEF AnswerGet, TypeOK, ValuesMade, SocketGood, daemonVars, socketVars, pageVars
<1>5. CASE ReadStore
    <2> DEFINE s == IF held["measurement"] = 0 THEN <<>>
                    ELSE <<[topic |-> "measurement", value |-> held["measurement"]]>>
    <2>1. s \in Seq(Frame) /\ Within(s, made)
        <3>1. [topic |-> "measurement", value |-> held["measurement"]] \in Frame
            BY <1>0 DEF Frame
        <3>2. CASE held["measurement"] = 0
            BY <1>0, <3>2, EmptyFrames
        <3>3. CASE held["measurement"] # 0
            BY <3>1, <3>3 DEF Within
        <3>4. QED
            BY <3>2, <3>3
    <2>2. task' = [at |-> "config", snapshot |-> s] /\ task.at = "store"
        BY <1>5 DEF ReadStore
    <2> HIDE DEF s
    <2>3. /\ task' \in [at : {"none", "store", "config", "sending", "live"}, snapshot : Seq(Frame)]
          /\ (task').at = "config" /\ (task').snapshot = s
        BY <2>1, <2>2
    <2>4. TypeOK'
        BY <1>5, <2>3 DEF ReadStore, TypeOK, daemonVars, pageVars
    <2>5. ValuesMade'
        BY <1>5, <2>1, <2>3 DEF ReadStore, ValuesMade, daemonVars
    <2>6. SocketGood'
        BY <1>5, <2>2, <2>3 DEF ReadStore, SocketGood
    <2>7. QED
        BY <2>4, <2>5, <2>6
<1>6. CASE ReadConfig
    <2> DEFINE f == [topic |-> "config", value |-> held["config"]]
               s == Append(task.snapshot, f)
    <2>1. f \in Frame /\ f.value \in 0..made
        BY <1>0 DEF Frame
    <2>2. task' = [at |-> "sending", snapshot |-> s] /\ task.at = "config"
        BY <1>6 DEF ReadConfig
    <2> HIDE DEF f
    <2>3. s \in Seq(Frame) /\ Within(s, made)
        BY <1>0, <2>1, AppendFrame DEF ValuesMade
    <2> HIDE DEF s
    <2>4. /\ task' \in [at : {"none", "store", "config", "sending", "live"}, snapshot : Seq(Frame)]
          /\ (task').at = "sending" /\ (task').snapshot = s
        BY <2>2, <2>3
    <2>5. TypeOK'
        BY <1>6, <2>4 DEF ReadConfig, TypeOK, daemonVars, pageVars
    <2>6. ValuesMade'
        BY <1>6, <2>3, <2>4 DEF ReadConfig, ValuesMade, daemonVars
    <2>7. SocketGood'
        BY <1>6, <2>2, <2>4 DEF ReadConfig, SocketGood
    <2>8. QED
        BY <2>5, <2>6, <2>7
<1>7. CASE SendSnapshot
    <2>1. CASE task.snapshot = <<>>
        BY <1>7, <2>1, EmptyFrames
        DEF SendSnapshot, TypeOK, ValuesMade, SocketGood, Live, daemonVars, pageVars
    <2>2. CASE task.snapshot # <<>>
        <3> DEFINE f == Head(task.snapshot)
                   s == Tail(task.snapshot)
                   w == Append(wire, f)
        <3>1. f \in Frame /\ s \in Seq(Frame) /\ Within(s, made)
              /\ (f.topic = "config" => f.value \in 0..made)
            BY <1>0, <2>2, TailFrames DEF ValuesMade
        <3>2. /\ task' = [task EXCEPT !.snapshot = s] /\ task.at = "sending"
              /\ wire' = w /\ Len(wire) < SocketRoom
            BY <1>7, <2>2 DEF SendSnapshot, Room
        <3> HIDE DEF f, s
        <3>3. w \in Seq(Frame) /\ Len(w) = Len(wire) + 1 /\ Within(w, made)
            BY <1>0, <3>1, AppendFrame DEF ValuesMade, TypeOK
        <3> HIDE DEF w
        <3>4. Len(w) <= SocketRoom
            BY <3>2, <3>3, SizesAssumption DEF TypeOK
        <3>5. /\ task' \in [at : {"none", "store", "config", "sending", "live"}, snapshot : Seq(Frame)]
              /\ (task').at = "sending" /\ (task').snapshot = s
            BY <3>1, <3>2 DEF TypeOK
        <3>6. QED
            BY <1>7, <3>1, <3>2, <3>3, <3>4, <3>5
            DEF SendSnapshot, TypeOK, ValuesMade, SocketGood, daemonVars, pageVars
    <2>3. QED
        BY <2>1, <2>2
<1>8. CASE Forward
    <2> DEFINE f == Head(feed)
               r == Tail(feed)
               w == Append(wire, f)
    <2>1. f \in Frame /\ r \in Seq(Frame) /\ Within(r, made) /\ Len(r) = Len(feed) - 1
          /\ (f.topic = "config" => f.value \in 0..made)
          /\ \A t : Has(r, t) => Has(feed, t)
        BY <1>0, <1>8, TailFrames DEF ValuesMade, TypeOK, Forward
    <2>2. feed' = r /\ task = Live /\ wire' = w /\ Len(wire) < SocketRoom
        BY <1>8 DEF Forward, Room
    <2> HIDE DEF f, r
    <2>3. w \in Seq(Frame) /\ Len(w) = Len(wire) + 1 /\ Within(w, made)
        BY <1>0, <2>1, AppendFrame DEF ValuesMade, TypeOK
    <2> HIDE DEF w
    <2>4. Len(w) <= SocketRoom /\ Len(r) <= BROADCAST_CAPACITY
        BY <2>1, <2>2, <2>3, SizesAssumption DEF TypeOK
    <2>5. task.at = "live"
        BY <2>2 DEF Live
    <2>6. TypeOK'
        BY <1>8, <2>1, <2>2, <2>3, <2>4 DEF Forward, TypeOK, daemonVars, pageVars
    <2>7. ValuesMade'
        BY <1>8, <2>1, <2>2, <2>3 DEF Forward, ValuesMade, daemonVars
    <2>8. SocketGood'
        BY <1>8, <2>1, <2>2, <2>5 DEF Forward, SocketGood
    <2>9. QED
        BY <2>6, <2>7, <2>8
<1>9. CASE Connect
    <2>1. /\ link' = "up" /\ wire' = <<>> /\ feed' = <<>> /\ missed' = {}
          /\ task' = [at |-> "store", snapshot |-> <<>>]
        BY <1>9 DEF Connect
    <2>2. QED
        BY <1>0, <1>9, <2>1, EmptyFrames, SizesAssumption
        DEF Connect, TypeOK, ValuesMade, SocketGood, daemonVars, pageVars
<1>10. CASE Deliver
    <2> DEFINE f == Head(wire)
               r == Tail(wire)
    <2>1. f \in Frame /\ r \in Seq(Frame) /\ Within(r, made) /\ Len(r) = Len(wire) - 1
          /\ (f.topic = "config" => f.value \in 0..made)
        BY <1>0, <1>10, TailFrames DEF ValuesMade, TypeOK, Deliver
    <2>2. /\ wire' = r /\ link = "up" /\ wire # <<>>
          /\ \/ f.topic = "measurement" /\ readout' = f.value /\ UNCHANGED <<form, formDirty, unsaved>>
             \/ f.topic = "config" /\ RenderIfClean(f.value) /\ UNCHANGED readout
             \/ f.topic = "row" /\ UNCHANGED pageVars
        BY <1>10, <2>1 DEF Deliver, Frame, Topic
    <2> HIDE DEF f, r
    <2>3. readout' \in Nat /\ form' \in 0..made /\ formDirty' \in BOOLEAN /\ unsaved' \in BOOLEAN
        BY <2>1, <2>2 DEF TypeOK, Frame, RenderIfClean, Render, pageVars
    <2>4. Len(r) <= SocketRoom /\ task.at \notin {"none", "store", "config"}
        BY <2>1, <2>2, SizesAssumption DEF TypeOK, SocketGood
    <2>5. QED
        BY <1>10, <2>1, <2>2, <2>3, <2>4
        DEF Deliver, TypeOK, ValuesMade, SocketGood, daemonVars
<1>11. CASE Booted
    <2>1. boot.value \in 0..made
        BY DEF ValuesMade
    <2>2. form' \in 0..made /\ formDirty' \in BOOLEAN /\ unsaved' \in BOOLEAN
        BY <1>11, <2>1 DEF Booted, TypeOK, RenderIfClean, Render
    <2>3. boot' \in [at : {"none", "asked", "answered"}, value : 0..made]
        BY <1>0, <1>11 DEF Booted, Idle
    <2>4. QED
        BY <1>11, <2>2, <2>3
        DEF Booted, TypeOK, ValuesMade, SocketGood, daemonVars, socketVars
<1>12. CASE Saved
    <2>1. save' = [at |-> "none", value |-> 0]
        BY <1>12 DEF Saved, Idle
    <2>2. QED
        <3>1. save' \in [at : {"none", "sent", "applied", "ok"}, value : 0..made]
              /\ (save').at = "none"
            BY <1>0, <2>1
        <3>2. (formDirty') \in BOOLEAN /\ (unsaved') \in BOOLEAN
            BY <1>12 DEF Saved
        <3>3. QED
            BY <1>12, <3>1, <3>2 DEF Saved, TypeOK, ValuesMade, SocketGood, daemonVars, socketVars
<1>13. CASE Silence
    <2>1. LoseSocket("down") /\ UNCHANGED <<daemonVars, pageVars, boot, save, budget>>
        BY <1>13 DEF Silence
    <2>2. QED
        BY <2>1, LoseSocketType DEF TypeOK, ValuesMade, daemonVars, pageVars
<1>14. CASE Measure
    <2>1. budget' \in [Moves -> Nat]
        BY <1>0, <1>14, SpendType DEF Measure, Moves
    <2>2. /\ held' \in [Topic -> Nat] /\ (held')["config"] = held["config"]
          /\ unsent' \subseteq Topic
        BY <1>0, <1>14 DEF Measure, TypeOK
    <2>3. QED
        BY <1>14, <2>1, <2>2 DEF Measure, TypeOK, ValuesMade, SocketGood, socketVars, pageVars
<1>15. CASE OtherEdit
    <2>1. budget' \in [Moves -> Nat]
        BY <1>0, <1>15, SpendType DEF OtherEdit, Moves
    <2>2. /\ made' = made + 1 /\ made' \in Nat
          /\ held' \in [Topic -> Nat] /\ (held')["config"] = made'
          /\ unsent' \subseteq Topic
        BY <1>0, <1>15 DEF OtherEdit, Swapped, TypeOK
    <2>3. Within(feed, made') /\ Within(wire, made') /\ Within(task.snapshot, made')
        BY <1>0, <2>2, WithinMore DEF ValuesMade
    <2>4. 0..made \subseteq 0..made' /\ 1..made \subseteq 1..made' /\ made' \in 1..made'
        BY <1>0, <2>2
    <2>5. /\ boot \in [at : {"none", "asked", "answered"}, value : 0..made']
          /\ save \in [at : {"none", "sent", "applied", "ok"}, value : 0..made']
        BY <2>4 DEF ValuesMade
    <2>6. QED
        BY <1>15, <2>1, <2>2, <2>3, <2>4, <2>5
        DEF OtherEdit, TypeOK, ValuesMade, SocketGood, socketVars, pageVars
<1>16. CASE Row
    <2> DEFINE f == [topic |-> "row", value |-> 0]
    <2>1. f \in Frame /\ (f.topic = "config" => f.value \in 0..made)
        BY DEF Frame
    <2>2. Push(f) /\ Subscribed
        BY <1>16 DEF Row, Broadcast
    <2>3. budget' \in [Moves -> Nat]
        BY <1>0, <1>16, SpendType DEF Row, Moves
    <2> HIDE DEF f
    <2>4. /\ feed' \in Seq(Frame) /\ Len(feed') <= BROADCAST_CAPACITY
          /\ missed' \subseteq Topic /\ \A t \in missed' : ~Has(feed', t)
          /\ Within(feed', made)
        BY <1>0, <2>1, <2>2, PushFrame DEF TypeOK, ValuesMade
    <2>5. QED
        BY <1>16, <2>2, <2>3, <2>4
        DEF Row, Subscribed, TypeOK, ValuesMade, SocketGood, daemonVars, pageVars
<1>17. CASE RefusePut
    <2>1. budget' \in [Moves -> Nat]
        BY <1>0, <1>17, SpendType DEF RefusePut, Moves
    <2>2. QED
        BY <1>17, <2>1
        DEF RefusePut, Idle, TypeOK, ValuesMade, SocketGood, daemonVars, socketVars, pageVars
<1>18. CASE Type
    <2>1. budget' \in [Moves -> Nat]
        <3>1. (IF save.at = "none" THEN "type" ELSE "more") \in Moves
            BY DEF Moves
        <3>2. QED
            BY <1>0, <1>18, <3>1, SpendType DEF Type
    <2>2. made' = made + 1 /\ made' \in Nat
        BY <1>0, <1>18 DEF Type
    <2>3. Within(feed, made') /\ Within(wire, made') /\ Within(task.snapshot, made')
        BY <1>0, <2>2, WithinMore DEF ValuesMade
    <2>4. 0..made \subseteq 0..made' /\ 1..made \subseteq 1..made' /\ made' \in 0..made'
        BY <1>0, <2>2
    <2>5. /\ boot \in [at : {"none", "asked", "answered"}, value : 0..made']
          /\ save \in [at : {"none", "sent", "applied", "ok"}, value : 0..made']
        BY <2>4 DEF ValuesMade
    <2>6. QED
        BY <1>18, <2>1, <2>2, <2>3, <2>4, <2>5
        DEF Type, TypeOK, ValuesMade, SocketGood, socketVars
<1>19. CASE Save
    <2>1. budget' \in [Moves -> Nat]
        BY <1>0, <1>19, SpendType DEF Save, Moves
    <2>2. QED
        BY <1>19, <2>1
        DEF Save, TypeOK, ValuesMade, SocketGood, daemonVars, socketVars, pageVars
<1>20. CASE Drop
    <2>1. budget' \in [Moves -> Nat]
        BY <1>0, <1>20, SpendType DEF Drop, Moves
    <2>2. PICK state \in {"down", "dead"} : LoseSocket(state)
        BY <1>20 DEF Drop
    <2>3. UNCHANGED <<daemonVars, pageVars, boot, save>>
        BY <1>20 DEF Drop
    <2>4. QED
        BY <2>1, <2>2, <2>3, LoseSocketType DEF TypeOK, ValuesMade, daemonVars, pageVars
<1>21. CASE Restart
    <2>1. budget' \in [Moves -> Nat]
        BY <1>0, <1>21, SpendType DEF Restart, Moves
    <2>2. /\ held' \in [Topic -> Nat] /\ (held')["config"] = held["config"]
          /\ unsent' = {} /\ made' = made /\ UNCHANGED pageVars /\ LoseSocket("down")
        BY <1>0, <1>21 DEF Restart
    <2>3. /\ boot' \in [at : {"none", "asked", "answered"}, value : 0..made']
          /\ save' \in [at : {"none", "sent", "applied", "ok"}, value : 0..made']
          /\ (save').at # "none" => (save').value # 0
        BY <1>0, <1>21, <2>2 DEF Restart, ValuesMade, Idle
    <2>4. QED
        BY <2>1, <2>2, <2>3, LoseSocketType DEF TypeOK, ValuesMade, pageVars
<1>22. CASE UNCHANGED vars
    BY <1>22
    DEF vars, daemonVars, socketVars, pageVars, TypeOK, ValuesMade, SocketGood
<1>23. QED
    BY <1>1, <1>2, <1>3, <1>4, <1>5, <1>6, <1>7, <1>8, <1>9, <1>10, <1>11, <1>12, <1>13,
       <1>14, <1>15, <1>16, <1>17, <1>18, <1>19, <1>20, <1>21, <1>22
    DEF Next, Daemon, Socket, Page

(* The page, its socket and the daemon hold values of their kind, and the  *)
(* receiver and the socket never more than they have room for.             *)
THEOREM TypeCorrect == Spec => []TypeOK
<1>1. TInv /\ [Next]_vars => TInv'
    BY TypeStep
<1>2. TInv => TypeOK
    BY DEF TInv
<1>3. QED
    BY InitType, <1>1, <1>2, PTL DEF Spec

-----------------------------------------------------------------------------
(* Nothing is lost in the gap                                              *)

(* What the page renders when it has booted or saved is what is held.      *)
Settled ==
    /\ boot.at = "answered" => boot.value = held["config"]
    /\ save.at = "ok" /\ formDirty => form = held["config"]

(* A step that leaves the socket and the value alone.                      *)
LEMMA FlowKept ==
    ASSUME NEW t, Flows(t), UNCHANGED socketVars, (held')[t] = held[t],
           t \notin unsent' => t \notin unsent, Shown(t) => Shown(t)'
    PROVE  Flows(t)'
BY DEF Flows, OnItsWay, HasRead, socketVars

(* The frame of another topic joins the receiver.                          *)
LEMMA FlowBeside ==
    ASSUME TInv, NEW t \in Topic, Flows(t), NEW f \in Frame, f.topic # t, Push(f),
           UNCHANGED <<held, task, wire, pageVars>>, t \notin unsent' => t \notin unsent
    PROVE  Flows(t)'
<1>1. /\ Has(feed', t) => Has(feed, t) /\ \A v : Ends(feed, t, v) => Ends(feed', t, v)
      /\ ~Has(feed', t) /\ t \notin missed' => ~Has(feed, t) /\ t \notin missed
    BY PushFrame DEF TInv, TypeOK
<1>2. Shown(t)' = Shown(t)
    BY DEF Shown, ShowsMeasurement, ShowsConfig, pageVars
<1>3. SUFFICES ASSUME t \notin unsent'
               PROVE  IF Has(feed', t) THEN Ends(feed', t, (held')[t])
                      ELSE t \notin missed' /\ HasRead(t)' => OnItsWay(t)'
    BY DEF Flows
<1>4. CASE Has(feed', t)
    BY <1>1, <1>3, <1>4 DEF Flows
<1>5. CASE ~Has(feed', t)
    BY <1>1, <1>2, <1>3, <1>5 DEF Flows, HasRead, OnItsWay
<1>6. QED
    BY <1>4, <1>5

(* The newest value of a topic stays the last of its kind on the way to    *)
(* the page, whatever is held, broadcast, read, sent or delivered.         *)
LEMMA FlowStep ==
    ASSUME TInv, NEW t \in Topic, Flows(t), [Next]_vars, t = "config" => Settled
    PROVE  Flows(t)'
<1>0. /\ made \in Nat /\ held \in [Topic -> Nat]
      /\ task.snapshot \in Seq(Frame) /\ wire \in Seq(Frame) /\ feed \in Seq(Frame)
      /\ t \in {"measurement", "config"} /\ Topic = {"measurement", "config"}
    BY DEF TInv, TypeOK, Topic
<1>1. ASSUME NEW topic \in Topic, Announce(topic) PROVE Flows(t)'
    <2> DEFINE f == [topic |-> topic, value |-> held[topic]]
    <2>1. f \in Frame /\ f.topic = topic /\ f.value = held[topic]
        BY <1>0 DEF Frame
    <2>2. UNCHANGED <<held, task, wire, pageVars>> /\ unsent' = unsent \ {topic}
        BY <1>1 DEF Announce
    <2>3. CASE Subscribed
        <3>1. Push(f)
            BY <1>1, <2>3 DEF Announce, Broadcast
        <3> HIDE DEF f
        <3>2. CASE topic = t
            <4>1. Has(feed', t) /\ Ends(feed', t, held[t])
                BY <2>1, <3>1, <3>2, PushFrame DEF TInv, TypeOK
            <4>2. QED
                BY <2>2, <4>1 DEF Flows
        <3>3. CASE topic # t
            BY <2>1, <2>2, <3>1, <3>3, FlowBeside
        <3>4. QED
            BY <3>2, <3>3
    <2>4. CASE ~Subscribed
        <3>1. UNCHANGED feed /\ task.at = "none" /\ feed = <<>>
            BY <1>1, <2>4 DEF Announce, Broadcast, Subscribed, TInv, SocketGood
        <3>2. QED
            BY <2>2, <3>1, EmptyFrames DEF Flows, HasRead
    <2>5. QED
        BY <2>3, <2>4
<1>2. CASE ApplyPut
    <2>1. CASE t = "config"
        BY <1>2, <2>1 DEF ApplyPut, Swapped, Flows
    <2>2. CASE t = "measurement"
        BY <1>0, <1>2, <2>2, FlowKept DEF ApplyPut, Swapped, Shown, ShowsMeasurement, pageVars
    <2>3. QED
        BY <1>0, <2>1, <2>2
<1>3. CASE AnswerPut
    BY <1>3, FlowKept DEF AnswerPut, daemonVars, pageVars, Shown, ShowsMeasurement, ShowsConfig
<1>4. CASE AnswerGet
    BY <1>4, FlowKept DEF AnswerGet, daemonVars, pageVars, Shown, ShowsMeasurement, ShowsConfig
<1>5. CASE ReadStore
    <2>1. /\ UNCHANGED <<held, unsent, feed, missed, wire, readout>> /\ wire = <<>>
          /\ (task').at = "config"
          /\ (task').snapshot =
                 IF held["measurement"] = 0 THEN <<>>
                 ELSE <<[topic |-> "measurement", value |-> held["measurement"]]>>
        BY <1>5 DEF ReadStore, daemonVars, pageVars, TInv, SocketGood
    <2>2. CASE t = "config"
        BY <2>1, <2>2 DEF Flows, HasRead
    <2>3. CASE t = "measurement"
        <3>1. OnItsWay(t)'
            <4>1. CASE held[t] = 0
                BY <2>1, <2>3, <4>1, EmptyFrames DEF OnItsWay, Shown, ShowsMeasurement
            <4>2. CASE held[t] # 0
                <5> DEFINE s == <<[topic |-> "measurement", value |-> held[t]]>>
                <5>1. Has(s, t) /\ Ends(s, t, held[t])
                    BY <2>3 DEF Has, Ends
                <5>2. (task').snapshot = s
                    BY <2>1, <2>3, <4>2
                <5> HIDE DEF s
                <5>3. QED
                    BY <2>1, <5>1, <5>2 DEF OnItsWay
            <4>3. QED
                BY <4>1, <4>2
        <3>2. QED
            BY <2>1, <3>1 DEF Flows
    <2>4. QED
        BY <1>0, <2>2, <2>3
<1>6. CASE ReadConfig
    <2> DEFINE f == [topic |-> "config", value |-> held["config"]]
    <2>1. f \in Frame /\ f.topic = "config" /\ f.value = held["config"]
        BY <1>0 DEF Frame
    <2>2. /\ UNCHANGED <<held, unsent, feed, missed, wire, pageVars>> /\ task.at = "config"
          /\ (task').at = "sending" /\ (task').snapshot = Append(task.snapshot, f)
        BY <1>6 DEF ReadConfig, daemonVars
    <2> HIDE DEF f
    <2>3. /\ \A u : Has((task').snapshot, u) <=> Has(task.snapshot, u) \/ u = "config"
          /\ Ends((task').snapshot, "config", held["config"])
          /\ \A u, v : u # "config" =>
                (Ends((task').snapshot, u, v) <=> Ends(task.snapshot, u, v))
        BY <1>0, <2>1, <2>2, AppendFrame
    <2>4. CASE t = "config"
        BY <2>2, <2>3, <2>4 DEF Flows, OnItsWay
    <2>5. CASE t = "measurement"
        BY <2>2, <2>3, <2>5 DEF Flows, OnItsWay, HasRead, Shown, ShowsMeasurement, pageVars
    <2>6. QED
        BY <1>0, <2>4, <2>5
<1>7. CASE SendSnapshot
    <2>1. /\ UNCHANGED <<held, unsent, feed, missed, pageVars>> /\ task.at = "sending"
          /\ Shown(t)' = Shown(t)
        BY <1>7 DEF SendSnapshot, daemonVars, Shown, ShowsMeasurement, ShowsConfig, pageVars
    <2>2. CASE task.snapshot = <<>>
        <3>1. UNCHANGED wire /\ (task').at = "live" /\ (task').snapshot = task.snapshot
            BY <1>7, <2>2 DEF SendSnapshot, Live
        <3>2. QED
            BY <2>1, <3>1 DEF Flows, OnItsWay, HasRead
    <2>3. CASE task.snapshot # <<>>
        <3> DEFINE f == Head(task.snapshot)
                   s == Tail(task.snapshot)
        <3>1. /\ f \in Frame
              /\ \A u : Has(task.snapshot, u) <=> f.topic = u \/ Has(s, u)
              /\ \A u, v : Has(s, u) => (Ends(s, u, v) <=> Ends(task.snapshot, u, v))
              /\ \A u, v : ~Has(s, u) /\ Ends(task.snapshot, u, v) => f.topic = u /\ f.value = v
            BY <1>0, <2>3, TailFrames
        <3>2. /\ task' = [task EXCEPT !.snapshot = s] /\ wire' = Append(wire, f)
            BY <1>7, <2>3 DEF SendSnapshot
        <3>3. (task').at = "sending" /\ (task').snapshot = s
            BY <2>1, <3>2 DEF TInv, TypeOK
        <3> HIDE DEF f, s
        <3>4. /\ \A u : Has(wire', u) <=> Has(wire, u) \/ f.topic = u
              /\ Ends(wire', f.topic, f.value)
              /\ \A u, v : f.topic # u => (Ends(wire', u, v) <=> Ends(wire, u, v))
            BY <1>0, <3>1, <3>2, AppendFrame
        <3>5. OnItsWay(t) => OnItsWay(t)'
            <4>1. CASE Has(s, t)
                BY <2>1, <3>1, <3>3, <4>1 DEF OnItsWay
            <4>2. CASE ~Has(s, t) /\ f.topic = t
                BY <2>1, <3>1, <3>3, <3>4, <4>2 DEF OnItsWay
            <4>3. CASE ~Has(s, t) /\ f.topic # t
                BY <2>1, <3>1, <3>3, <3>4, <4>3 DEF OnItsWay
            <4>4. QED
                BY <4>1, <4>2, <4>3
        <3>6. QED
            BY <2>1, <3>3, <3>5 DEF Flows, HasRead
    <2>4. QED
        BY <2>2, <2>3
<1>8. CASE Forward
    <2> DEFINE f == Head(feed)
               r == Tail(feed)
    <2>1. /\ f \in Frame
          /\ \A u : Has(feed, u) <=> f.topic = u \/ Has(r, u)
          /\ \A u, v : Has(r, u) => (Ends(r, u, v) <=> Ends(feed, u, v))
          /\ \A u, v : ~Has(r, u) /\ Ends(feed, u, v) => f.topic = u /\ f.value = v
        BY <1>0, <1>8, TailFrames DEF Forward
    <2>2. /\ UNCHANGED <<held, unsent, task, missed, pageVars>> /\ task = Live
          /\ feed' = r /\ wire' = Append(wire, f) /\ Shown(t)' = Shown(t)
        BY <1>8 DEF Forward, daemonVars, Shown, ShowsMeasurement, ShowsConfig, pageVars
    <2> HIDE DEF f, r
    <2>3. task.at = "live" /\ ~Has(task.snapshot, t)
        BY <2>2, EmptyFrames DEF Live
    <2>4. /\ \A u : Has(wire', u) <=> Has(wire, u) \/ f.topic = u
          /\ Ends(wire', f.topic, f.value)
          /\ \A u, v : f.topic # u => (Ends(wire', u, v) <=> Ends(wire, u, v))
        BY <1>0, <2>1, <2>2, AppendFrame
    <2>5. CASE Has(r, t)
        BY <2>1, <2>2, <2>5 DEF Flows
    <2>6. CASE ~Has(r, t) /\ f.topic = t
        <3>1. t \notin unsent => f.value = held[t]
            BY <2>1, <2>6 DEF Flows
        <3>2. QED
            BY <2>2, <2>3, <2>4, <2>6, <3>1 DEF Flows, OnItsWay
    <2>7. CASE ~Has(r, t) /\ f.topic # t
        BY <2>1, <2>2, <2>3, <2>4, <2>7 DEF Flows, OnItsWay, HasRead
    <2>8. QED
        BY <2>5, <2>6, <2>7
<1>9. CASE Connect
    BY <1>9, EmptyFrames DEF Connect, daemonVars, Flows, HasRead
<1>10. CASE Deliver
    <2> DEFINE f == Head(wire)
               r == Tail(wire)
    <2>1. /\ f \in Frame
          /\ \A u : Has(wire, u) <=> f.topic = u \/ Has(r, u)
          /\ \A u, v : Has(r, u) => (Ends(r, u, v) <=> Ends(wire, u, v))
          /\ \A u, v : ~Has(r, u) /\ Ends(wire, u, v) => f.topic = u /\ f.value = v
        BY <1>0, <1>10, TailFrames DEF Deliver
    <2>2. /\ UNCHANGED <<held, unsent, task, feed, missed>> /\ wire' = r
          /\ \/ f.topic = "measurement" /\ readout' = f.value /\ UNCHANGED <<form, formDirty, unsaved>>
             \/ f.topic = "config" /\ RenderIfClean(f.value) /\ UNCHANGED readout
             \/ f.topic = "row" /\ UNCHANGED pageVars
        BY <1>10, <2>1 DEF Deliver, Frame, Topic, daemonVars
    <2> HIDE DEF f, r
    <2>3. f.topic # t => Shown(t)' = Shown(t)
        BY <1>0, <2>2 DEF Shown, ShowsMeasurement, ShowsConfig, pageVars
    <2>4. f.topic = t /\ f.value = held[t] => Shown(t)'
        BY <1>0, <2>2 DEF Shown, ShowsMeasurement, ShowsConfig, RenderIfClean, Render
    <2>5. OnItsWay(t) => OnItsWay(t)'
        <3>1. CASE Has(task.snapshot, t)
            BY <2>2, <3>1 DEF OnItsWay
        <3>2. CASE ~Has(task.snapshot, t) /\ Has(r, t)
            BY <2>1, <2>2, <3>2 DEF OnItsWay
        <3>3. CASE ~Has(task.snapshot, t) /\ ~Has(r, t) /\ f.topic = t
            BY <2>1, <2>2, <2>4, <3>3 DEF OnItsWay
        <3>4. CASE ~Has(task.snapshot, t) /\ ~Has(r, t) /\ f.topic # t
            BY <2>1, <2>2, <2>3, <3>4 DEF OnItsWay
        <3>5. QED
            BY <3>1, <3>2, <3>3, <3>4
    <2>6. QED
        BY <2>2, <2>5 DEF Flows, HasRead
<1>11. CASE Booted
    <2>1. Shown(t) => Shown(t)'
        BY <1>0, <1>11
        DEF Settled, Booted, daemonVars, Shown, ShowsMeasurement, ShowsConfig, RenderIfClean, Render
    <2>2. QED
        BY <1>11, <2>1, FlowKept DEF Booted, daemonVars
<1>12. CASE Saved
    <2>1. Shown(t) => Shown(t)'
        BY <1>0, <1>12 DEF Settled, Saved, daemonVars, Shown, ShowsMeasurement, ShowsConfig
    <2>2. QED
        BY <1>12, <2>1, FlowKept DEF Saved, daemonVars
<1>13. ASSUME (task').at = "none", feed' = <<>> PROVE Flows(t)'
    BY <1>13, EmptyFrames DEF Flows, HasRead
<1>14. CASE Silence
    BY <1>13, <1>14 DEF Silence, LoseSocket, NoTask
<1>15. CASE Measure
    <2>1. CASE t = "measurement"
        BY <1>15, <2>1 DEF Measure, Flows
    <2>2. CASE t = "config"
        BY <1>0, <1>15, <2>2, FlowKept DEF Measure, Shown, ShowsConfig, pageVars
    <2>3. QED
        BY <1>0, <2>1, <2>2
<1>16. CASE OtherEdit
    <2>1. CASE t = "config"
        BY <1>16, <2>1 DEF OtherEdit, Swapped, Flows
    <2>2. CASE t = "measurement"
        BY <1>0, <1>16, <2>2, FlowKept DEF OtherEdit, Swapped, Shown, ShowsMeasurement, pageVars
    <2>3. QED
        BY <1>0, <2>1, <2>2
<1>17. CASE Row
    <2> DEFINE f == [topic |-> "row", value |-> 0]
    <2>1. f \in Frame /\ f.topic # t
        BY <1>0 DEF Frame
    <2>2. Push(f) /\ UNCHANGED <<held, unsent, task, wire, pageVars>>
        BY <1>17 DEF Row, Broadcast, daemonVars
    <2> HIDE DEF f
    <2>3. QED
        BY <2>1, <2>2, FlowBeside
<1>18. CASE RefusePut
    BY <1>18, FlowKept DEF RefusePut, daemonVars, pageVars, Shown, ShowsMeasurement, ShowsConfig
<1>19. CASE Type
    BY <1>19, FlowKept DEF Type, Shown, ShowsMeasurement, ShowsConfig
<1>20. CASE Save
    BY <1>20, FlowKept DEF Save, daemonVars, pageVars, Shown, ShowsMeasurement, ShowsConfig
<1>21. CASE Drop
    BY <1>13, <1>21 DEF Drop, LoseSocket, NoTask
<1>22. CASE Restart
    BY <1>13, <1>22 DEF Restart, LoseSocket, NoTask
<1>23. CASE UNCHANGED vars
    BY <1>23, FlowKept DEF vars, daemonVars, pageVars, Shown, ShowsMeasurement, ShowsConfig
<1>24. QED
    BY <1>1, <1>2, <1>3, <1>4, <1>5, <1>6, <1>7, <1>8, <1>9, <1>10, <1>11, <1>12, <1>14,
       <1>15, <1>16, <1>17, <1>18, <1>19, <1>20, <1>21, <1>22, <1>23
    DEF Next, Daemon, Socket, Page

(* At the start an open page shows what the daemon holds, and a booting    *)
(* one has no socket.                                                      *)
LEMMA InitFlow == Init => \A t \in Topic : Flows(t)
<1> SUFFICES ASSUME Init, NEW t \in Topic PROVE Flows(t)
    OBVIOUS
<1>1. PICK setup \in Setups :
          /\ task = IF setup.start = "open" THEN Live ELSE NoTask
          /\ form = IF setup.start = "open" THEN 1 ELSE 0
    BY DEF Init
<1>2. /\ ~Has(feed, t) /\ ~Has(wire, t) /\ ~Has(task.snapshot, t)
    BY <1>1, EmptyFrames DEF Init, Live, NoTask
<1>3. CASE setup.start = "open"
    <2>1. Shown(t)
        BY <1>1, <1>3 DEF Init, Shown, ShowsMeasurement, ShowsConfig, Topic
    <2>2. QED
        BY <1>2, <2>1 DEF Flows, OnItsWay
<1>4. CASE setup.start # "open"
    BY <1>1, <1>2, <1>4 DEF Flows, HasRead, NoTask
<1>5. QED
    BY <1>3, <1>4

(* With nothing on its way, what flows has arrived.                        *)
LEMMA DrainedShows ==
    ASSUME NEW t \in Topic, Flows(t), Drained
    PROVE  t \in missed \/ Shown(t)
<1>1. ~Has(feed, t) /\ ~Has(wire, t) /\ ~Has(task.snapshot, t) /\ task.at = "live"
    BY EmptyFrames DEF Drained, Live
<1>2. QED
    BY <1>1 DEF Flows, OnItsWay, HasRead, Drained

MeasurementShown == Drained => "measurement" \in missed \/ ShowsMeasurement

(* However measurements, snapshots, lost sockets and restarts interleave,  *)
(* once nothing is on its way an open page shows the daemon's last         *)
(* measurement, or its receiver lagged behind it (ws_handler subscribes    *)
(* before snapshot_events reads).                                          *)
THEOREM MeasurementArrives == Spec => []MeasurementShown
<1> DEFINE I == TInv /\ Flows("measurement")
<1>1. Init => I
    BY InitType, InitFlow DEF Topic
<1>2. I /\ [Next]_vars => I'
    <2> SUFFICES ASSUME TInv, Flows("measurement"), [Next]_vars
                 PROVE  TInv' /\ Flows("measurement")'
        OBVIOUS
    <2>1. TInv'
        BY TypeStep
    <2>2. "measurement" \in Topic
        BY DEF Topic
    <2>3. Flows("measurement")'
        BY <2>2, FlowStep
    <2>4. QED
        BY <2>1, <2>3
<1>3. I => MeasurementShown
    BY DrainedShows DEF MeasurementShown, Topic, Shown
<1>4. QED
    BY <1>1, <1>2, <1>3, PTL DEF Spec

-----------------------------------------------------------------------------
(* The config as well, where the page is the only one who edits            *)

(* A page that fetches the config while somebody saves may render what it  *)
(* fetched over the newer frame; a page that saves while someone else      *)
(* edits, or its operator types on, calls the form clean with another      *)
(* content in it.  The setups that exclude the three:                      *)
EditsApart ==
    \A setup \in Setups :
        /\ setup.start = "boot" => setup.budget["other"] = 0 /\ setup.budget["save"] = 0
        /\ setup.budget["save"] > 0 => setup.budget["other"] = 0 /\ setup.budget["more"] = 0

(* What then holds of the requests under way.                              *)
Alone ==
    /\ save.at # "none" \/ budget["save"] > 0 => budget["more"] = 0 /\ budget["other"] = 0
    /\ boot.at # "none" =>
           /\ budget["other"] = 0 /\ budget["save"] = 0
           /\ save.at = "none" /\ "config" \notin unsent
    /\ boot.at = "answered" => boot.value = held["config"]
    /\ save.at # "none" /\ formDirty => form = save.value
    /\ save.at \in {"applied", "ok"} => held["config"] = save.value

(* Apart they start.                                                       *)
LEMMA InitAlone == Init /\ EditsApart => Alone
<1> SUFFICES ASSUME Init, EditsApart PROVE Alone
    OBVIOUS
<1>1. PICK setup \in Setups :
          /\ budget = setup.budget
          /\ boot = IF setup.start = "open" THEN Idle(0) ELSE [at |-> "asked", value |-> 0]
    BY DEF Init
<1>2. setup.start \in {"boot", "open"} /\ save.at = "none" /\ unsent = {}
    BY SetupsAssumption DEF Init, Idle
<1>3. boot.at = IF setup.start = "open" THEN "none" ELSE "asked"
    BY <1>1 DEF Idle
<1>4. QED
    BY <1>1, <1>2, <1>3 DEF EditsApart, Alone

(* And apart they stay.                                                    *)
LEMMA AloneStep ==
    ASSUME TInv, Alone, [Next]_vars
    PROVE  Alone'
<1>0. /\ budget \in [Moves -> Nat] /\ {"save", "more", "other"} \subseteq Moves
      /\ budget["save"] \in Nat /\ budget["more"] \in Nat /\ budget["other"] \in Nat
      /\ held \in [Topic -> Nat] /\ Topic = {"measurement", "config"}
      /\ save \in [at : {"none", "sent", "applied", "ok"}, value : 0..made]
      /\ boot \in [at : {"none", "asked", "answered"}, value : 0..made]
    BY DEF TInv, TypeOK, ValuesMade, Moves, Topic
<1>1. ASSUME NEW move \in Moves, Spend(move)
      PROVE  /\ (budget')["save"] \in Nat /\ (budget')["more"] \in Nat /\ (budget')["other"] \in Nat
             /\ (budget')["save"] <= budget["save"] /\ (budget')["more"] <= budget["more"]
             /\ (budget')["other"] <= budget["other"] /\ budget[move] > 0
    BY <1>0, <1>1, SpendType
<1>2. ASSUME NEW topic \in Topic, Announce(topic) PROVE Alone'
    BY <1>2 DEF Announce, Alone, pageVars
<1>3. CASE ApplyPut
    BY <1>0, <1>3 DEF ApplyPut, Swapped, Alone, pageVars
<1>4. CASE AnswerPut
    BY <1>0, <1>4 DEF AnswerPut, Alone, daemonVars, pageVars
<1>5. CASE AnswerGet
    BY <1>5 DEF AnswerGet, Alone, daemonVars, pageVars
<1>6. CASE ReadStore \/ ReadConfig \/ SendSnapshot \/ Forward \/ Connect
    BY <1>6 DEF ReadStore, ReadConfig, SendSnapshot, Forward, Connect, Alone, daemonVars, pageVars
<1>7. CASE Deliver
    <2>1. /\ UNCHANGED <<daemonVars, boot, save, budget>>
          /\ formDirty' => formDirty /\ form' = form
        <3>1. Head(wire) \in Frame
            BY <1>7, TailFrames DEF Deliver, TInv, TypeOK
        <3>2. \/ UNCHANGED <<form, formDirty, unsaved>>
              \/ RenderIfClean(Head(wire).value)
            BY <1>7, <3>1 DEF Deliver, Frame, Topic, pageVars
        <3>3. QED
            BY <1>7, <3>2 DEF Deliver, RenderIfClean, Render
    <2>2. QED
        BY <2>1 DEF Alone, daemonVars
<1>8. CASE Booted
    BY <1>8 DEF Booted, Idle, RenderIfClean, Render, Alone, daemonVars
<1>9. CASE Saved
    BY <1>9 DEF Saved, Idle, Alone, daemonVars
<1>10. CASE Silence
    BY <1>10 DEF Silence, Alone, daemonVars, pageVars
<1>11. CASE Measure
    <2>1. (held')["config"] = held["config"] /\ ("config" \in unsent' <=> "config" \in unsent)
        BY <1>0, <1>11 DEF Measure
    <2>2. Spend("measure") /\ "measure" \in Moves
        BY <1>11 DEF Measure, Moves
    <2>3. QED
        BY <1>0, <1>1, <1>11, <2>1, <2>2 DEF Measure, Alone, pageVars
<1>12. CASE OtherEdit
    <2>1. Spend("other") /\ "other" \in Moves
        BY <1>12 DEF OtherEdit, Moves
    <2>2. budget["other"] > 0 /\ save.at = "none" /\ boot.at = "none" /\ ~(budget["save"] > 0)
        BY <1>0, <1>1, <2>1 DEF Alone
    <2>3. QED
        BY <1>0, <1>1, <1>12, <2>1, <2>2 DEF OtherEdit, Alone, pageVars
<1>13. CASE Row
    <2>1. Spend("row") /\ "row" \in Moves
        BY <1>13 DEF Row, Moves
    <2>2. QED
        BY <1>0, <1>1, <1>13, <2>1 DEF Row, Alone, daemonVars, pageVars
<1>14. CASE RefusePut
    <2>1. Spend("refuse") /\ "refuse" \in Moves
        BY <1>14 DEF RefusePut, Moves
    <2>2. QED
        BY <1>0, <1>1, <1>14, <2>1 DEF RefusePut, Idle, Alone, daemonVars, pageVars
<1>15. CASE Type
    <2> DEFINE move == IF save.at = "none" THEN "type" ELSE "more"
    <2>1. Spend(move) /\ move \in Moves
        BY <1>15 DEF Type, Moves
    <2>2. save.at = "none"
        BY <1>0, <1>1, <2>1 DEF Alone
    <2> HIDE DEF move
    <2>3. QED
        BY <1>0, <1>1, <1>15, <2>1, <2>2 DEF Type, Alone
<1>16. CASE Save
    <2>1. Spend("save") /\ "save" \in Moves
        BY <1>16 DEF Save, Moves
    <2>2. budget["save"] > 0 /\ boot.at = "none"
        BY <1>0, <1>1, <2>1 DEF Alone
    <2>3. (budget')["more"] = 0 /\ (budget')["other"] = 0
        BY <1>0, <1>1, <2>1, <2>2 DEF Alone
    <2>4. save' = [at |-> "sent", value |-> form] /\ UNCHANGED <<daemonVars, pageVars, boot>>
        BY <1>16 DEF Save
    <2>5. QED
        BY <2>2, <2>3, <2>4 DEF Alone, daemonVars, pageVars
<1>17. CASE Drop
    <2>1. Spend("drop") /\ "drop" \in Moves
        BY <1>17 DEF Drop, Moves
    <2>2. QED
        BY <1>0, <1>1, <1>17, <2>1 DEF Drop, Alone, daemonVars, pageVars
<1>18. CASE Restart
    <2>1. Spend("restart") /\ "restart" \in Moves
        BY <1>18 DEF Restart, Moves
    <2>2. (held')["config"] = held["config"]
        BY <1>0, <1>18 DEF Restart
    <2>3. /\ boot' = boot \/ (boot').at = "none"
          /\ boot.at = "none" => (boot').at = "none"
          /\ save' = save \/ (save').at = "none"
          /\ unsent' = {} /\ UNCHANGED pageVars
        BY <1>0, <1>18 DEF Restart, Idle
    <2>4. QED
        BY <1>0, <1>1, <2>1, <2>2, <2>3 DEF Alone, pageVars
<1>19. CASE UNCHANGED vars
    BY <1>19 DEF vars, daemonVars, pageVars, Alone
<1>20. QED
    BY <1>2, <1>3, <1>4, <1>5, <1>6, <1>7, <1>8, <1>9, <1>10, <1>11, <1>12, <1>13, <1>14,
       <1>15, <1>16, <1>17, <1>18, <1>19
    DEF Next, Daemon, Socket, Page

(* "An event that lands during the snapshot is then delivered by the loop  *)
(* rather than lost in the gap" (server.rs): for the measurement and, with *)
(* edits apart, the config.                                                *)
THEOREM NothingLost == EditsApart /\ Spec => []NothingInTheGap
<1> DEFINE I == TInv /\ Alone /\ Flows("measurement") /\ Flows("config")
<1>1. Init /\ EditsApart => I
    BY InitType, InitFlow, InitAlone DEF Topic
<1>2. I /\ [Next]_vars => I'
    <2> SUFFICES ASSUME TInv, Alone, Flows("measurement"), Flows("config"), [Next]_vars
                 PROVE  TInv' /\ Alone' /\ Flows("measurement")' /\ Flows("config")'
        OBVIOUS
    <2>1. TInv' /\ Alone'
        BY TypeStep, AloneStep
    <2>2. Settled
        BY DEF Alone, Settled
    <2>3. "measurement" \in Topic /\ "config" \in Topic
        BY DEF Topic
    <2>4. Flows("measurement")' /\ Flows("config")'
        BY <2>2, <2>3, FlowStep
    <2>5. QED
        BY <2>1, <2>4
<1>3. I => NothingInTheGap
    BY DrainedShows DEF NothingInTheGap, Topic, Shown
<1>4. QED
    BY <1>1, <1>2, <1>3, PTL DEF Spec

-----------------------------------------------------------------------------
(* What the operator typed                                                 *)

(* The page that lets its operator type on during a save loses that work:  *)
(* saveConfig calls the form clean when the answer is in.  Without it:     *)
TypingWaits ==
    \A setup \in Setups : setup.budget["more"] = 0 \/ setup.budget["save"] = 0

(* Unsaved work is in a dirty form, and in the save under way there is no  *)
(* other.                                                                  *)
Dirty ==
    /\ budget["more"] = 0 \/ (budget["save"] = 0 /\ save.at = "none")
    /\ unsaved => formDirty
    /\ save.at # "none" /\ unsaved => form = save.value

(* A form starts clean.                                                    *)
LEMMA InitDirty == Init /\ TypingWaits => Dirty
<1> SUFFICES ASSUME Init, TypingWaits PROVE Dirty
    OBVIOUS
<1>1. PICK setup \in Setups : budget = setup.budget
    BY DEF Init
<1>2. QED
    BY <1>1 DEF Init, Idle, TypingWaits, Dirty

(* A step changes unsaved work by typing alone, and keeps it dirty.        *)
LEMMA DirtyStep ==
    ASSUME TInv, Dirty, [Next]_vars
    PROVE  Dirty' /\ (unsaved /\ form' # form => made' # made)
<1>0. /\ budget \in [Moves -> Nat] /\ {"save", "more"} \subseteq Moves /\ made \in Nat
      /\ save \in [at : {"none", "sent", "applied", "ok"}, value : 0..made]
    BY DEF TInv, TypeOK, ValuesMade, Moves
<1>1. ASSUME NEW move \in Moves, Spend(move)
      PROVE  /\ budget["more"] = 0 => (budget')["more"] = 0
             /\ budget["save"] = 0 => (budget')["save"] = 0
             /\ budget[move] # 0
    <2>1. /\ (budget')["more"] \in Nat /\ (budget')["save"] \in Nat /\ budget[move] > 0
          /\ (budget')["more"] <= budget["more"] /\ (budget')["save"] <= budget["save"]
        BY <1>0, <1>1, SpendType
    <2>2. QED
        BY <1>0, <2>1
<1>2. CASE UNCHANGED pageVars /\ UNCHANGED <<save, budget>>
    BY <1>2 DEF pageVars, Dirty
<1>3. ASSUME NEW move \in Moves, Spend(move), UNCHANGED pageVars, save' = save \/ (save').at = "none"
      PROVE  Dirty' /\ (unsaved /\ form' # form => made' # made)
    BY <1>1, <1>3 DEF pageVars, Dirty
<1>4. CASE Daemon
    <2>1. CASE \E topic \in Topic : Announce(topic)
        BY <1>2, <2>1 DEF Announce
    <2>2. CASE AnswerGet
        BY <1>2, <2>2 DEF AnswerGet
    <2>3. CASE ApplyPut \/ AnswerPut
        <3>1. /\ UNCHANGED pageVars /\ UNCHANGED budget
              /\ (save').value = save.value /\ save.at # "none"
            BY <1>0, <2>3 DEF ApplyPut, AnswerPut
        <3>2. QED
            BY <3>1 DEF Dirty, pageVars
    <2>4. QED
        BY <1>4, <2>1, <2>2, <2>3 DEF Daemon
<1>5. CASE Socket \/ Connect \/ Silence
    BY <1>2, <1>5 DEF Socket, ReadStore, ReadConfig, SendSnapshot, Forward, Connect, Silence
<1>6. ASSUME NEW content, RenderIfClean(content), UNCHANGED <<save, budget>>
      PROVE  Dirty' /\ (unsaved /\ form' # form => made' # made)
    BY <1>6 DEF RenderIfClean, Render, Dirty
<1>7. CASE Deliver
    <2>1. Head(wire) \in Frame
        BY <1>7, TailFrames DEF Deliver, TInv, TypeOK
    <2>2. \/ UNCHANGED <<form, formDirty, unsaved>>
          \/ RenderIfClean(Head(wire).value)
        BY <1>7, <2>1 DEF Deliver, Frame, Topic, pageVars
    <2>3. UNCHANGED <<save, budget>>
        BY <1>7 DEF Deliver
    <2>4. CASE UNCHANGED <<form, formDirty, unsaved>>
        BY <2>3, <2>4 DEF Dirty
    <2>5. CASE RenderIfClean(Head(wire).value)
        BY <1>6, <2>3, <2>5
    <2>6. QED
        BY <2>2, <2>4, <2>5
<1>8. CASE Booted
    BY <1>6, <1>8 DEF Booted
<1>9. CASE Saved
    BY <1>9 DEF Saved, Idle, Dirty
<1>10. CASE Measure
    BY <1>3, <1>10 DEF Measure, Moves
<1>11. CASE OtherEdit
    BY <1>3, <1>11 DEF OtherEdit, Moves
<1>12. CASE Row
    BY <1>3, <1>12 DEF Row, Moves
<1>13. CASE RefusePut
    BY <1>3, <1>13 DEF RefusePut, Idle, Moves
<1>14. CASE Drop
    BY <1>3, <1>14 DEF Drop, Moves
<1>15. CASE Restart
    BY <1>3, <1>15 DEF Restart, Idle, Moves
<1>16. CASE Type
    <2> DEFINE move == IF save.at = "none" THEN "type" ELSE "more"
    <2>1. Spend(move) /\ move \in Moves
        BY <1>16 DEF Type, Moves
    <2>2. save.at = "none"
        BY <1>0, <1>1, <2>1 DEF Dirty
    <2> HIDE DEF move
    <2>3. made' # made
        BY <1>0, <1>16 DEF Type
    <2>4. QED
        BY <1>1, <1>16, <2>1, <2>2, <2>3 DEF Type, Dirty
<1>17. CASE Save
    <2>1. Spend("save")
        BY <1>17 DEF Save
    <2>2. budget["more"] = 0 /\ (budget')["more"] = 0
        BY <1>0, <1>1, <2>1 DEF Dirty
    <2>3. (save').value = form /\ UNCHANGED pageVars
        BY <1>17 DEF Save
    <2>4. QED
        BY <2>2, <2>3 DEF Dirty, pageVars
<1>18. CASE UNCHANGED vars
    BY <1>2, <1>18 DEF vars
<1>19. QED
    BY <1>4, <1>5, <1>7, <1>8, <1>9, <1>10, <1>11, <1>12, <1>13, <1>14, <1>15, <1>16, <1>17, <1>18
    DEF Next, Page

(* "A config that arrives mid-edit must not overwrite half-finished work"  *)
(* (app.js): no frame, boot answer or saved answer changes what the        *)
(* operator has typed and not yet sent.                                    *)
THEOREM WorkKept == TypingWaits /\ Spec => UnsavedKept
<1> DEFINE I == TInv /\ Dirty
<1>1. Init /\ TypingWaits => I
    BY InitType, InitDirty
<1>2. I /\ [Next]_vars => I'
    BY TypeStep, DirtyStep
<1>3. I /\ [Next]_vars => [unsaved /\ form' # form => made' # made]_vars
    BY DirtyStep
<1>4. QED
    BY <1>1, <1>2, <1>3, PTL DEF Spec, UnsavedKept
=============================================================================
