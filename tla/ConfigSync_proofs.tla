------------------------- MODULE ConfigSync_proofs -------------------------
(***************************************************************************)
(* Proofs about ConfigSync, for every Config, Link and Setups.             *)
(*                                                                         *)
(* TypeOK is not inductive: applying a push looks its content up in the    *)
(* website's ledger, which has one only for the versions it has minted     *)
(* (VersionsMinted).  Nor is that: disk.ver <= mem.ver survives a failed   *)
(* write only because an acknowledgement never goes back, which the order  *)
(* of the frames on the socket guarantees (VersionsOrdered).  The three    *)
(* are inductive together.                                                 *)
(*                                                                         *)
(* The second half needs to know what is in flight: that a session has one *)
(* report under way at a time, and that the two sides agree.  Chan counts  *)
(* what is on the two channels against the phase of the task and           *)
(* awaiting_ack.  Together says what AgreesUnlessParted rests on: whatever *)
(* is on its way to be acknowledged or recorded is what the node runs now, *)
(* unless an edit is marked to be reported after it (NewerEdit), which     *)
(* MarkEdit and Acked see to; and what parts the two (a push across a      *)
(* report) is over when nothing is in flight.  WebsiteAlone is for a node  *)
(* nobody edits, whose two copies are what the website minted.             *)
(***************************************************************************)
EXTENDS ConfigSync, SequenceTheorems, TLAPS

IInv == TypeOK /\ VersionsMinted /\ VersionsOrdered

-----------------------------------------------------------------------------
(* Frames on a channel.                                                    *)

(* A frame leaves the channel's head: what is left was there before, and   *)
(* no acknowledgement left is below it.                                    *)
LEMMA TailOrdered ==
    ASSUME NEW s \in Seq(DownMsg), s # <<>>, NEW n \in Nat, NEW v \in Nat,
           Below(s, n), AcksInOrder(s), AcksAbove(s, v)
    PROVE  /\ Head(s) \in DownMsg /\ Head(s).ver <= n
           /\ Head(s).type = "accepted" => v <= Head(s).ver
           /\ Tail(s) \in Seq(DownMsg) /\ Below(Tail(s), n)
           /\ AcksInOrder(Tail(s)) /\ AcksAbove(Tail(s), v)
           /\ AcksAbove(Tail(s), Head(s).ver)
<1>1. /\ Tail(s) \in Seq(DownMsg) /\ Head(s) \in DownMsg /\ Head(s) = s[1]
      /\ Len(s) \in Nat /\ Len(s) > 0
  OBVIOUS
<1>2. Len(Tail(s)) = Len(s) - 1 /\ \A i \in 1..Len(Tail(s)) : Tail(s)[i] = s[i + 1]
  OBVIOUS
<1>3. Head(s).ver <= n /\ Below(Tail(s), n)
  BY <1>1, <1>2 DEF Below
<1>4. AcksAbove(Tail(s), v) /\ (Head(s).type = "accepted" => v <= Head(s).ver)
  BY <1>1, <1>2 DEF AcksAbove
<1>5. AcksAbove(Tail(s), Head(s).ver)
  <2>1. SUFFICES ASSUME NEW j \in 1..Len(Tail(s)), Tail(s)[j].type = "accepted"
                 PROVE  Head(s).ver <= Tail(s)[j].ver
    BY DEF AcksAbove
  <2>2. j + 1 \in 1..Len(s) /\ s[j + 1].type = "accepted" /\ 1 \in 1..((j + 1) - 1)
    BY <1>1, <1>2, <2>1
  <2>3. QED BY <1>1, <1>2, <2>2 DEF AcksInOrder
<1>6. AcksInOrder(Tail(s))
  <2>1. SUFFICES ASSUME NEW j \in 1..Len(Tail(s)), Tail(s)[j].type = "accepted",
                        NEW i \in 1..(j - 1)
                 PROVE  Tail(s)[i].ver <= Tail(s)[j].ver
    BY DEF AcksInOrder
  <2>2. /\ j + 1 \in 1..Len(s) /\ i + 1 \in 1..((j + 1) - 1)
        /\ i \in 1..Len(Tail(s)) /\ s[j + 1].type = "accepted"
    BY <1>1, <1>2, <2>1
  <2>3. QED BY <1>2, <2>2 DEF AcksInOrder
<1>7. QED BY <1>1, <1>3, <1>4, <1>5, <1>6

(* A frame joins the channel's tail while the ledger grows from n to m; an *)
(* acknowledgement that joins carries the newest version, m.               *)
LEMMA AppendOrdered ==
    ASSUME NEW s \in Seq(DownMsg), NEW e \in DownMsg, NEW n \in Nat, NEW m \in Nat,
           NEW v \in Nat, v <= n, n <= m, e.ver <= m,
           e.type = "accepted" => e.ver = m,
           Below(s, n), AcksInOrder(s), AcksAbove(s, v)
    PROVE  /\ Append(s, e) \in Seq(DownMsg) /\ Below(Append(s, e), m)
           /\ AcksInOrder(Append(s, e)) /\ AcksAbove(Append(s, e), v)
<1>1. /\ Append(s, e) \in Seq(DownMsg) /\ Len(Append(s, e)) = Len(s) + 1
      /\ Len(s) \in Nat /\ Append(s, e)[Len(s) + 1] = e
  OBVIOUS
<1>2. \A i \in 1..Len(s) : Append(s, e)[i] = s[i] /\ s[i].ver \in Nat
  <2>1. ASSUME NEW i \in 1..Len(s) PROVE s[i] \in DownMsg
    BY ElementOfSeq
  <2>2. \A i \in 1..Len(s) : Append(s, e)[i] = s[i]
    OBVIOUS
  <2>3. QED BY <2>1, <2>2 DEF DownMsg
<1>3. Below(Append(s, e), m)
  BY <1>1, <1>2 DEF Below
<1>4. AcksAbove(Append(s, e), v)
  BY <1>1, <1>2 DEF AcksAbove
<1>5. AcksInOrder(Append(s, e))
  <2>1. SUFFICES ASSUME NEW j \in 1..(Len(s) + 1), Append(s, e)[j].type = "accepted",
                        NEW i \in 1..(j - 1)
                 PROVE  Append(s, e)[i].ver <= Append(s, e)[j].ver
    BY <1>1 DEF AcksInOrder
  <2>2. CASE j \in 1..Len(s)
    BY <1>1, <1>2, <2>1, <2>2 DEF AcksInOrder
  <2>3. CASE j = Len(s) + 1
    BY <1>1, <1>2, <2>1, <2>3 DEF Below
  <2>4. QED BY <1>1, <2>2, <2>3
<1>6. QED BY <1>1, <1>3, <1>4, <1>5

(* The same of the way up, where nothing is said of the order.             *)
LEMMA UpBelow ==
    ASSUME NEW s \in Seq(UpMsg), NEW n \in Nat, Below(s, n)
    PROVE  /\ s # <<>> => /\ Head(s) \in UpMsg /\ Head(s).ver <= n
                         /\ Tail(s) \in Seq(UpMsg) /\ Below(Tail(s), n)
           /\ \A e \in UpMsg : e.ver <= n =>
                  Append(s, e) \in Seq(UpMsg) /\ Below(Append(s, e), n)
<1>1. ASSUME s # <<>>
      PROVE  /\ Head(s) \in UpMsg /\ Head(s).ver <= n
             /\ Tail(s) \in Seq(UpMsg) /\ Below(Tail(s), n)
  <2>1. /\ Tail(s) \in Seq(UpMsg) /\ Head(s) \in UpMsg /\ Head(s) = s[1]
        /\ Len(s) \in Nat /\ Len(s) > 0
    BY <1>1
  <2>2. Len(Tail(s)) = Len(s) - 1 /\ \A i \in 1..Len(Tail(s)) : Tail(s)[i] = s[i + 1]
    BY <1>1
  <2>3. QED BY <2>1, <2>2 DEF Below
<1>2. ASSUME NEW e \in UpMsg, e.ver <= n
      PROVE  Append(s, e) \in Seq(UpMsg) /\ Below(Append(s, e), n)
  <2>1. /\ Append(s, e) \in Seq(UpMsg) /\ Len(Append(s, e)) = Len(s) + 1
        /\ Len(s) \in Nat /\ Append(s, e)[Len(s) + 1] = e
    OBVIOUS
  <2>2. \A i \in 1..Len(s) : Append(s, e)[i] = s[i]
    OBVIOUS
  <2>3. QED BY <1>2, <2>1, <2>2 DEF Below
<1>3. QED BY <1>1, <1>2

(* An empty channel satisfies all of it; the ledger only grows.            *)
LEMMA EmptyOrdered ==
    ASSUME NEW v
    PROVE  Below(<<>>, v) /\ AcksAbove(<<>>, v) /\ AcksInOrder(<<>>)
BY DEF Below, AcksAbove, AcksInOrder

(* Frames stay below a version that grows.                                 *)
LEMMA BelowGrows ==
    ASSUME NEW s \in Seq(UpMsg) \cup Seq(DownMsg), NEW n \in Nat, NEW m \in Nat,
           n <= m, Below(s, n)
    PROVE  Below(s, m)
<1>1. \A i \in 1..Len(s) : s[i].ver \in Nat
  <2>1. ASSUME NEW i \in 1..Len(s) PROVE s[i] \in UpMsg \/ s[i] \in DownMsg
    BY ElementOfSeq
  <2>2. QED BY <2>1 DEF UpMsg, DownMsg
<1>2. QED BY <1>1 DEF Below

-----------------------------------------------------------------------------
(* The steps that touch a stored version.                                  *)

(* Every budget stays a number.                                            *)
LEMMA SpendType ==
    ASSUME TypeOK, NEW move, Spend(move)
    PROVE  budget' \in [Moves -> Nat]
<1>1. budget \in [Moves -> Nat] /\ budget[move] > 0
  BY DEF TypeOK, Spend
<1>2. CASE move \in Moves
  BY <1>1, <1>2 DEF Spend
<1>3. CASE move \notin Moves
  BY <1>1, <1>3 DEF Spend
<1>4. QED BY <1>2, <1>3

(* Recording a minted version that is not behind the running one keeps the *)
(* two copies typed, in order, and at or below v.                          *)
LEMMA PersistVersionInv ==
    ASSUME IInv, NEW v \in Nat, v <= Version, mem.ver <= v, PersistVersion(v)
    PROVE  /\ mem' \in Stored /\ disk' \in Stored /\ budget' \in [Moves -> Nat]
           /\ disk'.ver <= mem'.ver /\ mem'.ver <= v
<1>. USE DEF IInv, TypeOK, VersionsMinted, Stored
<1>1. CASE UNCHANGED <<mem, disk, budget>>
  BY <1>1
<1>2. CASE mem' = [mem EXCEPT !.ver = v] /\ disk' = mem' /\ UNCHANGED budget
  <2>1. mem' \in Stored /\ mem'.ver = v
    BY <1>2
  <2>2. budget' \in [Moves -> Nat]
    BY <1>2
  <2>3. QED BY <1>2, <2>1, <2>2
<1>3. CASE mem' = [mem EXCEPT !.ver = v] /\ Spend("write") /\ UNCHANGED disk
  <2>1. budget' \in [Moves -> Nat]
    BY <1>3, SpendType
  <2>2. mem' \in Stored /\ mem'.ver = v
    BY <1>3
  <2>3. disk' \in Stored /\ disk'.ver <= v
    BY <1>3
  <2>4. QED BY <2>1, <2>2, <2>3
<1>4. QED BY <1>1, <1>2, <1>3 DEF PersistVersion

(* Applying the push being worked on does too: its content is in the       *)
(* ledger.                                                                 *)
LEMMA ApplyPushedInv ==
    ASSUME IInv, job.ver # 0, ApplyPushed(job.ver)
    PROVE  /\ mem' \in Stored /\ disk' \in Stored /\ budget' \in [Moves -> Nat]
           /\ disk'.ver <= mem'.ver /\ mem'.ver <= job.ver
<1>. USE DEF IInv, TypeOK, VersionsMinted, VersionsOrdered, Stored, Job
<1>1. job.ver \in 1..Version /\ minted[job.ver] \in Config
  BY DEF Version
<1>2. CASE /\ mem' = [ver |-> job.ver, cfg |-> minted[job.ver],
                      link |-> IF mem.link = "none" THEN "blank" ELSE mem.link]
           /\ disk' = mem' /\ UNCHANGED budget
  BY <1>1, <1>2
<1>3. CASE Spend("write") /\ UNCHANGED <<mem, disk>>
  BY <1>3, SpendType
<1>4. QED BY <1>2, <1>3 DEF ApplyPushed

(* The report state stays a report state.                                  *)
LEMMA ReportTypes ==
    ASSUME NEW r \in ReportState
    PROVE  MarkEdit(r) \in ReportState /\ Acked(r) \in ReportState
               /\ NewSession(r) \in ReportState
BY DEF ReportState, MarkEdit, Acked, NewSession

-----------------------------------------------------------------------------
(* The inductive invariant.                                                *)

(* No version is beyond the website's at the start.                        *)
LEMMA InitInv == Init => IInv
<1>. SUFFICES ASSUME Init PROVE IInv
  OBVIOUS
<1>. USE ConfigAssumption, SetupsAssumption
<1>1. PICK setup \in Setups : InitConfig(setup.start) /\ budget = setup.budget
  BY DEF Init
<1>2. PICK c \in Config, s \in Config \ Refused :
        /\ minted = IF setup.start = "new" THEN <<>> ELSE <<s>>
        /\ mem = [ver |-> IF setup.start = "synced" THEN 1 ELSE 0,
                  cfg |-> c, link |-> "token"]
  BY <1>1 DEF InitConfig
<1>3. minted \in Seq(Config \ Refused)
  <2>1. <<>> \in Seq(Config \ Refused) /\ <<s>> \in Seq(Config \ Refused)
    OBVIOUS
  <2>2. QED BY <1>2, <2>1
<1>4. mem \in Stored /\ mem.ver <= Version /\ Version \in Nat
  BY <1>1, <1>2 DEF Stored, Version
<1>5. TypeOK
  BY <1>1, <1>3, <1>4, EmptySeq
  DEF Init, TypeOK, NoReport, ReportState, Phase, NoJob, Job
<1>6. VersionsMinted /\ VersionsOrdered
  BY <1>4, EmptyOrdered DEF Init, VersionsMinted, VersionsOrdered, NoJob, Stored
<1>7. QED BY <1>5, <1>6 DEF IInv

(* A step that leaves the channels, the ledger and the push alone.         *)
LEMMA QuietInv ==
    ASSUME IInv, parted' \in BOOLEAN, UNCHANGED <<mem, disk, job, netVars, minted, budget>>,
           bumps' \in Nat, unseen' \in BOOLEAN, report' \in ReportState, phase' \in Phase,
           job.ver # 0 => phase' = phase
    PROVE  IInv'
BY DEF IInv, TypeOK, VersionsMinted, VersionsOrdered, netVars, Version, Below,
       AcksAbove, AcksInOrder

(* A step that closes the socket, with no push being worked on.            *)
LEMMA ClosedInv ==
    ASSUME IInv, parted' \in BOOLEAN, CloseSocket, UNCHANGED minted, job'.ver = 0, job' \in Job,
           mem' \in Stored, disk' \in Stored, disk'.ver <= mem'.ver, mem'.ver <= Version,
           bumps' \in Nat, unseen' \in BOOLEAN, report' \in ReportState, phase' \in Phase,
           budget' \in [Moves -> Nat]
    PROVE  IInv'
<1>1. Version' = Version /\ Version \in Nat
  BY DEF IInv, TypeOK, Version
<1>2. TypeOK'
  BY EmptySeq DEF IInv, TypeOK, CloseSocket
<1>3. VersionsMinted' /\ VersionsOrdered'
  BY <1>1, EmptyOrdered DEF CloseSocket, VersionsMinted, VersionsOrdered
<1>4. QED BY <1>2, <1>3 DEF IInv

(* A step that sends a frame up, its version minted, from a phase where no *)
(* push is being worked on.                                                *)
LEMMA SendsInv ==
    ASSUME IInv, parted' \in BOOLEAN, UNCHANGED <<mem, disk, job, minted>>, job.ver = 0,
           toNode' = toNode \/ toNode' = <<>>,
           toServer' \in Seq(UpMsg), Below(toServer', Version), online' \in BOOLEAN,
           bumps' \in Nat, unseen' \in BOOLEAN, report' \in ReportState, phase' \in Phase,
           budget' \in [Moves -> Nat]
    PROVE  IInv'
<1>1. Version' = Version /\ Version \in Nat
  BY DEF IInv, TypeOK, Version
<1>2. TypeOK'
  BY EmptySeq DEF IInv, TypeOK
<1>3. Below(toNode', Version) /\ AcksInOrder(toNode')
      /\ AcksAbove(toNode', mem.ver) /\ AcksAbove(toNode', job.ver)
  BY EmptyOrdered DEF IInv, VersionsMinted, VersionsOrdered
<1>4. VersionsMinted' /\ VersionsOrdered'
  BY <1>1, <1>3 DEF IInv, VersionsMinted, VersionsOrdered
<1>5. QED BY <1>2, <1>4 DEF IInv

(* A step of the website: frames leave the way up, frames and configs are  *)
(* appended to the way down and the ledger.                                *)
LEMMA ServesInv ==
    ASSUME IInv, parted' \in BOOLEAN, UNCHANGED <<mem, disk, bumps, unseen, nodeVars>>,
           toServer' \in Seq(UpMsg), Below(toServer', Version), online' \in BOOLEAN,
           budget' \in [Moves -> Nat],
           minted' \in Seq(Config \ Refused), Version <= Version',
           \/ toNode' = toNode
           \/ \E e \in DownMsg : /\ toNode' = Append(toNode, e)
                                 /\ e.ver <= Version'
                                 /\ e.type = "accepted" => e.ver = Version'
    PROVE  IInv'
<1>1. /\ Version \in Nat /\ Version' \in Nat /\ mem.ver \in Nat /\ job.ver \in Nat
      /\ toNode \in Seq(DownMsg) /\ Below(toNode, Version) /\ AcksInOrder(toNode)
      /\ AcksAbove(toNode, mem.ver) /\ AcksAbove(toNode, job.ver)
      /\ mem.ver <= Version /\ job.ver <= Version
  BY DEF IInv, TypeOK, VersionsMinted, VersionsOrdered, Version, Stored, Job
<1>2. Below(toServer', Version')
  BY <1>1, BelowGrows
<1>3. /\ toNode' \in Seq(DownMsg) /\ Below(toNode', Version') /\ AcksInOrder(toNode')
      /\ AcksAbove(toNode', mem.ver) /\ AcksAbove(toNode', job.ver)
  <2>1. CASE toNode' = toNode
    BY <1>1, <2>1, BelowGrows DEF nodeVars
  <2>2. CASE toNode' # toNode
    <3>. PICK e \in DownMsg : /\ toNode' = Append(toNode, e)
                              /\ e.ver <= Version'
                              /\ e.type = "accepted" => e.ver = Version'
      BY <2>2
    <3>1. \A v \in Nat : v <= Version /\ AcksAbove(toNode, v) =>
              /\ Append(toNode, e) \in Seq(DownMsg) /\ Below(Append(toNode, e), Version')
              /\ AcksInOrder(Append(toNode, e)) /\ AcksAbove(Append(toNode, e), v)
      BY <1>1, AppendOrdered
    <3>2. QED BY <1>1, <3>1 DEF nodeVars
  <2>3. QED BY <2>1, <2>2
<1>4. TypeOK'
  BY <1>3 DEF IInv, TypeOK, nodeVars
<1>5. VersionsMinted'
  BY <1>1, <1>2, <1>3 DEF IInv, VersionsMinted, nodeVars
<1>6. VersionsOrdered'
  BY <1>3 DEF IInv, VersionsOrdered, nodeVars
<1>7. QED BY <1>4, <1>5, <1>6 DEF IInv

-----------------------------------------------------------------------------
(* Each action keeps the invariant.                                        *)

(* The steps of the task that send and receive nothing.                    *)
LEMMA LocalInv ==
    ASSUME IInv, parted' \in BOOLEAN,
           Bump \/ FindNoToken \/ WakeUp \/ LatchLocalEdit \/ ConnectFails \/ SkipPoll
    PROVE  IInv'
<1>. USE DEF nodeVars, Phase
<1>1. bumps \in Nat /\ unseen \in BOOLEAN /\ report \in ReportState /\ phase \in Phase
  BY DEF IInv, TypeOK
<1>2. job.ver # 0 => phase \in {"session", "pulling"}
  BY DEF IInv, VersionsOrdered
<1>3. MarkEdit(report) \in ReportState
  BY <1>1, ReportTypes
<1>4. CASE Bump
  BY <1>1, <1>4, QuietInv DEF Bump
<1>5. CASE FindNoToken \/ WakeUp \/ ConnectFails \/ SkipPoll
  BY <1>1, <1>2, <1>5, QuietInv DEF FindNoToken, WakeUp, ConnectFails, SkipPoll
<1>6. CASE LatchLocalEdit
  BY <1>1, <1>2, <1>3, <1>6, QuietInv DEF LatchLocalEdit
<1>7. QED BY <1>4, <1>5, <1>6

(* A local edit keeps its version, or loses it with its block.             *)
LEMMA PutConfigInv ==
    ASSUME IInv, parted' \in BOOLEAN, NEW c \in Config, NEW l \in Link, PutConfig(c, l)
    PROVE  IInv'
<1>1. budget' \in [Moves -> Nat]
  BY SpendType DEF IInv, PutConfig
<1>2. /\ mem' \in Stored /\ disk' = mem' /\ mem'.ver <= mem.ver /\ mem.ver \in Nat
  BY LinkAssumption DEF IInv, TypeOK, PutConfig, Stored
<1>3. Version' = Version /\ Version \in Nat /\ mem'.ver \in Nat
  BY <1>2 DEF IInv, TypeOK, PutConfig, Version, Stored
<1>4. TypeOK'
  BY <1>1, <1>2 DEF IInv, TypeOK, PutConfig, nodeVars, netVars
<1>5. VersionsMinted'
  BY <1>2, <1>3 DEF IInv, VersionsMinted, PutConfig, nodeVars, netVars
<1>6. AcksAbove(toNode', mem'.ver)
  <2>1. \A i \in 1..Len(toNode) : toNode[i].ver \in Nat
    <3>1. \A i \in 1..Len(toNode) : toNode[i] \in DownMsg
      BY ElementOfSeq DEF IInv, TypeOK
    <3>2. QED BY <3>1 DEF DownMsg
  <2>2. AcksAbove(toNode, mem.ver) /\ toNode' = toNode
    BY DEF IInv, VersionsOrdered, PutConfig, netVars
  <2>3. QED BY <1>2, <1>3, <2>1, <2>2 DEF AcksAbove
<1>7. job'.ver # 0 => mem'.ver < job'.ver /\ phase' \in {"session", "pulling"}
  BY <1>2, <1>3 DEF IInv, TypeOK, Job, VersionsOrdered, PutConfig, nodeVars
<1>8. VersionsOrdered'
  BY <1>6, <1>7 DEF IInv, VersionsOrdered, PutConfig, nodeVars, netVars
<1>9. QED BY <1>4, <1>5, <1>8 DEF IInv

(* Frames up: the versions they carry are the running one, minted before.  *)
LEMMA SendingInv ==
    ASSUME IInv, parted' \in BOOLEAN, Connect \/ SendReport \/ PostReport \/ PullConfig
    PROVE  IInv'
<1>1. /\ Version \in Nat /\ mem.ver \in Nat /\ mem.ver <= Version /\ mem.cfg \in Config
      /\ toServer \in Seq(UpMsg) /\ Below(toServer, Version)
      /\ job.ver # 0 => phase \in {"session", "pulling"}
  BY DEF IInv, TypeOK, VersionsMinted, VersionsOrdered, Version, Stored
<1>2. /\ bumps \in Nat /\ unseen \in BOOLEAN /\ report \in ReportState /\ phase \in Phase
      /\ online \in BOOLEAN /\ budget \in [Moves -> Nat]
  BY DEF IInv, TypeOK
<1>3. \A t \in {"hello", "report", "get"} :
          LET m == [type |-> t, ver |-> mem.ver, cfg |-> mem.cfg]
          IN  /\ m \in UpMsg /\ m.ver <= Version
              /\ <<m>> \in Seq(UpMsg) /\ Below(<<m>>, Version)
  BY <1>1 DEF UpMsg, Below
<1>4. CASE Connect
  <2>1. budget' \in [Moves -> Nat]
    BY <1>4, SpendType DEF IInv, Connect
  <2>2. toServer' \in Seq(UpMsg) /\ Below(toServer', Version)
    BY <1>3, <1>4 DEF Connect
  <2>3. report' \in ReportState /\ job.ver = 0 /\ phase' \in Phase
    BY <1>1, <1>2, <1>4, ReportTypes DEF Connect, Phase
  <2>4. QED BY <1>2, <1>4, <2>1, <2>2, <2>3, SendsInv DEF Connect
<1>5. CASE SendReport
  <2>1. toServer' \in Seq(UpMsg) /\ Below(toServer', Version)
    BY <1>1, <1>3, <1>5, UpBelow DEF SendReport, ReportBody
  <2>2. report' \in ReportState
    BY <1>2, <1>5 DEF SendReport, ReportState
  <2>3. QED BY <1>2, <1>5, <2>1, <2>2, SendsInv DEF SendReport
<1>6. CASE PostReport \/ PullConfig
  <2>1. toServer' \in Seq(UpMsg) /\ Below(toServer', Version)
    BY <1>3, <1>6 DEF PostReport, PullConfig, ReportBody
  <2>2. job.ver = 0 /\ phase' \in Phase
    BY <1>1, <1>6 DEF PostReport, PullConfig, Phase
  <2>3. QED BY <1>2, <1>6, <2>1, <2>2, SendsInv DEF PostReport, PullConfig
<1>7. QED BY <1>4, <1>5, <1>6

(* A socket or a request is lost, or the process with it.                  *)
LEMMA LosingInv ==
    ASSUME IInv, parted' \in BOOLEAN, Drop \/ PollFails \/ Restart
    PROVE  IInv'
<1>1. /\ mem \in Stored /\ disk \in Stored /\ disk.ver <= mem.ver /\ mem.ver <= Version
      /\ mem.ver \in Nat /\ disk.ver \in Nat /\ Version \in Nat
      /\ bumps \in Nat /\ unseen \in BOOLEAN /\ report \in ReportState /\ job \in Job
  BY DEF IInv, TypeOK, VersionsMinted, Version, Stored
<1>2. budget' \in [Moves -> Nat]
  BY SpendType DEF IInv, Drop, PollFails, Restart
<1>3. CASE Drop \/ PollFails
  BY <1>1, <1>2, <1>3, ClosedInv DEF Drop, PollFails, Phase
<1>4. CASE Restart
  <2>1. NoReport \in ReportState /\ NoJob \in Job /\ NoJob.ver = 0
    BY DEF NoReport, ReportState, NoJob, Job
  <2>2. /\ mem' \in Stored /\ disk' \in Stored /\ disk'.ver <= mem'.ver /\ mem'.ver <= Version
        /\ bumps' \in Nat /\ unseen' \in BOOLEAN /\ phase' \in Phase
        /\ CloseSocket /\ UNCHANGED minted
    <3>1. /\ mem' = disk /\ disk' = disk /\ bumps' = 0 /\ unseen' = FALSE /\ phase' = "idle"
          /\ CloseSocket /\ UNCHANGED minted
      BY <1>4 DEF Restart
    <3>2. disk.ver <= disk.ver /\ disk.ver <= Version
      BY <1>1
    <3>3. QED BY <1>1, <3>1, <3>2 DEF Phase
  <2>3. report' \in ReportState /\ job' \in Job /\ job'.ver = 0
    BY <1>4, <2>1 DEF Restart
  <2>4. QED BY <1>2, <2>2, <2>3, ClosedInv
<1>5. QED BY <1>3, <1>4

(* The session reads an edit, and goes on or ends.                         *)
LEMMA ReceiveEditInv ==
    ASSUME IInv, parted' \in BOOLEAN, ReceiveEdit
    PROVE  IInv'
<1>1. /\ mem \in Stored /\ disk \in Stored /\ disk.ver <= mem.ver /\ mem.ver <= Version
      /\ bumps \in Nat /\ phase \in Phase /\ job \in Job /\ budget \in [Moves -> Nat]
      /\ MarkEdit(report) \in ReportState
  BY ReportTypes DEF IInv, TypeOK, VersionsMinted
<1>2. CASE mem.link = "token"
  BY <1>1, <1>2, QuietInv DEF ReceiveEdit, netVars
<1>3. CASE mem.link # "token"
  BY <1>1, <1>3, ClosedInv DEF ReceiveEdit, Selecting, Phase
<1>4. QED BY <1>2, <1>3

-----------------------------------------------------------------------------
(* Frames down.                                                            *)

(* What any frame received leaves behind it.                               *)
LEMMA ReceiveInv ==
    ASSUME IInv, NEW type, Receive(type)
    PROVE  /\ Head(toNode) \in DownMsg /\ Head(toNode).ver \in Nat
           /\ Head(toNode).ver <= Version /\ job.ver = 0
           /\ Head(toNode).type = "accepted" => mem.ver <= Head(toNode).ver
           /\ toNode' \in Seq(DownMsg) /\ Below(toNode', Version) /\ AcksInOrder(toNode')
           /\ AcksAbove(toNode', mem.ver) /\ AcksAbove(toNode', job.ver)
           /\ AcksAbove(toNode', Head(toNode).ver)
<1>1. /\ toNode \in Seq(DownMsg) /\ toNode # <<>> /\ toNode' = Tail(toNode)
      /\ job.ver = 0 /\ Version \in Nat /\ mem.ver \in Nat /\ job.ver \in Nat
      /\ Below(toNode, Version) /\ AcksInOrder(toNode)
      /\ AcksAbove(toNode, mem.ver) /\ AcksAbove(toNode, job.ver)
  BY DEF IInv, TypeOK, VersionsMinted, VersionsOrdered, Receive, Version, Stored, Job
<1>2. \A v \in Nat : AcksAbove(toNode, v) =>
          /\ Head(toNode) \in DownMsg /\ Head(toNode).ver <= Version
          /\ Head(toNode).type = "accepted" => v <= Head(toNode).ver
          /\ Tail(toNode) \in Seq(DownMsg) /\ Below(Tail(toNode), Version)
          /\ AcksInOrder(Tail(toNode)) /\ AcksAbove(Tail(toNode), v)
          /\ AcksAbove(Tail(toNode), Head(toNode).ver)
  BY <1>1, TailOrdered
<1>3. Head(toNode).ver \in Nat
  BY <1>1, <1>2 DEF DownMsg
<1>4. QED BY <1>1, <1>2, <1>3
(* The channels and the ledger after a frame came off the way down, when   *)
(* the stored version moved to at most v, the version of the frame or of   *)
(* the push being worked on.                                               *)
LEMMA ReceivedInv ==
    ASSUME IInv, parted' \in BOOLEAN, NEW v \in Nat, v <= Version,
           toServer' = toServer, online' = online, minted' = minted,
           toNode' \in Seq(DownMsg), Below(toNode', Version), AcksInOrder(toNode'),
           AcksAbove(toNode', v), AcksAbove(toNode', job'.ver),
           mem' \in Stored, disk' \in Stored, disk'.ver <= mem'.ver, mem'.ver <= v,
           bumps' \in Nat, unseen' \in BOOLEAN, report' \in ReportState, phase' \in Phase,
           job' \in Job, budget' \in [Moves -> Nat], job'.ver <= Version,
           job'.ver # 0 => mem'.ver < job'.ver /\ phase' \in {"session", "pulling"}
    PROVE  IInv'
<1>1. Version' = Version /\ Version \in Nat /\ mem'.ver \in Nat /\ mem'.ver <= Version
  BY DEF IInv, TypeOK, Version, Stored
<1>2. \A i \in 1..Len(toNode') : toNode'[i].ver \in Nat
  <2>1. \A i \in 1..Len(toNode') : toNode'[i] \in DownMsg
    BY ElementOfSeq
  <2>2. QED BY <2>1 DEF DownMsg
<1>3. AcksAbove(toNode', mem'.ver)
  BY <1>1, <1>2 DEF AcksAbove
<1>4. TypeOK'
  BY DEF IInv, TypeOK
<1>5. VersionsMinted' /\ VersionsOrdered'
  BY <1>1, <1>3 DEF IInv, VersionsMinted, VersionsOrdered
<1>6. QED BY <1>4, <1>5 DEF IInv

(* A push is begun only when it is newer than what runs.                   *)
LEMMA BeginPushInv ==
    ASSUME IInv, parted' \in BOOLEAN, BeginPush
    PROVE  IInv'
<1>. DEFINE v == Head(toNode).ver
<1>1. /\ v \in Nat /\ v <= Version /\ toNode' \in Seq(DownMsg) /\ job.ver = 0
      /\ Below(toNode', Version) /\ AcksInOrder(toNode') /\ AcksAbove(toNode', mem.ver)
      /\ AcksAbove(toNode', job.ver) /\ AcksAbove(toNode', v)
  BY ReceiveInv DEF BeginPush
<1>2. /\ mem \in Stored /\ disk \in Stored /\ mem.ver \in Nat /\ disk.ver <= mem.ver
      /\ mem.ver <= Version /\ job \in Job /\ phase \in Phase
      /\ bumps \in Nat /\ unseen \in BOOLEAN /\ report \in ReportState
      /\ budget \in [Moves -> Nat]
  BY DEF IInv, TypeOK, VersionsMinted, Stored
<1>3. \/ job' = job /\ phase' \in {phase, "idle"}
      \/ /\ phase' = phase /\ phase \in {"session", "pulling"} /\ mem.ver < v
         /\ job' \in Job /\ job'.ver = v
  <2>1. CASE DecidePush(v, minted[v], mem) = "Stale"
    BY <2>1 DEF BeginPush
  <2>2. CASE DecidePush(v, minted[v], mem) # "Stale"
    <3>1. mem.ver < v
      BY <1>1, <1>2, <2>2 DEF DecidePush
    <3>2. QED BY <1>1, <2>2, <3>1 DEF BeginPush, Job, Selecting
  <2>3. QED BY <2>1, <2>2
<1>4. /\ job' \in Job /\ phase' \in Phase /\ job'.ver <= Version
      /\ AcksAbove(toNode', job'.ver)
      /\ job'.ver # 0 => mem.ver < job'.ver /\ phase' \in {"session", "pulling"}
  <2>1. CASE job' = job /\ phase' \in {phase, "idle"}
    BY <1>1, <1>2, <2>1 DEF IInv, VersionsMinted, Phase
  <2>2. CASE /\ phase' = phase /\ phase \in {"session", "pulling"} /\ mem.ver < v
             /\ job' \in Job /\ job'.ver = v
    BY <1>1, <1>2, <2>2
  <2>3. QED BY <1>3, <2>1, <2>2
<1>5. /\ mem' = mem /\ disk' = disk /\ bumps' = bumps /\ unseen' = unseen
      /\ report' = report /\ budget' = budget
      /\ toServer' = toServer /\ online' = online /\ minted' = minted
  BY DEF BeginPush
<1>6. QED BY <1>1, <1>2, <1>4, <1>5, ReceivedInv

(* And finished before anything else is read.                              *)
LEMMA FinishPushInv ==
    ASSUME IInv, parted' \in BOOLEAN, FinishPush
    PROVE  IInv'
<1>1. /\ job.ver \in Nat /\ job.ver # 0 /\ job.ver <= Version /\ mem.ver < job.ver
      /\ mem.ver \in Nat /\ toNode \in Seq(DownMsg) /\ Below(toNode, Version)
      /\ AcksInOrder(toNode) /\ AcksAbove(toNode, job.ver)
      /\ bumps \in Nat /\ unseen \in BOOLEAN /\ report \in ReportState /\ phase \in Phase
  BY DEF IInv, TypeOK, VersionsMinted, VersionsOrdered, Stored, Job, FinishPush
<1>2. /\ mem' \in Stored /\ disk' \in Stored /\ budget' \in [Moves -> Nat]
      /\ disk'.ver <= mem'.ver /\ mem'.ver <= job.ver
  BY <1>1, PersistVersionInv, ApplyPushedInv DEF FinishPush
<1>3. job' \in Job /\ job'.ver = 0 /\ job'.ver <= Version /\ phase' \in Phase
  BY <1>1 DEF FinishPush, NoJob, Job, Phase, IInv, TypeOK, Version
<1>4. AcksAbove(toNode, 0)
  <2>1. \A i \in 1..Len(toNode) : toNode[i] \in DownMsg
    BY <1>1, ElementOfSeq
  <2>2. QED BY <2>1 DEF AcksAbove, DownMsg
<1>5. /\ bumps' = bumps /\ unseen' = unseen /\ report' = report /\ toNode' = toNode
      /\ toServer' = toServer /\ online' = online /\ minted' = minted
  BY DEF FinishPush, netVars
<1>6. QED BY <1>1, <1>2, <1>3, <1>4, <1>5, ReceivedInv

(* An acknowledgement is newer than what runs, and than what follows it is *)
(* not older.                                                              *)
LEMMA ReceiveAcceptedInv ==
    ASSUME IInv, parted' \in BOOLEAN, ReceiveAccepted
    PROVE  IInv'
<1>. DEFINE v == Head(toNode).ver
<1>1. /\ v \in Nat /\ v <= Version /\ toNode' \in Seq(DownMsg) /\ job.ver = 0
      /\ Below(toNode', Version) /\ AcksInOrder(toNode')
      /\ AcksAbove(toNode', job.ver) /\ AcksAbove(toNode', v) /\ mem.ver <= v
  BY ReceiveInv DEF ReceiveAccepted, Receive
<1>2. /\ mem' \in Stored /\ disk' \in Stored /\ budget' \in [Moves -> Nat]
      /\ disk'.ver <= mem'.ver /\ mem'.ver <= v
  BY <1>1, PersistVersionInv DEF ReceiveAccepted
<1>3. bumps \in Nat /\ unseen \in BOOLEAN /\ report' \in ReportState /\ phase' \in Phase
      /\ job \in Job /\ job.ver <= Version
  BY ReportTypes DEF IInv, TypeOK, VersionsMinted, ReceiveAccepted, Phase
<1>4. /\ bumps' = bumps /\ unseen' = unseen /\ job' = job
      /\ toServer' = toServer /\ online' = online /\ minted' = minted
  BY DEF ReceiveAccepted
<1>5. QED BY <1>1, <1>2, <1>3, <1>4, ReceivedInv

(* A frame that says nothing.                                              *)
LEMMA ReceiveNothingInv ==
    ASSUME IInv, parted' \in BOOLEAN, ReceiveNothing
    PROVE  IInv'
<1>1. /\ toNode' \in Seq(DownMsg) /\ job.ver = 0 /\ Below(toNode', Version)
      /\ AcksInOrder(toNode') /\ AcksAbove(toNode', job.ver) /\ AcksAbove(toNode', mem.ver)
  BY ReceiveInv DEF ReceiveNothing
<1>2. /\ mem \in Stored /\ disk \in Stored /\ mem.ver \in Nat /\ disk.ver <= mem.ver
      /\ mem.ver <= Version /\ job \in Job /\ job.ver <= Version
      /\ bumps \in Nat /\ unseen \in BOOLEAN /\ report \in ReportState
      /\ budget \in [Moves -> Nat] /\ phase' \in Phase
  BY DEF IInv, TypeOK, VersionsMinted, Stored, ReceiveNothing, Phase
<1>3. /\ mem' = mem /\ disk' = disk /\ bumps' = bumps /\ unseen' = unseen
      /\ report' = report /\ job' = job /\ budget' = budget
      /\ toServer' = toServer /\ online' = online /\ minted' = minted
  BY DEF ReceiveNothing
<1>4. QED BY <1>1, <1>2, <1>3, ReceivedInv

-----------------------------------------------------------------------------
(* The website's steps.                                                    *)

(* A reply from a ledger that mints at most one config: what it carries is *)
(* minted, and an acknowledgement carries the newest.                      *)
LEMMA MintServes ==
    ASSUME IInv, NEW c \in Config, Mint(c)
    PROVE  /\ minted' \in Seq(Config \ Refused) /\ Version <= Version'
           /\ \E e \in DownMsg : /\ toNode' = Append(toNode, e)
                                 /\ e.ver <= Version'
                                 /\ e.type = "accepted" => e.ver = Version'
<1>1. minted \in Seq(Config \ Refused) /\ Version \in Nat
  BY DEF IInv, TypeOK, Version
<1>2. CASE c \in Refused
  <2>1. [type |-> "error", ver |-> 0] \in DownMsg
    BY DEF DownMsg
  <2>2. minted' = minted /\ toNode' = Append(toNode, [type |-> "error", ver |-> 0])
    BY <1>2 DEF Mint, Reply
  <2>3. QED BY <1>1, <2>1, <2>2 DEF Version
<1>3. CASE c \notin Refused
  <2>1. [type |-> "accepted", ver |-> Version + 1] \in DownMsg
    BY <1>1 DEF DownMsg
  <2>2. /\ minted' = Append(minted, c)
        /\ toNode' = Append(toNode, [type |-> "accepted", ver |-> Version + 1])
    BY <1>3 DEF Mint, Reply
  <2>3. minted' \in Seq(Config \ Refused) /\ Version' = Version + 1
    BY <1>1, <1>3, <2>2 DEF Version
  <2>4. QED BY <1>1, <2>1, <2>2, <2>3
<1>4. QED BY <1>2, <1>3
(* What a frame handled leaves on the way up.                              *)
LEMMA HandleInv ==
    ASSUME IInv, NEW type, Handle(type)
    PROVE  /\ Head(toServer) \in UpMsg /\ Head(toServer).cfg \in Config
           /\ toServer' \in Seq(UpMsg) /\ Below(toServer', Version)
<1>1. /\ toServer \in Seq(UpMsg) /\ toServer # <<>> /\ toServer' = Tail(toServer)
      /\ Version \in Nat /\ Below(toServer, Version)
  BY DEF IInv, TypeOK, VersionsMinted, Handle, Version
<1>2. Head(toServer) \in UpMsg /\ toServer' \in Seq(UpMsg) /\ Below(toServer', Version)
  BY <1>1, UpBelow
<1>3. QED BY <1>2 DEF UpMsg

(* The website answers.                                                    *)
LEMMA ServerInv ==
    ASSUME IInv, parted' \in BOOLEAN, Server
    PROVE  IInv'
<1>1. /\ Version \in Nat /\ minted \in Seq(Config \ Refused) /\ online \in BOOLEAN
      /\ budget \in [Moves -> Nat]
  BY DEF IInv, TypeOK, Version
<1>2. /\ [type |-> "push", ver |-> Version] \in DownMsg
      /\ [type |-> "unmodified", ver |-> 0] \in DownMsg
  BY <1>1 DEF DownMsg
<1>3. /\ UNCHANGED <<mem, disk, bumps, unseen, nodeVars>> /\ budget' = budget
      /\ online' \in BOOLEAN /\ toServer' \in Seq(UpMsg) /\ Below(toServer', Version)
      /\ Head(toServer).cfg \in Config
  BY <1>1, HandleInv DEF Server, ServerHello, ServerReport, ServerGet
<1>4. \/ Mint(Head(toServer).cfg)
      \/ UNCHANGED minted /\ (UNCHANGED toNode \/ Reply("push", Version))
      \/ UNCHANGED minted /\ Reply("unmodified", 0)
  BY DEF Server, ServerHello, ServerReport, ServerGet
<1>5. CASE Mint(Head(toServer).cfg)
  BY <1>1, <1>3, <1>5, MintServes, ServesInv
<1>6. CASE UNCHANGED minted /\ UNCHANGED toNode
  BY <1>1, <1>3, <1>6, ServesInv DEF Version
<1>7. CASE UNCHANGED minted /\ Reply("push", Version)
  <2>1. /\ minted' = minted /\ Version' = Version
        /\ toNode' = Append(toNode, [type |-> "push", ver |-> Version])
    BY <1>7 DEF Reply, Version
  <2>2. QED BY <1>1, <1>2, <1>3, <2>1, ServesInv
<1>8. CASE UNCHANGED minted /\ Reply("unmodified", 0)
  <2>1. /\ minted' = minted /\ Version' = Version
        /\ toNode' = Append(toNode, [type |-> "unmodified", ver |-> 0])
    BY <1>8 DEF Reply, Version
  <2>2. QED BY <1>1, <1>2, <1>3, <2>1, ServesInv
<1>9. QED BY <1>4, <1>5, <1>6, <1>7, <1>8

(* The website is edited.                                                  *)
LEMMA WebEditInv ==
    ASSUME IInv, parted' \in BOOLEAN, NEW c \in Config \ Refused, WebEdit(c)
    PROVE  IInv'
<1>1. /\ Version \in Nat /\ minted \in Seq(Config \ Refused) /\ online \in BOOLEAN
      /\ toServer \in Seq(UpMsg) /\ Below(toServer, Version)
  BY DEF IInv, TypeOK, VersionsMinted, Version
<1>2. minted' = Append(minted, c) /\ budget' \in [Moves -> Nat]
  BY SpendType DEF WebEdit, IInv
<1>3. minted' \in Seq(Config \ Refused) /\ Version' = Version + 1
  BY <1>1, <1>2 DEF Version
<1>4. [type |-> "push", ver |-> Version + 1] \in DownMsg
  BY <1>1 DEF DownMsg
<1>5. /\ UNCHANGED <<mem, disk, bumps, unseen, nodeVars>>
      /\ toServer' = toServer /\ online' = online
      /\ \/ toNode' = toNode
         \/ toNode' = Append(toNode, [type |-> "push", ver |-> Version + 1])
  BY DEF WebEdit, Reply
<1>6. \/ toNode' = toNode
      \/ \E e \in DownMsg : /\ toNode' = Append(toNode, e)
                            /\ e.ver <= Version'
                            /\ e.type = "accepted" => e.ver = Version'
  BY <1>1, <1>3, <1>4, <1>5
<1>7. QED BY <1>1, <1>2, <1>3, <1>5, <1>6, ServesInv

-----------------------------------------------------------------------------
(* The theorems.                                                           *)

(* The history of the agreement is a flag.                                 *)
LEMMA PartedFlag == IInv /\ [Next]_vars => parted' \in BOOLEAN
<1>. SUFFICES ASSUME IInv, [Next]_vars PROVE parted' \in BOOLEAN
  OBVIOUS
<1>1. parted \in BOOLEAN
  BY DEF IInv, TypeOK
<1>2. CASE FinishPush
  BY <1>1, <1>2, Zenon DEF FinishPush
<1>3. CASE WakeUp \/ Restart
  BY <1>3, Zenon DEF WakeUp, Restart
<1>4. CASE SendReport \/ PostReport
  BY <1>4, Zenon DEF SendReport, PostReport
<1>5. CASE parted' = parted
  BY <1>1, <1>5
<1>6. QED
  BY <1>2, <1>3, <1>4, <1>5, Zenon
  DEF Next, SyncTask, Poll, Server, vars, FindNoToken, LatchLocalEdit, BeginPush,
      ReceiveAccepted, ReceiveNothing, ReceiveEdit, PullConfig, Connect, ConnectFails,
      SkipPoll, Bump, ServerHello, ServerReport, ServerGet, PutConfig, WebEdit, Drop, PollFails

(* Every step preserves the invariant.                                     *)
LEMMA NextInv == IInv /\ [Next]_vars => IInv'
<1>. SUFFICES ASSUME IInv, [Next]_vars PROVE IInv'
  OBVIOUS
<1>. parted' \in BOOLEAN
  BY PartedFlag
<1>1. CASE SyncTask
  BY <1>1, LocalInv, SendingInv, BeginPushInv, FinishPushInv, ReceiveAcceptedInv,
     ReceiveNothingInv, ReceiveEditInv DEF SyncTask
<1>2. CASE Poll \/ Connect
  BY <1>2, SendingInv DEF Poll
<1>3. CASE Server
  BY <1>3, ServerInv
<1>4. CASE ConnectFails \/ SkipPoll \/ Bump
  BY <1>4, LocalInv
<1>5. CASE \E c \in Config, l \in Link : PutConfig(c, l)
  BY <1>5, PutConfigInv
<1>6. CASE \E c \in Config \ Refused : WebEdit(c)
  BY <1>6, WebEditInv
<1>7. CASE Drop \/ PollFails \/ Restart
  BY <1>7, LosingInv
<1>8. CASE UNCHANGED vars
  BY <1>8 DEF vars, IInv, TypeOK, VersionsMinted, VersionsOrdered, Version, Below,
              AcksAbove, AcksInOrder
<1>9. QED BY <1>1, <1>2, <1>3, <1>4, <1>5, <1>6, <1>7, <1>8 DEF Next

(* The inductive invariant holds of every reachable state.                 *)
THEOREM Invariance == Spec => []IInv
BY InitInv, NextInv, PTL DEF Spec

(* Every reachable state is typed; in particular a push is only ever       *)
(* applied with a content the website has minted for it.                   *)
THEOREM TypeCorrect == Spec => []TypeOK
<1>1. IInv => TypeOK
  BY DEF IInv
<1>2. QED BY <1>1, Invariance, PTL

(* The node never runs, stores, records or reports a version the website   *)
(* did not mint: persist_config_version, apply_config and a reload of the  *)
(* file only ever copy one it was handed.                                  *)
THEOREM OnlyMintedVersions == Spec => []VersionsMinted
<1>1. IInv => VersionsMinted
  BY DEF IInv
<1>2. QED BY <1>1, Invariance, PTL

(* record_version never takes the node back: no acknowledgement that can   *)
(* still arrive is below the running version, nor is a push being worked   *)
(* on.                                                                     *)
THEOREM AcknowledgementsAreNewer == Spec => []VersionsOrdered
<1>1. IInv => VersionsOrdered
  BY DEF IInv
<1>2. QED BY <1>1, Invariance, PTL
-----------------------------------------------------------------------------
(* The refinement: each step of the protocol is a step of the abstract     *)
(* contract on the version, or leaves it alone.                            *)

(* The ledger's initial states.                                            *)
LEMMA LedgerInit == Init => Ledger!Init
<1>. SUFFICES ASSUME Init PROVE Ledger!Init
  OBVIOUS
<1>1. PICK setup \in Setups : InitConfig(setup.start)
  BY DEF Init
<1>2. PICK c \in Config, s \in Config \ Refused :
        /\ minted = IF setup.start = "new" THEN <<>> ELSE <<s>>
        /\ mem = [ver |-> IF setup.start = "synced" THEN 1 ELSE 0,
                  cfg |-> c, link |-> "token"]
  BY <1>1 DEF InitConfig
<1>3. disk.ver = mem.ver /\ mem.ver \in 0..Len(minted)
  BY <1>2 DEF Init
<1>4. minted \in {<<>>} \cup {<<d>> : d \in Config}
  BY <1>2
<1>5. QED BY <1>3, <1>4 DEF Ledger!Init

(* A local edit is saved with the version it carries over, or forgets it.  *)
LEMMA PutConfigLedger ==
    ASSUME IInv, NEW c \in Config, NEW l \in Link, PutConfig(c, l)
    PROVE  Ledger!Save \/ Ledger!Forget
<1>1. minted' = minted /\ disk'.ver = mem'.ver /\ mem'.ver = IF l = "none" THEN 0 ELSE mem.ver
  BY DEF PutConfig
<1>2. CASE l = "none"
  BY <1>1, <1>2 DEF Ledger!Forget
<1>3. CASE l # "none"
  BY <1>1, <1>3 DEF Ledger!Save
<1>4. QED BY <1>2, <1>3

(* A push or an acknowledgement moves the version to a later minted one.   *)
LEMMA RecordLedger ==
    ASSUME IInv, ReceiveAccepted \/ FinishPush
    PROVE  Ledger!Record \/ UNCHANGED <<minted, mem.ver, disk.ver>>
<1>1. /\ mem \in Stored /\ mem.ver \in Nat /\ Version \in Nat /\ job \in Job /\ job.ver \in Nat
      /\ Version = Len(minted)
  BY DEF IInv, TypeOK, Stored, Job, Version
<1>2. minted' = minted
  BY DEF ReceiveAccepted, FinishPush
<1>3. ASSUME NEW v \in Nat, v <= Version, mem.ver <= v, PersistVersion(v)
      PROVE  Ledger!Record \/ UNCHANGED <<minted, mem.ver, disk.ver>>
  <2>1. CASE UNCHANGED <<mem, disk, budget>>
    BY <1>2, <2>1
  <2>2. CASE mem.ver # v /\ mem' = [mem EXCEPT !.ver = v] /\ (disk' = mem' \/ UNCHANGED disk)
    <3>1. mem'.ver = v /\ mem'.ver \in (mem.ver + 1)..Len(minted)
      BY <1>1, <1>3, <2>2 DEF Stored
    <3>2. disk'.ver \in {disk.ver, mem'.ver}
      BY <2>2
    <3>3. QED BY <1>2, <3>1, <3>2 DEF Ledger!Record
  <2>3. QED BY <1>3, <2>1, <2>2 DEF PersistVersion
<1>4. CASE ReceiveAccepted
  <2>1. /\ Head(toNode).ver \in Nat /\ Head(toNode).ver <= Version
        /\ mem.ver <= Head(toNode).ver
    BY <1>4, ReceiveInv DEF ReceiveAccepted, Receive
  <2>2. PersistVersion(Head(toNode).ver)
    BY <1>4 DEF ReceiveAccepted
  <2>3. QED BY <1>3, <2>1, <2>2
<1>5. CASE FinishPush
  <2>1. job.ver # 0 /\ mem.ver < job.ver /\ job.ver <= Version
    BY <1>5 DEF FinishPush, IInv, VersionsMinted, VersionsOrdered
  <2>2. CASE PersistVersion(job.ver)
    BY <1>1, <1>3, <2>1, <2>2
  <2>3. CASE ApplyPushed(job.ver)
    <3>1. CASE mem'.ver = job.ver /\ disk' = mem'
      BY <1>1, <1>2, <2>1, <3>1 DEF Ledger!Record
    <3>2. CASE UNCHANGED <<mem, disk>>
      BY <1>2, <3>2
    <3>3. QED BY <2>3, <3>1, <3>2 DEF ApplyPushed
  <2>4. QED BY <1>5, <2>2, <2>3 DEF FinishPush
<1>6. QED BY <1>4, <1>5

(* The website appends to its ledger, a config it was sent or one of its   *)
(* own.                                                                    *)
LEMMA MintLedger ==
    ASSUME IInv, Server \/ \E c \in Config \ Refused : WebEdit(c)
    PROVE  Ledger!Mint \/ UNCHANGED <<minted, mem.ver, disk.ver>>
<1>1. mem' = mem /\ disk' = disk
  BY DEF Server, ServerHello, ServerReport, ServerGet, WebEdit
<1>2. minted' = minted \/ \E c \in Config : minted' = Append(minted, c)
  <2>1. CASE Server
    <3>1. Head(toServer).cfg \in Config
      BY <2>1, HandleInv DEF Server, ServerHello, ServerReport, ServerGet
    <3>2. minted' = minted \/ Mint(Head(toServer).cfg)
      BY <2>1 DEF Server, ServerHello, ServerReport, ServerGet
    <3>3. QED BY <3>1, <3>2 DEF Mint
  <2>2. CASE \E c \in Config \ Refused : WebEdit(c)
    BY <2>2 DEF WebEdit
  <2>3. QED BY <2>1, <2>2
<1>3. QED BY <1>1, <1>2 DEF Ledger!Mint

(* Every step is a step of the ledger, or leaves it alone.                 *)
LEMMA LedgerStep == IInv /\ [Next]_vars => [Ledger!Next]_(Ledger!ledgerVars)
<1>. SUFFICES ASSUME IInv, [Next]_vars
              PROVE  Ledger!Next \/ UNCHANGED <<minted, mem.ver, disk.ver>>
  BY DEF Ledger!ledgerVars
<1>. USE DEF Ledger!Next
<1>1. CASE ReceiveAccepted \/ FinishPush
  BY <1>1, RecordLedger
<1>2. CASE Server \/ \E c \in Config \ Refused : WebEdit(c)
  BY <1>2, MintLedger
<1>3. CASE \E c \in Config, l \in Link : PutConfig(c, l)
  BY <1>3, PutConfigLedger
<1>4. CASE Restart
  BY <1>4 DEF Restart, Ledger!Reload
<1>5. CASE \/ FindNoToken \/ WakeUp \/ LatchLocalEdit \/ SendReport \/ BeginPush
           \/ ReceiveNothing \/ ReceiveEdit
  BY <1>5 DEF FindNoToken, WakeUp, LatchLocalEdit, SendReport, BeginPush, ReceiveNothing,
              ReceiveEdit
<1>6. CASE \/ PostReport \/ PullConfig \/ Connect \/ ConnectFails \/ SkipPoll \/ Bump
           \/ Drop \/ PollFails
  BY <1>6 DEF PostReport, PullConfig, Connect, ConnectFails, SkipPoll, Bump, Drop, PollFails
<1>7. CASE UNCHANGED vars
  BY <1>7 DEF vars
<1>8. QED BY <1>1, <1>2, <1>3, <1>4, <1>5, <1>6, <1>7 DEF Next, SyncTask, Poll

(* The protocol implements the contract of the version (sync.rs's first    *)
(* invariant): the node's version only ever moves forward along the        *)
(* ledger, reaches the file by copying, and falls back only to the file's  *)
(* copy, at a restart, or to nothing, with its block.                      *)
THEOREM ImplementsLedger == Spec => LedgerSpec
<1>1. Spec => []IInv
  BY Invariance
<1>2. QED BY <1>1, LedgerInit, LedgerStep, PTL DEF Spec, LedgerSpec, Ledger!Spec

-----------------------------------------------------------------------------
(* What is in flight                                                       *)

None(q, type) == \A i \in 1..Len(q) : q[i].type # type
AtMostOne(q, type) ==
    \A i, j \in 1..Len(q) : q[i].type = type /\ q[j].type = type => i = j

-----------------------------------------------------------------------------
(* Frames of a kind on a channel                                           *)

(* There is none on an empty channel.                                      *)
LEMMA EmptyNone == Len(<<>>) = 0 /\ \A t : None(<<>>, t) /\ AtMostOne(<<>>, t)
<1>1. Len(<<>>) = 0
  OBVIOUS
<1>2. 1..Len(<<>>) = {}
  BY <1>1
<1>3. QED BY <1>1, <1>2, Zenon DEF None, AtMostOne

(* The head leaves.                                                        *)
LEMMA TailOf ==
    ASSUME NEW S, NEW q \in Seq(S), q # <<>>
    PROVE  /\ Head(q) = q[1] /\ Len(q) \in Nat /\ Len(q) > 0 /\ Len(Tail(q)) = Len(q) - 1
           /\ \A i \in 1..Len(Tail(q)) : i + 1 \in 1..Len(q) /\ Tail(q)[i] = q[i + 1]
           /\ \A t : None(q, t) <=> Head(q).type # t /\ None(Tail(q), t)
           /\ \A t : AtMostOne(q, t) =>
                  AtMostOne(Tail(q), t) /\ (Head(q).type = t => None(Tail(q), t))
<1>. DEFINE r == Tail(q)
<1>1. /\ Head(q) = q[1] /\ Len(q) \in Nat /\ Len(q) > 0 /\ Len(r) = Len(q) - 1
      /\ \A i \in 1..Len(r) : i + 1 \in 1..Len(q) /\ r[i] = q[i + 1]
  OBVIOUS
<1>. HIDE DEF r
<1>2. \A i \in 1..Len(q) : i = 1 \/ (i - 1 \in 1..Len(r) /\ q[i] = r[i - 1])
  BY <1>1
<1>3. 1 \in 1..Len(q)
  BY <1>1
<1>4. ASSUME NEW t PROVE None(q, t) <=> Head(q).type # t /\ None(r, t)
  BY <1>1, <1>2, <1>3 DEF None
<1>5. ASSUME NEW t, AtMostOne(q, t)
      PROVE  AtMostOne(r, t) /\ (Head(q).type = t => None(r, t))
  <2>1. ASSUME NEW i \in 1..Len(r), NEW j \in 1..Len(r), r[i].type = t, r[j].type = t
        PROVE  i = j
    <3>1. /\ i + 1 \in 1..Len(q) /\ q[i + 1].type = t
          /\ j + 1 \in 1..Len(q) /\ q[j + 1].type = t
      BY <1>1, <2>1
    <3>2. i + 1 = j + 1
      BY <1>5, <3>1 DEF AtMostOne
    <3>3. QED BY <3>2
  <2>2. ASSUME Head(q).type = t, NEW i \in 1..Len(r), r[i].type = t
        PROVE  FALSE
    <3>1. i + 1 = 1
      BY <1>1, <1>3, <1>5, <2>2 DEF AtMostOne
    <3>2. QED BY <3>1
  <2>3. QED BY <2>1, <2>2 DEF AtMostOne, None
<1>6. QED BY <1>1, <1>4, <1>5 DEF r

(* A frame joins.                                                          *)
LEMMA AppendOf ==
    ASSUME NEW S, NEW q \in Seq(S), NEW e
    PROVE  /\ Len(q) \in Nat /\ Len(Append(q, e)) = Len(q) + 1
           /\ \A i \in 1..Len(q) : Append(q, e)[i] = q[i]
           /\ Append(q, e)[Len(q) + 1] = e
           /\ \A t : None(Append(q, e), t) <=> e.type # t /\ None(q, t)
           /\ \A t : AtMostOne(q, t) /\ (e.type = t => None(q, t)) => AtMostOne(Append(q, e), t)
<1>. DEFINE a == Append(q, e)
<1>1. /\ Len(q) \in Nat /\ Len(a) = Len(q) + 1
      /\ \A i \in 1..Len(q) : a[i] = q[i]
      /\ a[Len(q) + 1] = e
  OBVIOUS
<1>. HIDE DEF a
<1>2. \A i \in 1..Len(a) : i \in 1..Len(q) \/ i = Len(q) + 1
  BY <1>1
<1>3. Len(q) + 1 \in 1..Len(a) /\ \A i \in 1..Len(q) : i \in 1..Len(a)
  BY <1>1
<1>4. ASSUME NEW t PROVE None(a, t) <=> e.type # t /\ None(q, t)
  BY <1>1, <1>2, <1>3 DEF None
<1>5. ASSUME NEW t, AtMostOne(q, t), e.type = t => None(q, t)
      PROVE  AtMostOne(a, t)
  <2>1. SUFFICES ASSUME NEW i \in 1..Len(a), NEW j \in 1..Len(a), a[i].type = t, a[j].type = t
                 PROVE  i = j
    BY DEF AtMostOne
  <2>2. CASE i \in 1..Len(q) /\ j \in 1..Len(q)
    BY <1>1, <1>5, <2>1, <2>2 DEF AtMostOne
  <2>3. CASE i = Len(q) + 1
    BY <1>1, <1>2, <1>5, <2>1, <2>3 DEF None
  <2>4. CASE j = Len(q) + 1
    BY <1>1, <1>2, <1>5, <2>1, <2>4 DEF None
  <2>5. QED BY <1>2, <2>2, <2>3, <2>4
<1>6. QED BY <1>1, <1>4, <1>5 DEF a

(* A channel with one frame on it.                                         *)
LEMMA SingleFrame ==
    ASSUME NEW e
    PROVE  Len(<<e>>) = 1 /\ <<e>>[1] = e /\ \A t : e.type # t => None(<<e>>, t)
<1>1. Len(<<e>>) = 1 /\ <<e>>[1] = e
  OBVIOUS
<1>2. QED BY <1>1 DEF None

(* At most one frame in all: with one gone there is none.                  *)
LEMMA LastFrame ==
    ASSUME NEW S, NEW T, NEW p \in Seq(S), NEW q \in Seq(T), q # <<>>, Len(p) + Len(q) <= 1
    PROVE  p = <<>> /\ Tail(q) = <<>>
<1>1. Len(p) \in Nat /\ Len(q) \in Nat /\ Len(q) > 0 /\ Tail(q) \in Seq(T)
      /\ Len(Tail(q)) = Len(q) - 1
  OBVIOUS
<1>2. Len(p) = 0 /\ Len(Tail(q)) = 0
  BY <1>1
<1>3. QED BY <1>1, <1>2

-----------------------------------------------------------------------------
(* What is in flight                                                       *)

(* The website has a config: a hello mints none, and its answer is not     *)
(* mistaken for that of a report.                                          *)
Known == Version = 0 => None(toServer, "hello") /\ budget["connect"] = 0

(* Outside a session there is one request at a time.                       *)
Requests ==
    /\ phase \notin {"posting", "pulling", "session"} => toServer = <<>> /\ toNode = <<>>
    /\ phase \in {"posting", "pulling"} => Len(toServer) + Len(toNode) <= 1
    /\ phase = "pulling" =>
           /\ None(toServer, "report") /\ None(toNode, "accepted")
           /\ job.ver # 0 => toServer = <<>> /\ toNode = <<>>

(* In a session awaiting_ack counts the reports under way.                 *)
Session ==
    phase = "session" =>
        /\ ~report.awaiting => None(toServer, "report") /\ None(toNode, "accepted")
        /\ \/ None(toServer, "report") /\ AtMostOne(toNode, "accepted")
           \/ AtMostOne(toServer, "report") /\ None(toNode, "accepted")
        /\ report.awaiting /\ Refused = {} =>
               ~None(toServer, "report") \/ ~None(toNode, "accepted")

Chan == Known /\ Requests /\ Session

(* Only a website that has a config is dialled by a session.               *)
SiteHasConfig ==
    \A setup \in Setups : setup.start = "new" => setup.budget["connect"] = 0

(* Nothing is in flight at the start.                                      *)
LEMMA InitChan == Init /\ SiteHasConfig => Chan
<1>. SUFFICES ASSUME Init, SiteHasConfig PROVE Chan
  OBVIOUS
<1>1. PICK setup \in Setups : InitConfig(setup.start) /\ budget = setup.budget
  BY DEF Init
<1>2. PICK s : minted = IF setup.start = "new" THEN <<>> ELSE <<s>>
  BY <1>1 DEF InitConfig
<1>3. Version # 0 \/ budget["connect"] = 0
  BY <1>1, <1>2, SingleFrame DEF Version, SiteHasConfig
<1>4. QED BY <1>3, EmptyNone DEF Init, Chan, Known, Requests, Session

(* The channels are closed and the task is between sessions.               *)
LEMMA ClosedChan ==
    ASSUME CloseSocket, phase' \notin {"posting", "pulling", "session"},
           Known, UNCHANGED minted, budget'["connect"] <= budget["connect"],
           budget' \in [Moves -> Nat], budget \in [Moves -> Nat]
    PROVE  Chan'
<1>1. budget'["connect"] \in Nat /\ budget["connect"] \in Nat
  BY DEF Moves
<1>2. Version' = Version
  BY DEF Version
<1>3. QED BY <1>1, <1>2, EmptyNone DEF CloseSocket, Chan, Known, Requests, Session

(* What an environment's move does to the budgets.                         *)
LEMMA SpendMoves ==
    ASSUME TypeOK, NEW move \in Moves, Spend(move)
    PROVE  /\ budget' \in [Moves -> Nat] /\ budget \in [Moves -> Nat]
           /\ budget[move] > 0
           /\ \A m \in Moves : budget'[m] <= budget[m] /\ budget'[m] \in Nat /\ budget[m] \in Nat
<1>1. budget \in [Moves -> Nat] /\ budget[move] \in Nat /\ budget[move] > 0
  BY DEF TypeOK, Spend
<1>2. budget' = [budget EXCEPT ![move] = budget[move] - 1] /\ budget[move] - 1 \in Nat
  BY <1>1 DEF Spend
<1>3. \A m \in Moves : budget'[m] = IF m = move THEN budget[move] - 1 ELSE budget[m]
  BY <1>1, <1>2
<1>4. QED BY <1>1, <1>2, <1>3

(* A step that leaves the channels and the ledger alone.                   *)
LEMMA QuietChan ==
    ASSUME Chan, TypeOK, UNCHANGED <<netVars, minted>>,
           budget'["connect"] <= budget["connect"], budget' \in [Moves -> Nat],
           report'.awaiting = report.awaiting,
           \/ UNCHANGED <<phase, job>>
           \/ UNCHANGED phase /\ job'.ver = 0
           \/ {phase, phase'} \cap {"posting", "pulling", "session"} = {}
    PROVE  Chan'
<1>1. budget'["connect"] \in Nat /\ budget["connect"] \in Nat
  BY DEF TypeOK, Moves
<1>2. Version' = Version
  BY DEF Version
<1>3. Known'
  BY <1>1, <1>2 DEF Chan, Known, netVars
<1>4. Requests' /\ Session'
  BY DEF Chan, Requests, Session, netVars
<1>5. QED BY <1>3, <1>4 DEF Chan

(* The steps of the task and of the environment that send and receive      *)
(* nothing.                                                                *)
LEMMA SilentChan ==
    ASSUME IInv, Chan,
           \/ Bump \/ FindNoToken \/ WakeUp \/ LatchLocalEdit \/ ConnectFails \/ SkipPoll
           \/ FinishPush \/ ReceiveEdit \/ Drop \/ PollFails \/ Restart
           \/ \E c \in Config, l \in Link : PutConfig(c, l)
    PROVE  Chan'
<1>1. /\ TypeOK /\ budget \in [Moves -> Nat] /\ "connect" \in Moves
      /\ {"local", "unlink", "drop", "restart", "write"} \subseteq Moves
      /\ budget["connect"] \in Nat /\ phase \in Phase /\ report \in ReportState /\ Known
      /\ job.ver # 0 => phase \in {"session", "pulling"}
  BY DEF IInv, TypeOK, VersionsOrdered, Chan, Moves
<1>2. budget["connect"] <= budget["connect"]
  BY <1>1
<1>3. MarkEdit(report).awaiting = report.awaiting
  BY <1>1 DEF MarkEdit, ReportState
<1>4. CASE Bump
  BY <1>1, <1>2, <1>4, QuietChan DEF Bump, nodeVars
<1>5. CASE FindNoToken \/ WakeUp \/ LatchLocalEdit \/ ConnectFails \/ SkipPoll
  BY <1>1, <1>2, <1>3, <1>5, QuietChan
  DEF FindNoToken, WakeUp, LatchLocalEdit, ConnectFails, SkipPoll
<1>6. CASE \E c \in Config, l \in Link : PutConfig(c, l)
  <2>1. PICK c \in Config, l \in Link : PutConfig(c, l)
    BY <1>6
  <2>2. budget' \in [Moves -> Nat] /\ budget'["connect"] <= budget["connect"]
    <3>1. Spend("local") \/ Spend("unlink")
      BY <2>1 DEF PutConfig
    <3>2. QED BY <1>1, <3>1, SpendMoves
  <2>3. QED BY <1>1, <2>1, <2>2, QuietChan DEF PutConfig, nodeVars
<1>7. CASE FinishPush
  <2>1. /\ UNCHANGED <<report, netVars, minted>> /\ job'.ver = 0
        /\ phase' = IF phase = "pulling" THEN "idle" ELSE phase
    BY <1>7 DEF FinishPush, NoJob
  <2>2. budget' \in [Moves -> Nat] /\ budget'["connect"] <= budget["connect"]
    <3>1. UNCHANGED budget \/ Spend("write")
      BY <1>7 DEF FinishPush, PersistVersion, ApplyPushed
    <3>2. QED BY <1>1, <1>2, <3>1, SpendMoves
  <2>3. CASE phase = "pulling"
    <3>1. toServer = <<>> /\ toNode = <<>> /\ phase' = "idle"
      BY <1>7, <2>1, <2>3 DEF Chan, Requests, FinishPush
    <3>2. Known'
      BY <1>1, <2>1, <2>2 DEF Known, netVars, Version
    <3>3. Requests' /\ Session'
      BY <2>1, <3>1 DEF Requests, Session, netVars
    <3>4. QED BY <3>2, <3>3 DEF Chan
  <2>4. CASE phase # "pulling"
    BY <1>1, <2>1, <2>2, <2>4, QuietChan
  <2>5. QED BY <2>3, <2>4
<1>8. CASE ReceiveEdit
  <2>1. CASE mem.link = "token"
    BY <1>1, <1>2, <1>3, <1>8, <2>1, QuietChan DEF ReceiveEdit
  <2>2. CASE mem.link # "token"
    BY <1>1, <1>2, <1>8, <2>2, ClosedChan DEF ReceiveEdit
  <2>3. QED BY <2>1, <2>2
<1>9. CASE Drop \/ PollFails
  <2>1. budget' \in [Moves -> Nat] /\ budget'["connect"] <= budget["connect"]
    BY <1>1, <1>9, SpendMoves DEF Drop, PollFails
  <2>2. QED BY <1>1, <1>9, <2>1, ClosedChan DEF Drop, PollFails
<1>10. CASE Restart
  <2>1. budget' \in [Moves -> Nat] /\ budget'["connect"] <= budget["connect"]
    BY <1>1, <1>10, SpendMoves DEF Restart
  <2>2. QED BY <1>1, <1>10, <2>1, ClosedChan DEF Restart
<1>11. QED BY <1>4, <1>5, <1>6, <1>7, <1>8, <1>9, <1>10

(* The node sends.                                                         *)
LEMMA SendingChan ==
    ASSUME IInv, Chan, Connect \/ SendReport \/ PostReport \/ PullConfig
    PROVE  Chan'
<1>1. /\ TypeOK /\ budget \in [Moves -> Nat] /\ toServer \in Seq(UpMsg)
      /\ toNode \in Seq(DownMsg) /\ report \in ReportState
      /\ job.ver # 0 => phase \in {"session", "pulling"}
  BY DEF IInv, TypeOK, VersionsOrdered
<1>2. Version' = Version /\ minted' = minted
  BY DEF Connect, SendReport, PostReport, PullConfig, Version
<1>3. CASE Connect
  <2>. DEFINE e == [type |-> "hello", ver |-> mem.ver, cfg |-> mem.cfg]
  <2>1. /\ toServer' = <<e>> /\ toNode' = <<>> /\ phase' = "session"
        /\ report'.awaiting = FALSE /\ e.type = "hello"
    BY <1>3 DEF Connect, NewSession
  <2>. HIDE DEF e
  <2>2. budget["connect"] > 0 /\ budget["connect"] \in Nat
    BY <1>1, <1>3, SpendMoves DEF Connect, Moves
  <2>3. Known'
    BY <1>2, <2>2 DEF Chan, Known
  <2>4. Session'
    BY <2>1, SingleFrame, EmptyNone DEF Session
  <2>5. QED BY <2>1, <2>3, <2>4 DEF Chan, Requests
<1>4. CASE SendReport
  <2>1. /\ toServer' = Append(toServer, ReportBody) /\ ReportBody.type = "report"
        /\ UNCHANGED <<phase, job, toNode, budget>> /\ phase = "session"
        /\ report.awaiting = FALSE /\ report'.awaiting = TRUE
    BY <1>1, <1>4 DEF SendReport, ReportBody, ReportState
  <2>2. None(toServer, "report") /\ None(toNode, "accepted")
    BY <2>1 DEF Chan, Session
  <2>3. /\ ~None(toServer', "report")
        /\ None(toServer, "hello") => None(toServer', "hello")
    BY <1>1, <2>1, AppendOf
  <2>4. AtMostOne(toServer', "report")
    BY <1>1, <2>1, <2>2, AppendOf DEF None, AtMostOne
  <2>5. Known' /\ Requests' /\ Session'
    BY <1>2, <2>1, <2>2, <2>3, <2>4 DEF Chan, Known, Requests, Session
  <2>6. QED BY <2>5 DEF Chan
<1>5. CASE PostReport \/ PullConfig
  <2>1. PICK e \in {ReportBody, [type |-> "get", ver |-> mem.ver, cfg |-> mem.cfg]} :
            /\ toServer' = <<e>> /\ UNCHANGED <<toNode, job, budget>>
            /\ phase' = IF e.type = "report" THEN "posting" ELSE "pulling"
            /\ phase \in {"closed", "topull"}
    BY <1>5 DEF PostReport, PullConfig, ReportBody
  <2>2. e.type \in {"report", "get"}
    BY <2>1 DEF ReportBody
  <2>3. toNode' = <<>> /\ Len(toNode') = 0 /\ Len(toServer') = 1 /\ job'.ver = 0
    BY <1>1, <2>1, EmptyNone, SingleFrame DEF Chan, Requests
  <2>4. None(toServer', "hello") /\ (e.type # "report" => None(toServer', "report"))
    BY <2>1, <2>2, SingleFrame
  <2>5. Known'
    BY <1>2, <2>1, <2>4 DEF Chan, Known
  <2>6. Requests' /\ Session'
    BY <2>1, <2>3, <2>4, EmptyNone DEF Requests, Session
  <2>7. QED BY <2>5, <2>6 DEF Chan
<1>6. QED BY <1>3, <1>4, <1>5

(* The node receives.                                                      *)
LEMMA ReceivingChan ==
    ASSUME IInv, Chan, BeginPush \/ ReceiveAccepted \/ ReceiveNothing
    PROVE  Chan'
<1>1. /\ TypeOK /\ budget \in [Moves -> Nat] /\ toServer \in Seq(UpMsg)
      /\ toNode \in Seq(DownMsg) /\ toNode # <<>> /\ toNode' = Tail(toNode)
      /\ job.ver = 0 /\ UNCHANGED <<toServer, minted>> /\ Version' = Version
      /\ phase \in {"session", "posting", "pulling"}
  BY DEF IInv, TypeOK, BeginPush, ReceiveAccepted, ReceiveNothing, Receive, Version, Selecting
<1>2. /\ \A t : None(toNode, t) <=> Head(toNode).type # t /\ None(toNode', t)
      /\ \A t : AtMostOne(toNode, t) =>
             AtMostOne(toNode', t) /\ (Head(toNode).type = t => None(toNode', t))
  BY <1>1, TailOf
<1>3. phase # "session" => toServer = <<>> /\ toNode' = <<>>
  BY <1>1, LastFrame DEF Chan, Requests
<1>4. budget' \in [Moves -> Nat] /\ budget'["connect"] <= budget["connect"]
  <2>1. UNCHANGED budget \/ Spend("write")
    BY DEF BeginPush, ReceiveAccepted, ReceiveNothing, PersistVersion
  <2>2. budget["connect"] <= budget["connect"]
    BY <1>1 DEF Moves
  <2>3. QED BY <1>1, <2>1, <2>2, SpendMoves DEF Moves
<1>5. Known'
  <2>1. Known /\ budget["connect"] \in Nat
    BY <1>1 DEF Chan, Moves
  <2>2. toServer' = toServer /\ Version' = Version
    BY <1>1
  <2>3. budget'["connect"] \in Nat
    BY <1>4 DEF Moves
  <2>4. QED BY <1>4, <2>1, <2>2, <2>3 DEF Known
<1>6. CASE phase # "session"
  <2>1. phase' # "session"
    BY <1>1, <1>6 DEF BeginPush, ReceiveAccepted, ReceiveNothing
  <2>2. toServer' = <<>> /\ toNode' = <<>>
    BY <1>1, <1>3, <1>6
  <2>3. Requests' /\ Session'
    BY <2>1, <2>2, EmptyNone DEF Requests, Session
  <2>4. QED BY <1>5, <2>3 DEF Chan
<1>7. CASE phase = "session"
  <2>1. phase' = "session"
    BY <1>7 DEF BeginPush, ReceiveAccepted, ReceiveNothing
  <2>2. CASE BeginPush \/ ReceiveNothing
    <3>1. Head(toNode).type # "accepted" /\ report' = report
      BY <2>2 DEF BeginPush, ReceiveNothing, Receive
    <3>2. Session'
      BY <1>1, <1>2, <1>7, <3>1 DEF Chan, Session
    <3>3. QED BY <1>5, <2>1, <3>2 DEF Chan, Requests
  <2>3. CASE ReceiveAccepted
    <3>1. Head(toNode).type = "accepted" /\ report'.awaiting = FALSE
      BY <2>3 DEF ReceiveAccepted, Receive, Acked
    <3>2. None(toServer, "report") /\ None(toNode', "accepted")
      BY <1>2, <1>7, <3>1 DEF Chan, Session
    <3>3. Session'
      BY <1>1, <1>2, <1>7, <3>1, <3>2 DEF Chan, Session
    <3>4. QED BY <1>5, <2>1, <3>3 DEF Chan, Requests
  <2>4. QED BY <2>2, <2>3
<1>8. QED BY <1>6, <1>7

(* The website answers what it is sent.                                    *)
LEMMA ServerChan ==
    ASSUME IInv, Chan, Server
    PROVE  Chan'
<1>. DEFINE f == Head(toServer)
<1>1. /\ TypeOK /\ budget' = budget /\ toServer \in Seq(UpMsg) /\ toNode \in Seq(DownMsg)
      /\ toServer # <<>> /\ toServer' = Tail(toServer)
      /\ UNCHANGED nodeVars /\ Version \in Nat /\ minted \in Seq(Config \ Refused)
      /\ job.ver # 0 => phase \in {"session", "pulling"}
      /\ f.type \in {"hello", "report", "get"}
  BY DEF IInv, TypeOK, VersionsOrdered, Server, ServerHello, ServerReport, ServerGet, Handle, Version
<1>2. /\ \A t : None(toServer, t) <=> f.type # t /\ None(toServer', t)
      /\ \A t : AtMostOne(toServer, t) =>
             AtMostOne(toServer', t) /\ (f.type = t => None(toServer', t))
      /\ Len(toServer) \in Nat /\ Len(toServer) > 0 /\ Len(toServer') = Len(toServer) - 1
  BY <1>1, TailOf
<1>. HIDE DEF f
<1>3. f.type = "hello" => Version # 0
  BY <1>2 DEF Chan, Known
<1>4. \/ /\ toNode' = toNode /\ minted' = minted /\ f.type = "hello"
      \/ \E e \in DownMsg :
            /\ toNode' = Append(toNode, e)
            /\ f.type # "report" => minted' = minted /\ e.type # "accepted"
            /\ f.type = "report" /\ Refused = {} => e.type = "accepted"
            /\ minted' = minted \/ \E c : minted' = Append(minted, c)
  <2>1. CASE f.type = "report"
    <3>1. ServerReport
      BY <2>1 DEF f, Server, ServerHello, ServerGet, Handle
    <3>2. Mint(f.cfg)
      BY <3>1 DEF f, ServerReport
    <3>3. /\ [type |-> "error", ver |-> 0] \in DownMsg
          /\ [type |-> "accepted", ver |-> Version + 1] \in DownMsg
      BY <1>1 DEF DownMsg
    <3>4. QED BY <2>1, <3>2, <3>3 DEF Mint, Reply
  <2>2. CASE f.type = "hello"
    <3>1. ServerHello
      BY <2>2 DEF f, Server, ServerReport, ServerGet, Handle
    <3>2. /\ minted' = minted
          /\ toNode' = toNode \/ Reply("push", Version)
      BY <1>3, <2>2, <3>1 DEF f, ServerHello
    <3>3. [type |-> "push", ver |-> Version] \in DownMsg
      BY <1>1 DEF DownMsg
    <3>4. QED BY <2>2, <3>2, <3>3 DEF Reply
  <2>3. CASE f.type = "get"
    <3>1. ServerGet
      BY <2>3 DEF f, Server, ServerReport, ServerHello, Handle
    <3>2. /\ minted' = minted
          /\ Reply("unmodified", 0) \/ Reply("push", Version)
      BY <3>1 DEF ServerGet
    <3>3. /\ [type |-> "push", ver |-> Version] \in DownMsg
          /\ [type |-> "unmodified", ver |-> 0] \in DownMsg
      BY <1>1 DEF DownMsg
    <3>4. QED BY <2>3, <3>2, <3>3 DEF Reply
  <2>4. QED BY <1>1, <2>1, <2>2, <2>3
<1>5. Known'
  <2>1. Version' = 0 => Version = 0
    <3>1. minted \in Seq(Config) /\ (minted' = minted \/ \E c : minted' = Append(minted, c))
      BY <1>1, <1>4
    <3>2. QED BY <3>1, AppendOf DEF Version
  <2>2. QED BY <1>1, <1>2, <2>1 DEF Chan, Known
<1>6. CASE phase # "session"
  <2>1. phase \in {"posting", "pulling"} /\ Len(toServer) + Len(toNode) <= 1
    BY <1>1, <1>6 DEF Chan, Requests
  <2>2. Len(toServer') + Len(toNode') <= 1
    BY <1>1, <1>2, <1>4, <2>1, AppendOf
  <2>3. phase = "pulling" =>
            None(toServer', "report") /\ None(toNode', "accepted") /\ job.ver = 0
    <3>1. CASE toNode' = toNode
      BY <1>1, <1>2, <3>1 DEF Chan, Requests
    <3>2. CASE toNode' # toNode
      <4>1. PICK e \in DownMsg : /\ toNode' = Append(toNode, e)
                                 /\ f.type # "report" => e.type # "accepted"
        BY <1>4, <3>2
      <4>2. QED BY <1>1, <1>2, <4>1, AppendOf DEF Chan, Requests
    <3>3. QED BY <3>1, <3>2
  <2>4. Requests' /\ Session'
    BY <1>1, <1>6, <2>1, <2>2, <2>3 DEF Requests, Session, nodeVars
  <2>5. QED BY <1>5, <2>4 DEF Chan
<1>7. CASE phase = "session"
  <2>1. UNCHANGED <<phase, report, job>>
    BY <1>1 DEF nodeVars
  <2>2. CASE toNode' = toNode
    BY <1>2, <1>4, <1>5, <1>7, <2>1, <2>2 DEF Chan, Requests, Session
  <2>3. CASE toNode' # toNode
    <3>1. PICK e \in DownMsg :
            /\ toNode' = Append(toNode, e)
            /\ f.type # "report" => e.type # "accepted"
            /\ f.type = "report" /\ Refused = {} => e.type = "accepted"
      BY <1>4, <2>3
    <3>2. /\ \A t : None(toNode', t) <=> e.type # t /\ None(toNode, t)
          /\ \A t : AtMostOne(toNode, t) /\ (e.type = t => None(toNode, t)) => AtMostOne(toNode', t)
      BY <1>1, <3>1, AppendOf
    <3>3. CASE f.type = "report"
      <4>1. /\ None(toServer', "report") /\ None(toNode, "accepted") /\ report.awaiting
        BY <1>2, <1>7, <3>3 DEF Chan, Session
      <4>2. AtMostOne(toNode, "accepted")
        BY <4>1 DEF None, AtMostOne
      <4>3. Session'
        BY <1>7, <2>1, <3>1, <3>2, <3>3, <4>1, <4>2 DEF Session
      <4>4. QED BY <1>5, <1>7, <2>1, <4>3 DEF Chan, Requests
    <3>4. CASE f.type # "report"
      <4>1. /\ None(toServer', "report") <=> None(toServer, "report")
            /\ AtMostOne(toServer, "report") => AtMostOne(toServer', "report")
            /\ None(toNode', "accepted") <=> None(toNode, "accepted")
            /\ AtMostOne(toNode, "accepted") => AtMostOne(toNode', "accepted")
        BY <1>2, <3>1, <3>2, <3>4
      <4>2. Session'
        BY <1>7, <2>1, <4>1 DEF Chan, Session
      <4>3. QED BY <1>5, <1>7, <2>1, <4>2 DEF Chan, Requests
    <3>5. QED BY <3>3, <3>4
  <2>4. QED BY <2>2, <2>3
<1>8. QED BY <1>6, <1>7

(* The website is edited.                                                  *)
LEMMA WebEditChan ==
    ASSUME IInv, Chan, NEW c \in Config \ Refused, WebEdit(c)
    PROVE  Chan'
<1>1. /\ TypeOK /\ toNode \in Seq(DownMsg) /\ minted \in Seq(Config \ Refused)
      /\ UNCHANGED <<report, phase, job, toServer>> /\ minted' = Append(minted, c)
      /\ toNode' = toNode \/ (phase = "session" /\ Reply("push", Version + 1))
  BY DEF IInv, TypeOK, WebEdit, nodeVars
<1>2. Known'
  BY <1>1, AppendOf DEF Known, Version
<1>3. CASE toNode' = toNode
  BY <1>1, <1>2, <1>3 DEF Chan, Requests, Session
<1>4. CASE phase = "session" /\ Reply("push", Version + 1)
  <2>1. /\ None(toNode', "accepted") <=> None(toNode, "accepted")
        /\ AtMostOne(toNode, "accepted") => AtMostOne(toNode', "accepted")
    <3>. DEFINE e == [type |-> "push", ver |-> Version + 1]
    <3>1. toNode' = Append(toNode, e) /\ e.type # "accepted"
      BY <1>4 DEF Reply
    <3>. HIDE DEF e
    <3>2. QED BY <1>1, <3>1, AppendOf
  <2>2. QED BY <1>1, <1>2, <1>4, <2>1 DEF Chan, Requests, Session
<1>5. QED BY <1>1, <1>3, <1>4

(* Every step keeps count of what is in flight.                            *)
LEMMA ChanStep == IInv /\ Chan /\ [Next]_vars => Chan'
<1>. SUFFICES ASSUME IInv, Chan, [Next]_vars PROVE Chan'
  OBVIOUS
<1>1. CASE SyncTask
  BY <1>1, SilentChan, SendingChan, ReceivingChan DEF SyncTask
<1>2. CASE Poll \/ Connect
  BY <1>2, SendingChan DEF Poll
<1>3. CASE Server
  BY <1>3, ServerChan
<1>4. CASE \/ ConnectFails \/ SkipPoll \/ Bump \/ Drop \/ PollFails \/ Restart
           \/ \E c \in Config, l \in Link : PutConfig(c, l)
  BY <1>4, SilentChan
<1>5. CASE \E c \in Config \ Refused : WebEdit(c)
  BY <1>5, WebEditChan
<1>6. CASE UNCHANGED vars
  BY <1>6 DEF vars, Chan, Known, Requests, Session, Version
<1>7. QED BY <1>1, <1>2, <1>3, <1>4, <1>5, <1>6 DEF Next

(* The indices in InFlight are those of the reports and acknowledgements.  *)
LEMMA CountInFlight ==
    ASSUME TypeOK, Chan
    PROVE  \A i, j \in InFlight : i = j
<1>1. Len(toServer) \in Nat /\ Len(toNode) \in Nat
      /\ toServer \in Seq(UpMsg) /\ toNode \in Seq(DownMsg)
  BY DEF TypeOK
<1>2. \/ None(toServer, "report") /\ AtMostOne(toNode, "accepted")
      \/ AtMostOne(toServer, "report") /\ None(toNode, "accepted")
  <2>1. CASE phase = "session"
    BY <2>1 DEF Chan, Session
  <2>2. CASE phase \notin {"posting", "pulling", "session"}
    BY <2>2, EmptyNone DEF Chan, Requests
  <2>3. CASE phase \in {"posting", "pulling"}
    <3>1. Len(toServer) + Len(toNode) <= 1
      BY <2>3 DEF Chan, Requests
    <3>2. Len(toServer) = 0 \/ Len(toNode) = 0
      BY <1>1, <3>1
    <3>3. \A i, j \in 1..Len(toServer) : i = j
      BY <1>1, <3>1
    <3>4. \A i, j \in 1..Len(toNode) : i = j
      BY <1>1, <3>1
    <3>5. CASE Len(toServer) = 0
      BY <1>1, <3>4, <3>5 DEF None, AtMostOne
    <3>6. CASE Len(toNode) = 0
      BY <1>1, <3>3, <3>6 DEF None, AtMostOne
    <3>7. QED BY <3>2, <3>5, <3>6
  <2>4. QED BY <2>1, <2>2, <2>3
<1>3. ASSUME NEW i \in InFlight, NEW j \in InFlight
      PROVE  i = j
  <2>1. CASE None(toServer, "report") /\ AtMostOne(toNode, "accepted")
    <3>1. \A k \in InFlight : \E n \in 1..Len(toNode) : toNode[n].type = "accepted" /\ k = -n
      BY <2>1 DEF InFlight, None
    <3>2. PICK m \in 1..Len(toNode) : toNode[m].type = "accepted" /\ i = -m
      BY <3>1
    <3>3. PICK n \in 1..Len(toNode) : toNode[n].type = "accepted" /\ j = -n
      BY <3>1
    <3>4. m = n
      BY <2>1, <3>2, <3>3 DEF AtMostOne
    <3>5. QED BY <3>2, <3>3, <3>4
  <2>2. CASE AtMostOne(toServer, "report") /\ None(toNode, "accepted")
    <3>1. \A k \in InFlight : k \in 1..Len(toServer) /\ toServer[k].type = "report"
      BY <2>2 DEF InFlight, None
    <3>2. QED BY <2>2, <3>1 DEF AtMostOne
  <2>3. QED BY <1>2, <2>1, <2>2
<1>4. QED BY <1>3

(* There is none exactly when no channel has one.                          *)
LEMMA NoneInFlight ==
    InFlight = {} <=> None(toServer, "report") /\ None(toNode, "accepted")
<1>1. ASSUME NEW i \in 1..Len(toServer), toServer[i].type = "report" PROVE InFlight # {}
  BY <1>1 DEF InFlight
<1>2. ASSUME NEW i \in 1..Len(toNode), toNode[i].type = "accepted" PROVE InFlight # {}
  BY <1>2 DEF InFlight
<1>3. None(toServer, "report") /\ None(toNode, "accepted") => InFlight = {}
  BY DEF None, InFlight
<1>4. QED BY <1>1, <1>2, <1>3 DEF None

(* No report is sent while another is under way, and none that             *)
(* awaiting_ack does not stand for, also where the website refuses reports *)
(* and leaves it set for the rest of the session (run_session).            *)
NoOverlap ==
    /\ \A i, j \in InFlight : i = j
    /\ phase = "session" /\ ~report.awaiting => InFlight = {}
THEOREM ReportsDoNotOverlap == SiteHasConfig /\ Spec => []NoOverlap
<1>. DEFINE I == IInv /\ Chan
<1>1. Init /\ SiteHasConfig => I
  BY InitInv, InitChan
<1>2. I /\ [Next]_vars => I'
  BY NextInv, ChanStep
<1>3. I => NoOverlap
  BY CountInFlight, NoneInFlight DEF IInv, Chan, Session, NoOverlap
<1>4. QED BY <1>1, <1>2, <1>3, PTL DEF Spec

(* awaiting_ack means that exactly one report is under way, over however   *)
(* many sessions, drops, edits and restarts (ReportState, run_session): as *)
(* long as the website has a config, so that a hello is not acknowledged   *)
(* like a report, and refuses no report, which no acknowledgement follows. *)
THEOREM OneReportAtATime ==
    SiteHasConfig /\ Refused = {} /\ Spec => []AwaitingIsOneReport
<1>. DEFINE I == IInv /\ Chan /\ Refused = {}
<1>1. Init /\ SiteHasConfig /\ Refused = {} => I
  BY InitInv, InitChan
<1>2. I /\ [Next]_vars => I'
  BY NextInv, ChanStep
<1>3. I => AwaitingIsOneReport
  BY CountInFlight, NoneInFlight DEF IInv, Chan, Session, AwaitingIsOneReport
<1>4. QED BY <1>1, <1>2, <1>3, PTL DEF Spec

-----------------------------------------------------------------------------
(* Agreement where the website alone is edited                             *)

Minted(ver, cfg) == ver # 0 /\ cfg = minted[ver]

(* The node has nothing to tell and no edit to come.                       *)
NothingToTell ==
    /\ budget["local"] = 0 /\ budget["unlink"] = 0
    /\ report = NoReport /\ bumps = 0 /\ unseen = FALSE
    /\ mem.link = "token" /\ disk.link = "token"
    /\ phase \notin {"waiting", "posting", "topull"}

(* Both copies and the push being worked on are the website's configs.     *)
CopiesMinted ==
    /\ mem.ver # 0 => Minted(mem.ver, mem.cfg)
    /\ disk.ver # 0 => Minted(disk.ver, disk.cfg)
    /\ job.ver # 0 /\ job.only => Minted(job.ver, mem.cfg)

(* No report is sent; a hello can be acknowledged only where it is the     *)
(* first thing the website hears, and nothing then comes before the        *)
(* acknowledgement.                                                        *)
HelloFirst ==
    /\ None(toServer, "report")
    /\ \A i \in 1..Len(toServer) : toServer[i].type = "hello" =>
          /\ Len(toServer) = 1 /\ phase = "session"
          /\ Version = 0 => toNode = <<>> /\ job.ver = 0 /\ toServer[i].cfg = mem.cfg
    /\ \A j \in 1..Len(toNode) : toNode[j].type = "accepted" =>
          j = 1 /\ job.ver = 0 /\ Minted(toNode[j].ver, mem.cfg)

WebsiteAlone == NothingToTell /\ CopiesMinted /\ HelloFirst

(* What the website has minted stays minted.                               *)
LEMMA MintedStays ==
    ASSUME IInv, minted' = minted \/ \E c : minted' = Append(minted, c),
           NEW ver \in Nat, ver <= Version, NEW cfg, Minted(ver, cfg)
    PROVE  Minted(ver, cfg)'
<1>1. minted \in Seq(Config \ Refused) /\ ver \in 1..Len(minted)
  BY DEF IInv, TypeOK, Version, Minted
<1>2. minted'[ver] = minted[ver]
  BY <1>1, AppendOf
<1>3. QED BY <1>2 DEF Minted

(* The facts about types and versions the steps below use.                 *)
LEMMA Bounds ==
    ASSUME IInv
    PROVE  /\ Version \in Nat /\ minted \in Seq(Config \ Refused)
           /\ mem.ver \in Nat /\ disk.ver \in Nat /\ job.ver \in Nat
           /\ mem.ver <= Version /\ disk.ver <= Version /\ job.ver <= Version
           /\ toServer \in Seq(UpMsg) /\ toNode \in Seq(DownMsg)
           /\ \A j \in 1..Len(toNode) : toNode[j].ver \in Nat /\ toNode[j].ver <= Version
           /\ job.ver # 0 => phase \in {"session", "pulling"} /\ mem.ver < job.ver
<1>1. /\ Version \in Nat /\ minted \in Seq(Config \ Refused)
      /\ mem.ver \in Nat /\ disk.ver \in Nat /\ job.ver \in Nat
      /\ disk.ver <= mem.ver /\ mem.ver <= Version /\ job.ver <= Version
      /\ toServer \in Seq(UpMsg) /\ toNode \in Seq(DownMsg) /\ Below(toNode, Version)
      /\ job.ver # 0 => phase \in {"session", "pulling"} /\ mem.ver < job.ver
  BY DEF IInv, TypeOK, VersionsMinted, VersionsOrdered, Stored, Job, Version
<1>2. \A j \in 1..Len(toNode) : toNode[j] \in DownMsg
  BY <1>1, ElementOfSeq
<1>3. QED BY <1>1, <1>2 DEF DownMsg, Below

(* A website edited alone, whose steps these are, keeps the two in step.   *)
LEMMA AloneServer ==
    ASSUME IInv, WebsiteAlone, Server \/ \E c \in Config \ Refused : WebEdit(c)
    PROVE  WebsiteAlone'
<1>. USE Bounds
<1>1. /\ UNCHANGED <<mem, disk, bumps, unseen, nodeVars>>
      /\ UNCHANGED <<report, phase, job>>
      /\ minted' = minted \/ \E c : minted' = Append(minted, c)
  BY DEF Server, ServerHello, ServerReport, ServerGet, Mint, WebEdit, nodeVars
<1>2. NothingToTell'
  <2>1. CASE Server
    BY <1>1, <2>1 DEF Server, ServerHello, ServerReport, ServerGet, WebsiteAlone, NothingToTell, nodeVars
  <2>2. CASE \E c \in Config \ Refused : WebEdit(c)
    <3>1. Spend("web") /\ TypeOK /\ "web" \in Moves /\ {"local", "unlink"} \subseteq Moves
      BY <2>2 DEF WebEdit, IInv, Moves
    <3>2. /\ budget'["local"] <= budget["local"] /\ budget'["unlink"] <= budget["unlink"]
          /\ budget'["local"] \in Nat /\ budget'["unlink"] \in Nat
      BY <3>1, SpendMoves
    <3>3. QED BY <1>1, <3>2 DEF WebsiteAlone, NothingToTell, nodeVars
  <2>3. QED BY <2>1, <2>2
<1>3. \A ver \in Nat : \A cfg : ver <= Version /\ Minted(ver, cfg) => Minted(ver, cfg)'
  BY <1>1, MintedStays
<1>4. CopiesMinted'
  BY <1>1, <1>3 DEF WebsiteAlone, CopiesMinted, nodeVars
<1>5. CASE \E c \in Config \ Refused : WebEdit(c)
  <2>. DEFINE e == [type |-> "push", ver |-> Version + 1]
  <2>1. /\ UNCHANGED toServer
        /\ toNode' = toNode \/ toNode' = Append(toNode, e)
        /\ e.type # "accepted" /\ Version' # 0
    <3>1. PICK c \in Config \ Refused : WebEdit(c)
      BY <1>5
    <3>2. Version' = Version + 1
      BY <3>1, AppendOf DEF WebEdit, Version
    <3>3. QED BY <3>1, <3>2 DEF WebEdit, Reply
  <2>. HIDE DEF e
  <2>2. \A j \in 1..Len(toNode') : toNode'[j].type = "accepted" =>
            j \in 1..Len(toNode) /\ toNode'[j] = toNode[j]
    <3>1. CASE toNode' = toNode
      BY <3>1
    <3>2. CASE toNode' = Append(toNode, e)
      <4>1. /\ Len(toNode) \in Nat /\ Len(toNode') = Len(toNode) + 1
            /\ toNode'[Len(toNode) + 1] = e
            /\ \A i \in 1..Len(toNode) : toNode'[i] = toNode[i]
        BY <1>1, <3>2, AppendOf
      <4>2. QED BY <2>1, <4>1
    <3>3. QED BY <2>1, <3>1, <3>2
  <2>3. \A j \in 1..Len(toNode') : toNode'[j].type = "accepted" =>
            j = 1 /\ job.ver = 0 /\ Minted(toNode[j].ver, mem.cfg)'
    <3>1. SUFFICES ASSUME NEW j \in 1..Len(toNode'), toNode'[j].type = "accepted"
                   PROVE  j = 1 /\ job.ver = 0 /\ Minted(toNode[j].ver, mem.cfg)'
      OBVIOUS
    <3>2. j \in 1..Len(toNode) /\ toNode'[j] = toNode[j]
      BY <2>2, <3>1
    <3>3. j = 1 /\ job.ver = 0 /\ Minted(toNode[j].ver, mem.cfg)
      BY <3>1, <3>2 DEF WebsiteAlone, HelloFirst
    <3>4. Minted(toNode[j].ver, mem.cfg)'
      BY <1>1, <1>3, <3>2, <3>3 DEF Minted
    <3>5. QED BY <3>3, <3>4
  <2>4. HelloFirst'
    <3>1. mem' = mem /\ job' = job /\ phase' = phase /\ toServer' = toServer
      BY <1>1, <2>1
    <3>2. None(toServer', "report") /\ Version' # 0
      BY <2>1, <3>1 DEF WebsiteAlone, HelloFirst
    <3>3. \A i \in 1..Len(toServer') : toServer'[i].type = "hello" =>
              Len(toServer') = 1 /\ phase' = "session"
      BY <3>1 DEF WebsiteAlone, HelloFirst
    <3>4. QED BY <2>3, <3>1, <3>2, <3>3 DEF HelloFirst
  <2>5. QED BY <1>2, <1>4, <2>4 DEF WebsiteAlone
<1>6. CASE Server
  <2>. DEFINE f == Head(toServer)
  <2>1. /\ toServer # <<>> /\ toServer' = Tail(toServer) /\ f.type \in {"hello", "report", "get"}
    BY <1>6 DEF Server, ServerHello, ServerReport, ServerGet, Handle
  <2>2. /\ f = toServer[1] /\ 1 \in 1..Len(toServer) /\ f.type # "report"
        /\ None(toServer', "report")
        /\ Len(toServer') = Len(toServer) - 1 /\ Len(toServer) \in Nat
        /\ \A i \in 1..Len(toServer') : i + 1 \in 1..Len(toServer) /\ toServer'[i] = toServer[i + 1]
    BY <2>1, TailOf DEF WebsiteAlone, HelloFirst
  <2>. HIDE DEF f
  <2>3. \A i \in 1..Len(toServer') : toServer'[i].type # "hello"
    <3>1. SUFFICES ASSUME NEW i \in 1..Len(toServer'), toServer'[i].type = "hello" PROVE FALSE
      OBVIOUS
    <3>2. Len(toServer) = 1
      BY <2>2, <3>1 DEF WebsiteAlone, HelloFirst
    <3>3. QED BY <2>2, <3>1, <3>2
  <2>4. CASE f.type = "hello" /\ Version = 0
    <3>1. /\ toNode = <<>> /\ job.ver = 0 /\ f.cfg = mem.cfg
      BY <2>2, <2>4 DEF WebsiteAlone, HelloFirst
    <3>2. Mint(f.cfg)
      <4>1. ServerHello
        BY <1>6, <2>4 DEF f, Server, ServerReport, ServerGet, Handle
      <4>2. f.ver \in Nat
        <5>1. toServer[1] \in UpMsg
          BY <2>2, ElementOfSeq
        <5>2. QED BY <2>2, <5>1 DEF UpMsg
      <4>3. QED BY <2>4, <4>1, <4>2 DEF f, ServerHello
    <3>3. \A j \in 1..Len(toNode') : toNode'[j].type = "accepted" =>
              j = 1 /\ toNode'[j].ver # 0 /\ mem'.cfg = minted'[toNode'[j].ver]
      <4>1. CASE mem.cfg \in Refused
        <5>. DEFINE e == [type |-> "error", ver |-> 0]
        <5>1. toNode' = Append(toNode, e) /\ e.type # "accepted"
          BY <3>1, <3>2, <4>1 DEF Mint, Reply
        <5>. HIDE DEF e
        <5>2. None(toNode', "accepted")
          BY <3>1, <5>1, AppendOf, EmptyNone
        <5>3. QED BY <5>2 DEF None
      <4>2. CASE mem.cfg \notin Refused
        <5>. DEFINE e == [type |-> "accepted", ver |-> Version + 1]
        <5>1. toNode' = Append(toNode, e) /\ minted' = Append(minted, mem.cfg) /\ e.ver = 1
          BY <2>4, <3>1, <3>2, <4>2 DEF Mint, Reply
        <5>. HIDE DEF e
        <5>2. Len(toNode') = 1 /\ toNode'[1] = e
          BY <3>1, <5>1, AppendOf, EmptyNone
        <5>3. minted'[1] = mem.cfg
          BY <2>4, <5>1, AppendOf DEF Version
        <5>4. QED BY <1>1, <5>1, <5>2, <5>3
      <4>3. QED BY <4>1, <4>2
    <3>4. HelloFirst'
      BY <1>1, <2>2, <2>3, <3>1, <3>3 DEF HelloFirst, Minted, nodeVars
    <3>5. QED BY <1>2, <1>4, <3>4 DEF WebsiteAlone
  <2>5. CASE ~(f.type = "hello" /\ Version = 0)
    <3>1. PICK e \in {[type |-> "push", ver |-> Version], [type |-> "unmodified", ver |-> 0]} :
              toNode' = toNode \/ toNode' = Append(toNode, e)
      BY <1>6, <2>2, <2>5 DEF f, Server, ServerHello, ServerReport, ServerGet, Handle, Reply
    <3>2. e.type # "accepted"
      BY <3>1
    <3>3. \A j \in 1..Len(toNode') : toNode'[j].type = "accepted" =>
              j \in 1..Len(toNode) /\ toNode'[j] = toNode[j]
      BY <3>1, <3>2, AppendOf
    <3>4. HelloFirst'
      BY <1>1, <1>3, <2>2, <2>3, <3>3 DEF WebsiteAlone, HelloFirst, nodeVars
    <3>5. QED BY <1>2, <1>4, <3>4 DEF WebsiteAlone
  <2>6. QED BY <2>4, <2>5
<1>7. QED BY <1>5, <1>6

(* What moves the version keeps both copies the website's.                 *)
LEMMA AlonePersist ==
    ASSUME IInv, mem.link = "token", disk.link = "token", CopiesMinted, UNCHANGED minted,
           NEW v \in Nat, Minted(v, mem.cfg), PersistVersion(v)
    PROVE  /\ mem'.link = "token" /\ disk'.link = "token" /\ mem'.cfg = mem.cfg
           /\ mem'.ver # 0 => Minted(mem.ver, mem.cfg)'
           /\ disk'.ver # 0 => Minted(disk.ver, disk.cfg)'
           /\ mem' = mem \/ mem'.ver = v
<1>1. mem \in Stored /\ disk \in Stored
  BY DEF IInv, TypeOK
<1>2. CASE UNCHANGED <<mem, disk>>
  BY <1>2 DEF CopiesMinted, Minted
<1>3. CASE mem' = [mem EXCEPT !.ver = v] /\ disk' \in {disk, mem'}
  <2>1. mem'.link = "token" /\ mem'.cfg = mem.cfg /\ mem'.ver = v
    BY <1>1, <1>3 DEF Stored
  <2>2. CASE disk' = mem'
    BY <2>1, <2>2 DEF Minted
  <2>3. CASE disk' = disk
    BY <2>1, <2>3 DEF Minted, CopiesMinted
  <2>4. QED BY <1>3, <2>2, <2>3
<1>4. QED BY <1>2, <1>3 DEF PersistVersion

(* The node's own steps keep the two in step as well.                      *)
LEMMA AloneNode ==
    ASSUME IInv, WebsiteAlone,
           SyncTask \/ Poll \/ Connect \/ ConnectFails \/ SkipPoll \/ Bump \/ Drop \/ PollFails \/ Restart
    PROVE  WebsiteAlone'
<1>. USE Bounds
<1>1. /\ report = NoReport /\ bumps = 0 /\ unseen = FALSE /\ mem.link = "token"
      /\ disk.link = "token" /\ phase \notin {"waiting", "posting", "topull"}
      /\ report.pending = FALSE /\ report.awaiting = FALSE /\ report.dirty = FALSE
      /\ TypeOK /\ {"local", "unlink", "connect", "drop", "write", "restart"} \subseteq Moves
      /\ budget["local"] = 0 /\ budget["unlink"] = 0
  BY DEF WebsiteAlone, NothingToTell, NoReport, IInv, Moves
<1>2. ASSUME NEW move \in Moves, Spend(move)
      PROVE  budget'["local"] = 0 /\ budget'["unlink"] = 0
  <2>1. /\ budget'["local"] <= 0 /\ budget'["unlink"] <= 0
        /\ budget'["local"] \in Nat /\ budget'["unlink"] \in Nat
    BY <1>1, <1>2, SpendMoves
  <2>2. QED BY <2>1
<1>3. CASE LatchLocalEdit \/ ConnectFails \/ SkipPoll
  <2>1. /\ UNCHANGED <<mem, disk, bumps, report, unseen, job, netVars, minted, budget>>
        /\ phase' \in {"connecting", "closed", "idle"}
        /\ phase \in {"idle", "connecting", "closed"}
    BY <1>1, <1>3 DEF LatchLocalEdit, ConnectFails, SkipPoll
  <2>2. HelloFirst'
    BY <2>1 DEF WebsiteAlone, HelloFirst, netVars, Version, Minted
  <2>3. QED BY <1>1, <2>1, <2>2 DEF WebsiteAlone, NothingToTell, CopiesMinted, Minted
<1>4. CASE Connect
  <2>. DEFINE e == [type |-> "hello", ver |-> mem.ver, cfg |-> mem.cfg]
  <2>1. /\ UNCHANGED <<mem, disk, bumps, unseen, job, minted>> /\ phase' = "session"
        /\ toServer' = <<e>> /\ toNode' = <<>> /\ e.type # "report" /\ e.cfg = mem.cfg
        /\ job.ver = 0 /\ Spend("connect")
    BY <1>4 DEF Connect
  <2>. HIDE DEF e
  <2>2. report' = NoReport
    BY <1>1, <1>4 DEF Connect, NewSession, NoReport
  <2>3. HelloFirst'
    BY <2>1, SingleFrame, EmptyNone DEF HelloFirst
  <2>4. QED
    BY <1>1, <1>2, <2>1, <2>2, <2>3 DEF WebsiteAlone, NothingToTell, CopiesMinted, Minted
<1>5. CASE PullConfig
  <2>. DEFINE e == [type |-> "get", ver |-> mem.ver, cfg |-> mem.cfg]
  <2>1. /\ UNCHANGED <<mem, disk, bumps, unseen, job, minted, report, budget, toNode>>
        /\ toServer' = <<e>> /\ phase' = "pulling" /\ e.type # "report" /\ e.type # "hello"
    BY <1>5 DEF PullConfig
  <2>. HIDE DEF e
  <2>2. HelloFirst'
    BY <2>1, SingleFrame DEF WebsiteAlone, HelloFirst, None, Minted
  <2>3. QED BY <1>1, <2>1, <2>2 DEF WebsiteAlone, NothingToTell, CopiesMinted, Minted
<1>6. CASE BeginPush \/ ReceiveAccepted \/ ReceiveNothing
  <2>. DEFINE f == Head(toNode)
  <2>1. /\ toNode # <<>> /\ toNode' = Tail(toNode) /\ job.ver = 0
        /\ UNCHANGED <<toServer, minted, bumps, unseen>>
    BY <1>6 DEF BeginPush, ReceiveAccepted, ReceiveNothing, Receive
  <2>2. /\ f = toNode[1] /\ 1 \in 1..Len(toNode)
        /\ \A i \in 1..Len(toNode') : i + 1 \in 1..Len(toNode) /\ toNode'[i] = toNode[i + 1]
    BY <2>1, TailOf
  <2>. HIDE DEF f
  <2>3. \A i \in 1..Len(toNode') : toNode'[i].type # "accepted"
    <3>1. SUFFICES ASSUME NEW i \in 1..Len(toNode'), toNode'[i].type = "accepted" PROVE FALSE
      OBVIOUS
    <3>2. i + 1 = 1
      BY <2>2, <3>1 DEF WebsiteAlone, HelloFirst
    <3>3. QED BY <3>1, <3>2
  <2>4. Version' = Version /\ \A i \in 1..Len(toServer) : toServer[i].type = "hello" =>
            Len(toServer) = 1 /\ phase = "session" /\ Version # 0
    BY <2>1 DEF WebsiteAlone, HelloFirst, Version
  <2>5. ASSUME phase = "session" => phase' = "session" PROVE HelloFirst'
    BY <2>1, <2>3, <2>4, <2>5 DEF WebsiteAlone, HelloFirst
  <2>6. CASE BeginPush
    <3>1. /\ UNCHANGED <<mem, disk, report, budget>>
          /\ phase' = phase \/ (phase = "pulling" /\ phase' = "idle")
      BY <2>6 DEF BeginPush
    <3>2. job'.ver # 0 /\ job'.only => Minted(job'.ver, mem.cfg)
      <4>1. SUFFICES ASSUME job'.ver # 0, job'.only
                     PROVE  Minted(job'.ver, mem.cfg)
        OBVIOUS
      <4>2. /\ job' = [ver |-> f.ver, only |-> DecidePush(f.ver, minted[f.ver], mem) = "VersionOnly"]
        BY <2>1, <2>6, <4>1 DEF f, BeginPush
      <4>3. minted[f.ver] = mem.cfg
        BY <4>1, <4>2 DEF DecidePush
      <4>4. QED BY <4>1, <4>2, <4>3 DEF Minted
    <3>3. CopiesMinted'
      BY <2>1, <3>1, <3>2 DEF WebsiteAlone, CopiesMinted, Minted
    <3>4. QED BY <1>1, <2>1, <2>5, <3>1, <3>3 DEF WebsiteAlone, NothingToTell
  <2>7. CASE ReceiveAccepted
    <3>1. /\ f.type = "accepted" /\ phase = "session" /\ phase' = phase
          /\ PersistVersion(f.ver) /\ UNCHANGED job
      BY <1>1, <2>7 DEF f, ReceiveAccepted, Receive, Selecting
    <3>2. f.ver \in Nat /\ Minted(f.ver, mem.cfg)
      BY <2>2, <3>1 DEF WebsiteAlone, HelloFirst
    <3>3. /\ mem'.link = "token" /\ disk'.link = "token" /\ mem'.cfg = mem.cfg
          /\ mem'.ver # 0 => Minted(mem.ver, mem.cfg)'
          /\ disk'.ver # 0 => Minted(disk.ver, disk.cfg)'
      BY <1>1, <2>1, <3>1, <3>2, AlonePersist DEF WebsiteAlone
    <3>4. report' = NoReport
      BY <1>1, <2>7 DEF ReceiveAccepted, Acked, NoReport
    <3>5. budget'["local"] = 0 /\ budget'["unlink"] = 0
      BY <1>1, <1>2, <3>1 DEF PersistVersion
    <3>6. QED
      BY <1>1, <2>1, <2>5, <3>1, <3>3, <3>4, <3>5 DEF WebsiteAlone, NothingToTell, CopiesMinted
  <2>8. CASE ReceiveNothing
    <3>1. /\ UNCHANGED <<mem, disk, report, budget, job>>
          /\ phase' = phase \/ (phase = "pulling" /\ phase' = "idle")
      BY <1>1, <2>8 DEF ReceiveNothing
    <3>2. QED
      BY <1>1, <2>1, <2>5, <3>1 DEF WebsiteAlone, NothingToTell, CopiesMinted, Minted
  <2>9. QED BY <1>6, <2>6, <2>7, <2>8
<1>7. CASE FinishPush
  <2>1. /\ job.ver # 0 /\ job'.ver = 0 /\ UNCHANGED <<bumps, unseen, report, netVars, minted>>
        /\ phase' = phase \/ (phase = "pulling" /\ phase' = "idle")
    BY <1>7 DEF FinishPush, NoJob
  <2>2. budget'["local"] = 0 /\ budget'["unlink"] = 0
    BY <1>1, <1>2, <1>7 DEF FinishPush, PersistVersion, ApplyPushed
  <2>3. HelloFirst'
    BY <2>1 DEF WebsiteAlone, HelloFirst, netVars, Version
  <2>4. /\ mem'.link = "token" /\ disk'.link = "token"
        /\ mem'.ver # 0 => Minted(mem.ver, mem.cfg)'
        /\ disk'.ver # 0 => Minted(disk.ver, disk.cfg)'
    <3>1. CASE job.only
      <4>1. Minted(job.ver, mem.cfg) /\ PersistVersion(job.ver)
        BY <1>7, <2>1, <3>1 DEF WebsiteAlone, CopiesMinted, FinishPush
      <4>2. QED BY <1>1, <2>1, <4>1, AlonePersist DEF WebsiteAlone
    <3>2. CASE ~job.only
      <4>1. ApplyPushed(job.ver)
        BY <1>7, <3>2 DEF FinishPush
      <4>2. QED
        BY <1>1, <2>1, <4>1 DEF ApplyPushed, WebsiteAlone, CopiesMinted, Minted
    <3>3. QED BY <3>1, <3>2
  <2>5. QED
    BY <1>1, <2>1, <2>2, <2>3, <2>4 DEF WebsiteAlone, NothingToTell, CopiesMinted
<1>8. CASE Drop \/ PollFails \/ Restart
  <2>1. /\ toServer' = <<>> /\ toNode' = <<>> /\ job'.ver = 0 /\ UNCHANGED <<disk, minted>>
        /\ mem' \in {mem, disk} /\ report' = NoReport /\ bumps' = 0 /\ unseen' = FALSE
        /\ phase' \in {"closed", "idle"}
    BY <1>1, <1>8 DEF Drop, PollFails, Restart, CloseSocket, NoJob
  <2>2. budget'["local"] = 0 /\ budget'["unlink"] = 0
    BY <1>1, <1>2, <1>8 DEF Drop, PollFails, Restart
  <2>3. HelloFirst'
    BY <2>1, EmptyNone DEF HelloFirst
  <2>4. CopiesMinted'
    BY <2>1 DEF WebsiteAlone, CopiesMinted, Minted
  <2>5. QED BY <1>1, <2>1, <2>2, <2>3, <2>4 DEF WebsiteAlone, NothingToTell
<1>9. CASE FindNoToken \/ WakeUp \/ SendReport \/ ReceiveEdit \/ PostReport \/ Bump
  BY <1>1, <1>9 DEF FindNoToken, WakeUp, SendReport, ReceiveEdit, PostReport, Bump
<1>10. QED
  BY <1>3, <1>4, <1>5, <1>6, <1>7, <1>8, <1>9 DEF SyncTask, Poll

(* A local edit is none of its steps.                                      *)
LEMMA AloneStep == IInv /\ WebsiteAlone /\ [Next]_vars => WebsiteAlone'
<1>. SUFFICES ASSUME IInv, WebsiteAlone, [Next]_vars PROVE WebsiteAlone'
  OBVIOUS
<1>1. ASSUME NEW c \in Config, NEW l \in Link, PutConfig(c, l) PROVE FALSE
  <2>1. Spend("local") \/ Spend("unlink")
    BY <1>1 DEF PutConfig
  <2>2. budget["local"] = 0 /\ budget["unlink"] = 0
    BY DEF WebsiteAlone, NothingToTell
  <2>3. QED BY <2>1, <2>2 DEF Spend
<1>2. CASE UNCHANGED vars
  BY <1>2 DEF vars, WebsiteAlone, NothingToTell, CopiesMinted, HelloFirst, Version, Minted
<1>3. CASE Next
  BY <1>1, <1>3, AloneServer, AloneNode DEF Next
<1>4. QED BY <1>2, <1>3

-----------------------------------------------------------------------------
(* Agreement where the node is edited as well                              *)

(* An edit the sync task has yet to see, or to report after the one under  *)
(* way.                                                                    *)
NewerEdit == bumps > 0 \/ unseen \/ report.dirty

(* What is in flight is what the node runs, unless a newer edit will tell. *)
Carried(cfg) == NewerEdit \/ mem.cfg = cfg

FramesCarried ==
    /\ \A i \in 1..Len(toServer) : toServer[i].type = "report" => Carried(toServer[i].cfg)
    /\ \A j \in 1..Len(toNode) : toNode[j].type = "accepted" => Carried(minted[toNode[j].ver])

PushCarried == job.ver # 0 /\ job.only => Carried(minted[job.ver])

AcksNumbered == \A j \in 1..Len(toNode) : toNode[j].type = "accepted" => toNode[j].ver # 0

(* The file differs from the running config by its version alone; a config *)
(* without a block has none; what awaits an answer is still pending.       *)
Copies ==
    /\ disk.cfg = mem.cfg /\ disk.link = mem.link
    /\ mem.link = "none" => mem.ver = 0
    /\ report.awaiting => report.pending

(* While the two have not parted, all that is in flight is carried.        *)
Together ==
    /\ Copies /\ AcksNumbered /\ PushCarried
    /\ parted \/ (FramesCarried /\ OwesOrAgrees)

(* Nothing is in flight on channels without a report and an answer to one. *)
LEMMA NothingCarried ==
    ASSUME None(toServer', "report"), None(toNode', "accepted")
    PROVE  FramesCarried' /\ AcksNumbered' /\ InFlight' = {}
BY DEF None, FramesCarried, AcksNumbered, InFlight

(* An edit is on its way to the sync task: nothing has to agree.           *)
LEMMA NewerEditCarries ==
    ASSUME NewerEdit'
    PROVE  FramesCarried' /\ PushCarried' /\ OwesOrAgrees'
<1>1. \A cfg : Carried(cfg)'
  BY DEF Carried
<1>2. Owes'
  BY DEF NewerEdit, Owes
<1>3. QED BY <1>1, <1>2 DEF FramesCarried, PushCarried, OwesOrAgrees, Carried

(* Local edits.                                                            *)
LEMMA TogetherEdit ==
    ASSUME IInv, Together, Bump \/ \E c \in Config, l \in Link : PutConfig(c, l)
    PROVE  Together'
<1>1. bumps \in Nat
  BY DEF IInv, TypeOK
<1>2. CASE Bump
  <2>1. NewerEdit' /\ UNCHANGED <<mem, disk, report, toNode>>
    BY <1>2 DEF Bump, NewerEdit, nodeVars, netVars
  <2>2. Copies' /\ AcksNumbered'
    BY <2>1 DEF Together, Copies, AcksNumbered
  <2>3. QED BY <2>1, <2>2, NewerEditCarries DEF Together
<1>3. CASE \E c \in Config, l \in Link : PutConfig(c, l)
  <2>1. PICK c \in Config, l \in Link : PutConfig(c, l)
    BY <1>3
  <2>2. NewerEdit' /\ UNCHANGED <<report, toNode>>
    BY <1>1, <2>1 DEF PutConfig, NewerEdit, nodeVars, netVars
  <2>3. disk' = mem' /\ (mem'.link = "none" => mem'.ver = 0)
    BY <2>1 DEF PutConfig
  <2>4. Copies' /\ AcksNumbered'
    BY <2>2, <2>3 DEF Together, Copies, AcksNumbered
  <2>5. QED BY <2>2, <2>4, NewerEditCarries DEF Together
<1>4. QED BY <1>2, <1>3

(* A restart, and a notification that wait_for_token reads.                *)
LEMMA TogetherForgets ==
    ASSUME IInv, Chan, Together, WakeUp \/ Restart
    PROVE  Together'
<1>. USE Bounds
<1>1. CASE WakeUp
  <2>1. /\ toServer = <<>> /\ toNode = <<>> /\ job.ver = 0 /\ parted' = (parted \/ unseen)
        /\ unseen' = FALSE
        /\ UNCHANGED <<mem, disk, bumps, report, job, toServer, toNode, minted>>
    BY <1>1 DEF WakeUp, Chan, Requests, netVars
  <2>2. Copies' /\ PushCarried'
    BY <2>1 DEF Together, Copies, PushCarried
  <2>3. FramesCarried' /\ AcksNumbered'
    BY <2>1, EmptyNone, NothingCarried
  <2>4. parted' \/ OwesOrAgrees'
    BY <2>1 DEF Together, OwesOrAgrees, Owes
  <2>5. QED BY <2>2, <2>3, <2>4 DEF Together
<1>2. CASE Restart
  <2>1. /\ toServer' = <<>> /\ toNode' = <<>> /\ job'.ver = 0 /\ mem' = disk /\ disk' = disk
        /\ parted' = (parted \/ Owes \/ mem # disk) /\ minted' = minted
        /\ ~report'.awaiting
    BY <1>2 DEF Restart, CloseSocket, NoJob, NoReport
  <2>2. disk.link = "none" => disk.ver = 0
    <3>1. disk.ver <= mem.ver
      BY DEF IInv, VersionsMinted
    <3>2. disk.link = "none" => mem.ver = 0
      BY DEF Together, Copies
    <3>3. QED BY <3>1, <3>2
  <2>3. Copies' /\ PushCarried'
    BY <2>1, <2>2 DEF Copies, PushCarried
  <2>4. FramesCarried' /\ AcksNumbered'
    BY <2>1, EmptyNone, NothingCarried
  <2>5. parted' \/ OwesOrAgrees'
    BY <2>1 DEF Together, OwesOrAgrees
  <2>6. QED BY <2>3, <2>4, <2>5 DEF Together
<1>3. QED BY <1>1, <1>2

(* What else happens with no frame left in flight, and no version moved.   *)
LEMMA TogetherIdle ==
    ASSUME IInv, Chan, Together,
           \/ FindNoToken \/ LatchLocalEdit \/ ConnectFails \/ SkipPoll
           \/ Connect \/ PullConfig \/ Drop \/ PollFails
    PROVE  Together'
<1>. USE Bounds
<1>1. report \in ReportState
  BY DEF IInv, TypeOK
<1>2. /\ job.ver = 0 /\ UNCHANGED <<mem, disk, bumps, job, minted, parted>>
  BY DEF FindNoToken, LatchLocalEdit, ConnectFails, SkipPoll, Connect, PullConfig, Drop, PollFails
<1>3. None(toServer', "report") /\ None(toNode', "accepted")
  <2>1. CASE FindNoToken \/ LatchLocalEdit \/ ConnectFails \/ SkipPoll
    BY <2>1, EmptyNone
    DEF FindNoToken, LatchLocalEdit, ConnectFails, SkipPoll, Chan, Requests, netVars
  <2>2. CASE Connect \/ PullConfig
    <3>1. PICK e : toServer' = <<e>> /\ e.type # "report" /\ toNode' = <<>>
      BY <2>2 DEF Connect, PullConfig, Chan, Requests
    <3>2. QED BY <3>1, SingleFrame, EmptyNone
  <2>3. CASE Drop \/ PollFails
    BY <2>3, EmptyNone DEF Drop, PollFails, CloseSocket
  <2>4. QED BY <2>1, <2>2, <2>3
<1>4. /\ Owes => Owes'
      /\ report'.awaiting => report'.pending
  <2>1. CASE LatchLocalEdit
    BY <1>1, <2>1 DEF LatchLocalEdit, MarkEdit, Owes, ReportState, Together, Copies
  <2>2. CASE Connect
    BY <1>1, <2>2 DEF Connect, NewSession, Owes, ReportState, Together, Copies
  <2>3. CASE UNCHANGED <<bumps, unseen, report>>
    BY <2>3 DEF Owes, Together, Copies
  <2>4. QED
    BY <2>1, <2>2, <2>3 DEF FindNoToken, ConnectFails, SkipPoll, PullConfig, Drop, PollFails
<1>5. Copies' /\ PushCarried' /\ FramesCarried' /\ AcksNumbered'
  BY <1>2, <1>3, <1>4, NothingCarried DEF Together, Copies, PushCarried
<1>6. OwesOrAgrees => OwesOrAgrees'
  BY <1>2, <1>4 DEF OwesOrAgrees
<1>7. QED BY <1>2, <1>5, <1>6 DEF Together

(* A report goes up, alone, and carries what the node runs.                *)
LEMMA TogetherSend ==
    ASSUME IInv, Chan, Together, SendReport \/ PostReport
    PROVE  Together'
<1>. USE Bounds
<1>1. PICK e : /\ toServer' = Append(toServer, e) \/ toServer' = <<e>>
               /\ e.type = "report" /\ e.cfg = mem.cfg
  <2>1. toServer' = Append(toServer, ReportBody) \/ toServer' = <<ReportBody>>
    BY DEF SendReport, PostReport
  <2>2. ReportBody.type = "report" /\ ReportBody.cfg = mem.cfg
    BY DEF ReportBody
  <2>3. QED BY <2>1, <2>2
<1>2. /\ UNCHANGED <<mem, disk, bumps, unseen, job, toNode, minted>>
      /\ report.pending /\ report'.pending /\ report'.dirty = report.dirty
  BY DEF SendReport, PostReport, IInv, TypeOK, ReportState
<1>3. None(toServer, "report") /\ None(toNode, "accepted")
  BY EmptyNone DEF SendReport, PostReport, Chan, Requests, Session
<1>4. \A i \in 1..Len(toServer') : toServer'[i].type = "report" => toServer'[i].cfg = mem.cfg
  <2>1. CASE toServer' = Append(toServer, e)
    <3>1. \A i \in 1..Len(toServer') :
              (i \in 1..Len(toServer) /\ toServer'[i] = toServer[i]) \/ toServer'[i] = e
      BY <2>1, AppendOf
    <3>2. QED BY <1>1, <1>3, <3>1 DEF None
  <2>2. CASE toServer' = <<e>>
    BY <1>1, <2>2, SingleFrame
  <2>3. QED BY <1>1, <2>1, <2>2
<1>5. FramesCarried' /\ AcksNumbered'
  BY <1>2, <1>3, <1>4 DEF FramesCarried, AcksNumbered, Carried, None
<1>6. Copies' /\ PushCarried' /\ OwesOrAgrees'
  BY <1>2 DEF Together, Copies, PushCarried, Carried, NewerEdit, OwesOrAgrees, Owes
<1>7. QED BY <1>5, <1>6 DEF Together

(* Recording a version.                                                    *)
LEMMA Recorded ==
    ASSUME IInv, Copies, NEW v \in Nat, PersistVersion(v)
    PROVE  /\ mem'.cfg = mem.cfg /\ mem'.link = mem.link
           /\ disk'.cfg = disk.cfg /\ disk'.link = disk.link
           /\ mem'.ver = IF mem.link = "none" THEN 0 ELSE v
<1>1. mem \in Stored /\ disk \in Stored
  BY DEF IInv, TypeOK
<1>2. \/ mem' = mem /\ disk' = disk /\ (mem.link = "none" \/ mem.ver = v)
      \/ /\ mem' = [mem EXCEPT !.ver = v] /\ mem.link # "none"
         /\ disk' = mem' \/ disk' = disk
  BY DEF PersistVersion
<1>3. QED BY <1>1, <1>2 DEF Stored, Copies

(* A push is decided on, with no lock held, and then takes effect.         *)
LEMMA TogetherBegin ==
    ASSUME IInv, Together, BeginPush
    PROVE  Together'
<1>. USE Bounds
<1>. DEFINE f == Head(toNode)
<1>1. /\ toNode # <<>> /\ f.type = "push" /\ toNode' = Tail(toNode) /\ job.ver = 0
      /\ UNCHANGED <<mem, disk, bumps, unseen, report, toServer, minted, parted>>
  BY DEF BeginPush, Receive, Selecting
<1>2. job'.ver # 0 /\ job'.only => minted[job'.ver] = mem.cfg
  <2>1. SUFFICES ASSUME job'.ver # 0, job'.only PROVE minted[job'.ver] = mem.cfg
    OBVIOUS
  <2>2. job' = [ver |-> f.ver, only |-> DecidePush(f.ver, minted[f.ver], mem) = "VersionOnly"]
    BY <1>1, <2>1 DEF BeginPush
  <2>. HIDE DEF f
  <2>3. QED BY <2>1, <2>2 DEF DecidePush
<1>3. \A j \in 1..Len(toNode') : j + 1 \in 1..Len(toNode) /\ toNode'[j] = toNode[j + 1]
  BY <1>1, TailOf
<1>. HIDE DEF f
<1>4. Copies' /\ AcksNumbered' /\ PushCarried'
  BY <1>1, <1>2, <1>3 DEF Together, Copies, AcksNumbered, PushCarried, Carried
<1>5. /\ FramesCarried => FramesCarried'
      /\ OwesOrAgrees => OwesOrAgrees'
  BY <1>1, <1>3 DEF FramesCarried, Carried, NewerEdit, OwesOrAgrees, Owes
<1>6. QED BY <1>1, <1>4, <1>5 DEF Together

LEMMA TogetherFinish ==
    ASSUME IInv, Together, FinishPush
    PROVE  Together'
<1>. USE Bounds
<1>1. /\ job.ver # 0 /\ job'.ver = 0
      /\ UNCHANGED <<bumps, unseen, report, toServer, toNode, minted>>
  BY DEF FinishPush, NoJob, netVars
<1>2. PushCarried' /\ AcksNumbered' /\ InFlight' = InFlight
  BY <1>1 DEF Together, PushCarried, AcksNumbered, InFlight
<1>3. InFlight = {} => FramesCarried'
  BY <1>1, NoneInFlight DEF FramesCarried, None
<1>4. CASE job.only
  <2>1. /\ PersistVersion(job.ver) /\ Carried(minted[job.ver])
        /\ parted' = (parted /\ InFlight # {})
    BY <1>1, <1>4 DEF FinishPush, Together, PushCarried
  <2>2. /\ mem'.cfg = mem.cfg /\ mem'.link = mem.link
        /\ disk'.cfg = disk.cfg /\ disk'.link = disk.link
        /\ mem'.ver = IF mem.link = "none" THEN 0 ELSE job.ver
    BY <2>1, Recorded DEF Together
  <2>3. Copies'
    BY <1>1, <2>2 DEF Together, Copies
  <2>4. OwesOrAgrees'
    BY <1>1, <2>1, <2>2 DEF OwesOrAgrees, Owes, Carried, NewerEdit
  <2>5. FramesCarried => FramesCarried'
    BY <1>1, <2>2 DEF FramesCarried, Carried, NewerEdit
  <2>6. parted' \/ FramesCarried'
    BY <1>3, <2>1, <2>5 DEF Together
  <2>7. QED BY <1>2, <2>3, <2>4, <2>6 DEF Together
<1>5. CASE ~job.only /\ mem' = mem
  <2>1. ApplyPushed(job.ver)
    BY <1>1, <1>5 DEF FinishPush
  <2>2. disk' = disk /\ parted' = parted
    <3>1. mem.ver # job.ver
      BY <1>1
    <3>2. mem'.ver # job.ver
      BY <1>5, <3>1
    <3>3. disk' = disk
      BY <2>1, <3>2 DEF ApplyPushed
    <3>4. QED BY <1>5, <3>2, <3>3 DEF FinishPush
  <2>3. Copies'
    BY <1>1, <1>5, <2>2 DEF Together, Copies
  <2>4. (FramesCarried => FramesCarried') /\ (OwesOrAgrees => OwesOrAgrees')
    BY <1>1, <1>5 DEF FramesCarried, Carried, NewerEdit, OwesOrAgrees, Owes
  <2>5. QED BY <1>2, <2>2, <2>3, <2>4 DEF Together
<1>6. CASE ~job.only /\ mem' # mem
  <2>1. /\ mem'.ver = job.ver /\ mem'.cfg = minted[job.ver] /\ mem'.link # "none"
        /\ disk' = mem'
    BY <1>1, <1>6 DEF FinishPush, ApplyPushed
  <2>2. parted' = (InFlight # {})
    BY <1>6, <2>1 DEF FinishPush
  <2>3. Copies' /\ OwesOrAgrees'
    BY <1>1, <2>1 DEF Together, Copies, OwesOrAgrees
  <2>4. QED BY <1>2, <1>3, <2>2, <2>3 DEF Together
<1>7. QED BY <1>4, <1>5, <1>6

(* The acknowledgement of the one report: what it carried is what the node *)
(* runs, or the edit that overtook it is marked to be reported.            *)
LEMMA TogetherAccepted ==
    ASSUME IInv, Chan, Together, ReceiveAccepted
    PROVE  Together'
<1>. USE Bounds
<1>. DEFINE f == Head(toNode)
<1>1. /\ toNode # <<>> /\ f.type = "accepted" /\ toNode' = Tail(toNode) /\ job.ver = 0
      /\ PersistVersion(f.ver) /\ report' = Acked(report)
      /\ UNCHANGED <<bumps, unseen, job, toServer, minted, parted>>
      /\ phase \in {"session", "posting"}
  BY DEF ReceiveAccepted, Receive, Selecting
<1>2. /\ f = toNode[1] /\ 1 \in 1..Len(toNode) /\ ~None(toNode, "accepted")
      /\ AtMostOne(toNode, "accepted") => None(toNode', "accepted")
  BY <1>1, TailOf
<1>. HIDE DEF f
<1>3. f.ver \in Nat /\ (parted \/ Carried(minted[f.ver]))
  BY <1>1, <1>2 DEF Together, FramesCarried
<1>4. None(toServer', "report") /\ None(toNode', "accepted")
  <2>1. CASE phase = "session"
    BY <1>1, <1>2, <2>1 DEF Chan, Session
  <2>2. CASE phase = "posting"
    <3>1. Len(toServer) + Len(toNode) <= 1
      BY <2>2 DEF Chan, Requests
    <3>2. toServer = <<>> /\ toNode' = <<>>
      BY <1>1, <3>1, LastFrame
    <3>3. QED BY <1>1, <3>2, EmptyNone
  <2>3. QED BY <1>1, <2>1, <2>2
<1>5. /\ mem'.cfg = mem.cfg /\ mem'.link = mem.link
      /\ disk'.cfg = disk.cfg /\ disk'.link = disk.link
      /\ mem'.ver = IF mem.link = "none" THEN 0 ELSE f.ver
  BY <1>1, <1>3, Recorded DEF Together
<1>6. FramesCarried' /\ AcksNumbered' /\ PushCarried' /\ Copies'
  BY <1>1, <1>4, <1>5, NothingCarried DEF Together, Copies, PushCarried, Acked
<1>7. parted \/ OwesOrAgrees'
  <2>1. CASE NewerEdit
    BY <1>1, <2>1 DEF NewerEdit, Acked, OwesOrAgrees, Owes
  <2>2. CASE ~NewerEdit
    BY <1>1, <1>3, <1>5, <2>2 DEF Carried, OwesOrAgrees
  <2>3. QED BY <2>1, <2>2
<1>8. QED BY <1>1, <1>6, <1>7 DEF Together

(* A frame that says nothing; an edit the session comes to know of.        *)
LEMMA TogetherOther ==
    ASSUME IInv, Chan, Together, ReceiveNothing \/ ReceiveEdit
    PROVE  Together'
<1>. USE Bounds
<1>1. CASE ReceiveNothing
  <2>1. /\ toNode # <<>> /\ toNode' = Tail(toNode)
        /\ UNCHANGED <<mem, disk, bumps, unseen, report, job, toServer, minted, parted>>
    BY <1>1 DEF ReceiveNothing, Receive
  <2>2. \A i \in 1..Len(toNode') : i + 1 \in 1..Len(toNode) /\ toNode'[i] = toNode[i + 1]
    BY <2>1, TailOf
  <2>3. Copies' /\ AcksNumbered' /\ PushCarried'
    BY <2>1, <2>2 DEF Together, Copies, AcksNumbered, PushCarried, Carried, NewerEdit
  <2>4. (FramesCarried => FramesCarried') /\ (OwesOrAgrees => OwesOrAgrees')
    BY <2>1, <2>2 DEF FramesCarried, Carried, NewerEdit, OwesOrAgrees, Owes
  <2>5. QED BY <2>1, <2>3, <2>4 DEF Together
<1>2. CASE ReceiveEdit
  <2>1. /\ phase = "session" /\ job.ver = 0 /\ report \in ReportState
        /\ report' = MarkEdit(report)
        /\ UNCHANGED <<mem, disk, bumps, job, minted, parted>>
        /\ \/ UNCHANGED <<toServer, toNode>>
           \/ toServer' = <<>> /\ toNode' = <<>>
    BY <1>2 DEF ReceiveEdit, Selecting, CloseSocket, netVars, IInv, TypeOK
  <2>2. Copies' /\ PushCarried' /\ OwesOrAgrees'
    BY <2>1 DEF Together, Copies, PushCarried, MarkEdit, ReportState, OwesOrAgrees, Owes
  <2>3. AcksNumbered'
    BY <2>1, EmptyNone DEF Together, AcksNumbered
  <2>4. FramesCarried'
    <3>1. CASE report.awaiting
      <4>1. NewerEdit'
        BY <2>1, <3>1 DEF NewerEdit, MarkEdit, ReportState
      <4>2. QED BY <4>1, NewerEditCarries
    <3>2. CASE ~report.awaiting
      <4>1. None(toServer, "report") /\ None(toNode, "accepted")
        BY <2>1, <3>2 DEF Chan, Session
      <4>2. None(toServer', "report") /\ None(toNode', "accepted")
        BY <2>1, <4>1, EmptyNone
      <4>3. QED BY <4>2, NothingCarried
    <3>3. QED BY <3>1, <3>2
  <2>5. QED BY <2>2, <2>3, <2>4 DEF Together
<1>3. QED BY <1>1, <1>2

(* What the website's step leaves to be agreed on: the ledger only grows,  *)
(* frames only leave, and an acknowledgement it sends is of what the node  *)
(* runs.                                                                   *)
LEMMA TogetherAnswer ==
    ASSUME IInv, Together, UNCHANGED <<mem, disk, bumps, unseen, report, job, parted>>,
           minted' = minted \/ \E c : minted' = Append(minted, c),
           toServer' = toServer \/ (toServer # <<>> /\ toServer' = Tail(toServer)),
           \/ toNode' = toNode
           \/ \E e : /\ toNode' = Append(toNode, e)
                     /\ e.type = "accepted" =>
                           e.ver # 0 /\ (parted \/ Carried(minted'[e.ver]))
    PROVE  Together'
<1>. USE Bounds
<1>1. \A v \in Nat : v # 0 /\ v <= Version => minted'[v] = minted[v]
  <2>1. \A v \in Nat : v # 0 /\ v <= Version => v \in 1..Len(minted)
    BY DEF Version
  <2>2. CASE \E c : minted' = Append(minted, c)
    BY <2>1, <2>2, AppendOf
  <2>3. QED BY <2>2
<1>2. \A cfg : Carried(cfg)' <=> Carried(cfg)
  BY DEF Carried, NewerEdit
<1>3. \A i \in 1..Len(toServer') : \E k \in 1..Len(toServer) : toServer'[i] = toServer[k]
  <2>1. CASE toServer # <<>> /\ toServer' = Tail(toServer)
    BY <2>1, TailOf
  <2>2. QED BY <2>1
<1>4. \A j \in 1..Len(toNode') : toNode'[j].type = "accepted" =>
          toNode'[j].ver # 0 /\ (parted \/ Carried(minted'[toNode'[j].ver]))
  <2>1. \A j \in 1..Len(toNode) : toNode[j].type = "accepted" =>
            toNode[j].ver # 0 /\ (parted \/ Carried(minted'[toNode[j].ver]))
    BY <1>1 DEF Together, FramesCarried, AcksNumbered
  <2>2. CASE toNode' = toNode
    BY <2>1, <2>2
  <2>3. CASE toNode' # toNode
    <3>1. PICK e : /\ toNode' = Append(toNode, e)
                   /\ e.type = "accepted" =>
                         e.ver # 0 /\ (parted \/ Carried(minted'[e.ver]))
      BY <2>3
    <3>2. \A j \in 1..Len(toNode') :
              (j \in 1..Len(toNode) /\ toNode'[j] = toNode[j]) \/ toNode'[j] = e
      BY <3>1, AppendOf
    <3>3. QED BY <2>1, <3>1, <3>2
  <2>4. QED BY <2>2, <2>3
<1>5. Copies' /\ AcksNumbered'
  BY <1>4 DEF Together, Copies, AcksNumbered
<1>6. PushCarried'
  BY <1>1, <1>2 DEF Together, PushCarried, Carried, NewerEdit
<1>7. parted \/ FramesCarried'
  BY <1>2, <1>3, <1>4 DEF Together, FramesCarried, Carried, NewerEdit
<1>8. parted \/ OwesOrAgrees'
  BY <1>1 DEF Together, OwesOrAgrees, Owes
<1>9. QED BY <1>5, <1>6, <1>7, <1>8 DEF Together

(* The website answers, and is edited.                                     *)
LEMMA TogetherServer ==
    ASSUME IInv, Chan, Together, Server \/ \E c \in Config \ Refused : WebEdit(c)
    PROVE  Together'
<1>. USE Bounds
<1>1. UNCHANGED <<mem, disk, bumps, unseen, report, job, parted>>
  BY DEF Server, ServerHello, ServerReport, ServerGet, WebEdit, nodeVars
<1>2. CASE \E c \in Config \ Refused : WebEdit(c)
  <2>1. PICK c \in Config \ Refused : WebEdit(c)
    BY <1>2
  <2>2. minted' = Append(minted, c) /\ toServer' = toServer
    BY <2>1 DEF WebEdit
  <2>3. toNode' = toNode \/ \E e : toNode' = Append(toNode, e) /\ e.type # "accepted"
    BY <2>1 DEF WebEdit, Reply
  <2>4. QED BY <1>1, <2>2, <2>3, TogetherAnswer
<1>3. CASE Server
  <2>. DEFINE f == Head(toServer)
  <2>1. toServer # <<>> /\ toServer' = Tail(toServer)
    BY <1>3 DEF Server, ServerHello, ServerReport, ServerGet, Handle
  <2>2. f = toServer[1] /\ 1 \in 1..Len(toServer) /\ ~None(toServer, f.type)
    BY <2>1, TailOf
  <2>. HIDE DEF f
  <2>3. CASE f.type = "report"
    <3>1. Mint(f.cfg)
      BY <1>3, <2>3 DEF f, Server, ServerHello, ServerReport, ServerGet, Handle
    <3>2. parted \/ Carried(f.cfg)
      BY <2>2, <2>3 DEF Together, FramesCarried
    <3>3. CASE f.cfg \in Refused
      <4>1. minted' = minted /\ \E e : toNode' = Append(toNode, e) /\ e.type # "accepted"
        BY <3>1, <3>3 DEF Mint, Reply
      <4>2. QED BY <1>1, <2>1, <4>1, TogetherAnswer
    <3>4. CASE f.cfg \notin Refused
      <4>. DEFINE e == [type |-> "accepted", ver |-> Version + 1]
      <4>1. /\ toNode' = Append(toNode, e) /\ e.ver = Version + 1
            /\ minted' = Append(minted, f.cfg)
        BY <3>1, <3>4 DEF Mint, Reply
      <4>. HIDE DEF e
      <4>2. minted'[e.ver] = f.cfg /\ e.ver # 0
        BY <4>1, AppendOf DEF Version
      <4>3. QED BY <1>1, <2>1, <3>2, <4>1, <4>2, TogetherAnswer
    <3>5. QED BY <3>3, <3>4
  <2>4. CASE f.type # "report"
    <3>1. Version # 0 \/ f.type # "hello"
      BY <2>2 DEF Chan, Known
    <3>2. minted' = minted
      BY <1>3, <2>4, <3>1 DEF f, Server, ServerHello, ServerReport, ServerGet, Handle, Version
    <3>3. toNode' = toNode \/ \E e : toNode' = Append(toNode, e) /\ e.type # "accepted"
      <4>1. CASE ServerHello
        BY <3>1, <4>1 DEF f, ServerHello, Handle, Reply
      <4>2. CASE ServerGet
        BY <4>2 DEF ServerGet, Reply
      <4>3. QED BY <1>3, <2>4, <4>1, <4>2 DEF f, Server, ServerReport, Handle
    <3>4. QED BY <1>1, <2>1, <3>2, <3>3, TogetherAnswer
  <2>5. QED BY <2>3, <2>4
<1>4. QED BY <1>2, <1>3

(* Every step leaves them together, or parts them.                         *)
LEMMA TogetherStep == IInv /\ Chan /\ Together /\ [Next]_vars => Together'
<1>. SUFFICES ASSUME IInv, Chan, Together, [Next]_vars PROVE Together'
  OBVIOUS
<1>1. CASE SyncTask
  BY <1>1, TogetherIdle, TogetherForgets, TogetherSend, TogetherBegin, TogetherFinish,
     TogetherAccepted, TogetherOther DEF SyncTask
<1>2. CASE Poll \/ Connect \/ ConnectFails \/ SkipPoll \/ Drop \/ PollFails \/ Restart
  BY <1>2, TogetherIdle, TogetherSend, TogetherForgets DEF Poll
<1>3. CASE Server \/ \E c \in Config \ Refused : WebEdit(c)
  BY <1>3, TogetherServer
<1>4. CASE Bump \/ \E c \in Config, l \in Link : PutConfig(c, l)
  BY <1>4, TogetherEdit
<1>5. CASE UNCHANGED vars
  BY <1>5 DEF vars, Together, Copies, AcksNumbered, PushCarried, FramesCarried, Carried,
              NewerEdit, OwesOrAgrees, Owes
<1>6. QED BY <1>1, <1>2, <1>3, <1>4, <1>5 DEF Next

(* They start together.                                                    *)
LEMMA InitTogether == Init => Together
<1>. SUFFICES ASSUME Init PROVE Together
  OBVIOUS
<1>1. PICK setup \in Setups : InitConfig(setup.start)
  BY DEF Init
<1>2. PICK c \in Config, s \in Config \ Refused :
          /\ minted = IF setup.start = "new" THEN <<>> ELSE <<s>>
          /\ setup.start = "synced" => c = s
          /\ mem = [ver |-> IF setup.start = "synced" THEN 1 ELSE 0,
                    cfg |-> c, link |-> "token"]
  BY <1>1 DEF InitConfig
<1>3. /\ toServer = <<>> /\ toNode = <<>> /\ job.ver = 0 /\ disk = mem /\ report = NoReport
  BY DEF Init, NoJob
<1>4. mem.ver # 0 => mem.ver = 1 /\ mem.cfg = minted[1]
  BY <1>2, SingleFrame
<1>5. Copies /\ AcksNumbered /\ PushCarried
  BY <1>2, <1>3, EmptyNone DEF Copies, AcksNumbered, PushCarried, NoReport
<1>6. FramesCarried /\ OwesOrAgrees
  BY <1>3, <1>4, EmptyNone DEF FramesCarried, OwesOrAgrees
<1>7. QED BY <1>5, <1>6 DEF Together

-----------------------------------------------------------------------------
(* Agreement                                                               *)

(* "keeps the node and the website in agreement": whatever either side     *)
(* edits, and whatever is lost, refused, not written or restarted, a node  *)
(* that owes the website nothing runs the content its version was minted   *)
(* for, except after one of the three ways an edit slips away (parted) and *)
(* until the next report or push.  The website has a config, so that an    *)
(* adoption is not taken for the answer to a report.                       *)
THEOREM Agreement == SiteHasConfig /\ Spec => []AgreesUnlessParted
<1>. DEFINE I == IInv /\ Chan /\ Together
<1>1. Init /\ SiteHasConfig => I
  BY InitInv, InitChan, InitTogether
<1>2. I /\ [Next]_vars => I'
  BY NextInv, ChanStep, TogetherStep
<1>3. I => AgreesUnlessParted
  BY DEF Together, AgreesUnlessParted
<1>4. QED BY <1>1, <1>2, <1>3, PTL DEF Spec

(* A node that nobody edits runs what its version was minted for at every  *)
(* moment, also where its own config was adopted from its hello, through   *)
(* drops, failed writes and restarts at any point.                         *)
NodeUnedited ==
    \A setup \in Setups : setup.budget["local"] = 0 /\ setup.budget["unlink"] = 0
LEMMA InitAlone == Init /\ NodeUnedited => WebsiteAlone
<1>. SUFFICES ASSUME Init, NodeUnedited PROVE WebsiteAlone
  OBVIOUS
<1>1. PICK setup \in Setups : InitConfig(setup.start) /\ budget = setup.budget
  BY DEF Init
<1>2. PICK c \in Config, s \in Config \ Refused :
          /\ minted = IF setup.start = "new" THEN <<>> ELSE <<s>>
          /\ setup.start = "synced" => c = s
          /\ mem = [ver |-> IF setup.start = "synced" THEN 1 ELSE 0,
                    cfg |-> c, link |-> "token"]
  BY <1>1 DEF InitConfig
<1>3. /\ toServer = <<>> /\ toNode = <<>> /\ job.ver = 0 /\ disk = mem /\ bumps = 0
      /\ unseen = FALSE /\ report = NoReport /\ phase = "idle" /\ mem.link = "token"
  BY <1>2 DEF Init, NoJob
<1>4. mem.ver # 0 => mem.ver = 1 /\ mem.cfg = minted[1]
  BY <1>2, SingleFrame
<1>5. QED
  BY <1>1, <1>3, <1>4, EmptyNone
  DEF NodeUnedited, WebsiteAlone, NothingToTell, CopiesMinted, HelloFirst, Minted, NoReport
THEOREM UneditedFollows == NodeUnedited /\ Spec => []OwesOrAgrees
<1>. DEFINE I == IInv /\ WebsiteAlone
<1>1. Init /\ NodeUnedited => I
  BY InitInv, InitAlone
<1>2. I /\ [Next]_vars => I'
  BY NextInv, AloneStep
<1>3. I => OwesOrAgrees
  BY DEF WebsiteAlone, CopiesMinted, Minted, OwesOrAgrees
<1>4. QED BY <1>1, <1>2, <1>3, PTL DEF Spec
=============================================================================
