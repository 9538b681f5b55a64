--------------------------- MODULE DeviceLinkProofs ---------------------------
(***************************************************************************)
(* Proofs about DeviceLink, for every number of devices, connections,        *)
(* readings, reboots and restarts and for every set of faults.              *)
(***************************************************************************)
EXTENDS DeviceLink, FiniteSetTheorems, SequenceTheorems, TLAPS

(* A device sends on a connection of its own, a handler thread that works    *)
(* has a frame, and a connection not yet opened has no thread at work.       *)
WorkInv ==
  /\ \A d \in Devices : link[d] # None => link[d] \in Opened
  /\ \A c \in Conns : hpc[c] \in {"process", "forward"} => frame[c] \in Frame
  /\ \A c \in Conns \ Opened : hpc[c] = "read"

TypeInv == TypeOK /\ WorkInv

(* The mark of a device is above every number accepted from it.              *)
MarkInv ==
  \A d \in Devices : \A i \in 1..Len(accepted[d]) :
    seen[d] # None /\ accepted[d][i].seq <= seen[d]

IInv == TypeInv /\ MarkInv /\ AcceptedIncreasing
-----------------------------------------------------------------------------
(* Type correctness.                                                        *)

(* The initial state satisfies the type invariant.                          *)
LEMMA TypeInit == Init => TypeInv
  BY DeviceAssumption
  DEF Init, TypeInv, TypeOK, WorkInv, Opened, Conns, Counters

(* A step that leaves every variable unchanged keeps the type invariant.     *)
LEMMA TypeStutter == TypeInv /\ UNCHANGED vars => TypeInv'
  BY DEF TypeInv, TypeOK, WorkInv, Opened, vars, deviceVars, connVars, historyVars

(* Connections that have been opened are connections.                       *)
LEMMA OpenedConns == TypeOK => Opened \subseteq Conns /\ Len(owner) \in Nat
  BY DeviceAssumption DEF TypeOK, Opened, Conns

(* Each of them was opened by a device.                                     *)
LEMMA OwnerKnown == TypeOK => \A c \in Opened : owner[c] \in Devices
  <1> SUFFICES ASSUME TypeOK, NEW c \in Opened PROVE owner[c] \in Devices
    OBVIOUS
  <1>1. owner \in Seq(Devices) /\ c \in 1..Len(owner)
    BY DEF TypeOK, Opened
  <1>2. QED
    BY <1>1, ElementOfSeq

(* Counters count.                                                          *)
LEMMA BumpType ==
  ASSUME TypeOK, NEW names, Bump(names)
  PROVE  stats' \in [Counters -> Nat]
  BY DEF TypeOK, Bump

(* Steps of a device.                                                       *)
LEMMA TypeDevice ==
  ASSUME TypeInv, NEW d \in Devices,
         DeviceStep(d) \/ Send(d, "long") \/ Reboot(d)
  PROVE  TypeInv'
  <1> USE DEF TypeInv, WorkInv, connVars, deviceVars, historyVars
  <1>1. CASE Connect(d)
    <2>1. /\ Len(owner) \in Nat /\ Len(owner) + 1 \in Conns /\ Len(owner') = Len(owner) + 1
          /\ owner' \in Seq(Devices) /\ Len(owner') <= MaxConns
      BY <1>1, DeviceAssumption DEF TypeOK, Connect, Conns
    <2>2. Opened \subseteq Opened' /\ Len(owner) + 1 \in Opened'
      BY <2>1 DEF Opened
    <2>3. QED
      BY <1>1, <2>1, <2>2 DEF TypeOK, Connect
  <1>2. ASSUME NEW bytes \in {"whole", "cut", "long"}, link[d] # None, seq[d] < MaxSeq
        PROVE  /\ FrameOf(d, bytes) \in Frame
               /\ seq[d] + 1 \in 0..MaxSeq
               /\ link[d] \in Conns
               /\ Append(chan[link[d]], FrameOf(d, bytes)) \in Seq(Frame)
    <2>1. FrameOf(d, bytes) \in Frame /\ seq[d] + 1 \in 0..MaxSeq /\ link[d] \in Conns
      BY <1>2, DeviceAssumption DEF TypeOK, FrameOf, Frame
    <2>2. QED
      BY <2>1 DEF TypeOK
  <1>3. UNCHANGED owner => Opened' = Opened
    BY DEF Opened
  <1>4. ASSUME NEW bytes \in {"whole", "long"}, Send(d, bytes) PROVE TypeInv'
    BY <1>2, <1>3, <1>4 DEF TypeOK, Send
  <1>5. CASE SendFails(d)
    BY <1>2, <1>3, <1>5 DEF TypeOK, SendFails
  <1>6. CASE Reboot(d)
    BY <1>3, <1>6, DeviceAssumption DEF TypeOK, Reboot
  <1>7. QED
    BY <1>1, <1>4, <1>5, <1>6 DEF DeviceStep

(* Steps of a handler thread.                                               *)
LEMMA TypeHandler ==
  ASSUME TypeInv, NEW c \in Opened, HandlerStep(c)
  PROVE  TypeInv'
  <1>1. c \in Conns
    BY OpenedConns DEF TypeInv
  <1>2. CASE UNCHANGED owner
    <2>1. Opened' = Opened
      BY <1>2 DEF Opened
    <2> USE <1>1, <1>2, <2>1 DEF TypeInv, WorkInv, connVars, deviceVars, historyVars
    <2>2. CASE ReadLine(c)
      <3>1. chan[c] \in Seq(Frame) /\ chan[c] # <<>>
        BY <2>2 DEF TypeOK, ReadLine
      <3>2. Head(chan[c]) \in Frame /\ Tail(chan[c]) \in Seq(Frame)
        BY <3>1, HeadTailProperties
      <3>3. QED
        <4>1. chan' \in [Conns -> Seq(Frame)] /\ stats' \in [Counters -> Nat]
          <5>1. chan' = [chan EXCEPT ![c] = Tail(chan[c])]
            BY <2>2 DEF ReadLine
          <5>2. Bump({"frames_rejected"}) \/ Bump({"frames_received"})
            BY <2>2 DEF ReadLine
          <5>3. chan' \in [Conns -> Seq(Frame)]
            BY <3>2, <5>1 DEF TypeOK
          <5>4. stats' \in [Counters -> Nat]
            BY <5>2, BumpType
          <5>5. QED
            BY <5>3, <5>4
        <4>2. CASE Head(chan[c]).bytes = "long"
          <5>1. oversized' = oversized + 1 /\ UNCHANGED <<hpc, frame>>
            BY <2>2, <4>2 DEF ReadLine
          <5>2. QED
            BY <2>2, <4>1, <5>1 DEF TypeOK, ReadLine
        <4>3. CASE Head(chan[c]).bytes # "long"
          <5>1. /\ UNCHANGED oversized
                /\ hpc' = [hpc EXCEPT ![c] = "process"]
                /\ frame' = [frame EXCEPT ![c] = Head(chan[c])]
            BY <2>2, <4>3 DEF ReadLine
          <5>2. QED
            BY <2>2, <3>2, <4>1, <5>1 DEF TypeOK, ReadLine
        <4>4. QED
          BY <4>2, <4>3
    <2>3. CASE Reject(c)
      BY <2>3 DEF TypeOK, Reject, Bump, NextLine
    <2>4. CASE DropStale(c)
      BY <2>4 DEF TypeOK, DropStale, Bump, NextLine
    <2>5. CASE Accept(c)
      <3>1. frame[c] \in Frame /\ accepted[owner[c]] \in Seq(Frame) /\ owner[c] \in Devices
        BY <2>5 DEF TypeOK, Accept, Opened
      <3>2. frame[c].seq \in Nat /\ Append(accepted[owner[c]], frame[c]) \in Seq(Frame)
        BY <3>1 DEF Frame
      <3>3. QED
        BY <2>5, <3>1, <3>2 DEF TypeOK, Accept
    <2>6. CASE Forward(c)
      <3>1. stats' \in [Counters -> Nat]
        BY <2>6 DEF TypeOK, Forward, Bump
      <3>2. QED
        BY <2>6, <3>1 DEF TypeOK, Forward, NextLine
    <2>7. CASE Disconnect(c)
      BY <2>7 DEF TypeOK, Disconnect
    <2>8. QED
      BY <2>2, <2>3, <2>4, <2>5, <2>6, <2>7 DEF HandlerStep
  <1>3. QED
    BY <1>2 DEF HandlerStep, ReadLine, Reject, DropStale, Accept, Forward, Disconnect, connVars

(* The network and a restart of the gateway.                                *)
LEMMA TypeFault ==
  ASSUME TypeInv, (\E c \in Opened : LinkReset(c)) \/ Restart
  PROVE  TypeInv'
  <1> USE DEF TypeInv, WorkInv, deviceVars, historyVars
  <1>1. Opened' = Opened
    BY DEF Opened, LinkReset, Restart
  <1>2. CASE \E c \in Opened : LinkReset(c)
    <2>1. PICK c \in Opened : LinkReset(c)
      BY <1>2
    <2>2. PICK n \in 0..Len(chan[c]) : chan' = [chan EXCEPT ![c] = SubSeq(@, 1, n)]
      BY <2>1 DEF LinkReset
    <2>3. c \in Conns
      BY OpenedConns
    <2>4. SubSeq(chan[c], 1, n) \in Seq(Frame)
      BY <2>3, SubSeqProperties DEF TypeOK
    <2>5. QED
      BY <1>1, <2>1, <2>2, <2>3, <2>4 DEF TypeOK, LinkReset
  <1>3. CASE Restart
    BY <1>1, <1>3, DeviceAssumption DEF TypeOK, Restart
  <1>4. QED
    BY <1>2, <1>3

(* Every step of the system falls under one of the lemmas above.            *)
LEMMA TypeStep == TypeInv /\ [Next]_vars => TypeInv'
  <1> SUFFICES ASSUME TypeInv, [Next]_vars PROVE TypeInv'
    OBVIOUS
  <1>1. CASE \E d \in Devices : DeviceStep(d) \/ Send(d, "long") \/ Reboot(d)
    BY <1>1, TypeDevice
  <1>2. CASE \E c \in Opened : HandlerStep(c)
    BY <1>2, TypeHandler
  <1>3. CASE (\E c \in Opened : LinkReset(c)) \/ Restart
    BY <1>3, TypeFault
  <1>4. CASE UNCHANGED vars
    BY <1>4, TypeStutter
  <1>5. QED
    BY <1>1, <1>2, <1>3, <1>4 DEF Next

(* Each variable keeps to its set: threads at work hold a frame, devices     *)
(* send on opened connections, counters never leave the naturals.           *)
THEOREM TypeCorrect == Spec => []TypeOK
  <1>1. TypeInv => TypeOK
    BY DEF TypeInv
  <1>2. QED
    BY <1>1, TypeInit, TypeStep, PTL DEF Spec
-----------------------------------------------------------------------------
(* Sequence numbers.                                                        *)

(* A step that accepts no frame and leaves every mark alone keeps the marks. *)
LEMMA MarkUntouched ==
  ASSUME IInv, UNCHANGED <<seen, accepted>>
  PROVE  MarkInv' /\ AcceptedIncreasing'
  BY DEF IInv, MarkInv, AcceptedIncreasing

(* An accepted frame is above the mark and becomes the mark.                 *)
LEMMA MarkAccept ==
  ASSUME IInv, NEW c \in Opened, Accept(c)
  PROVE  MarkInv' /\ AcceptedIncreasing'
  <1> DEFINE d == owner[c]
             old == accepted[d]
             new == accepted'[d]
  <1>1. c \in Conns /\ d \in Devices
    BY OpenedConns, OwnerKnown DEF IInv, TypeInv
  <1>2. frame[c] \in Frame /\ frame[c].seq \in Nat /\ old \in Seq(Frame)
    BY <1>1 DEF IInv, TypeInv, WorkInv, TypeOK, Accept, Frame
  <1>3. seen[d] \in Nat \cup {None} /\ seen'[d] = frame[c].seq
    BY <1>1 DEF Accept, IInv, TypeInv, TypeOK
  <1>4. seen[d] # None => seen[d] < frame[c].seq
    BY <1>2, <1>3 DEF Accept, IsStale
  <1>5. /\ Len(old) \in Nat
        /\ Len(new) = Len(old) + 1
        /\ new[Len(old) + 1] = frame[c]
        /\ \A i \in 1..Len(old) : new[i] = old[i] /\ old[i] \in Frame
    <2>1. new = Append(old, frame[c])
      BY <1>1 DEF Accept, IInv, TypeInv, TypeOK
    <2> HIDE DEF old, new
    <2>2. QED
      BY <1>2, <2>1
  <1>6. \A e \in Devices \ {d} : accepted'[e] = accepted[e] /\ seen'[e] = seen[e]
    BY <1>1 DEF Accept, IInv, TypeInv, TypeOK
  <1>7. \A i \in 1..Len(old) : new[i].seq \in Nat /\ new[i].seq < frame[c].seq
    <2>1. \A i \in 1..Len(old) : seen[d] # None /\ old[i].seq <= seen[d]
      BY <1>1 DEF IInv, MarkInv
    <2>2. \A i \in 1..Len(old) : old[i].seq \in Nat
      BY <1>5 DEF Frame
    <2> HIDE DEF d, old, new
    <2>3. QED
      BY <1>2, <1>3, <1>4, <1>5, <2>1, <2>2
  <1>8. MarkInv'
    <2>1. \A i \in 1..Len(new) : seen'[d] # None /\ new[i].seq <= seen'[d]
      <3> HIDE DEF d, old, new
      <3> QED BY <1>2, <1>3, <1>5, <1>7, DeviceAssumption
    <2>2. QED
      BY <1>6, <2>1 DEF IInv, MarkInv
  <1>9. AcceptedIncreasing'
    <2>1. \A i, j \in 1..Len(new) : i < j => new[i].seq < new[j].seq
      <3>1. \A i, j \in 1..Len(old) : i < j => old[i].seq < old[j].seq
        BY <1>1 DEF IInv, AcceptedIncreasing
      <3> HIDE DEF d, old, new
      <3> QED BY <1>2, <1>5, <1>7, <3>1
    <2>2. QED
      BY <1>6, <2>1 DEF IInv, AcceptedIncreasing
  <1>10. QED
    BY <1>8, <1>9

(* Every step keeps the inductive invariant.                                *)
LEMMA InvStep == IInv /\ [Next]_vars => IInv'
  <1> SUFFICES ASSUME IInv, [Next]_vars PROVE MarkInv' /\ AcceptedIncreasing'
    BY TypeStep DEF IInv
  <1>1. CASE \E c \in Opened : Accept(c)
    BY <1>1, MarkAccept
  <1>2. CASE Restart
    BY <1>2 DEF Restart, MarkInv, AcceptedIncreasing
  <1>3. CASE ~Restart /\ ~(\E c \in Opened : Accept(c))
    <2>1. UNCHANGED <<seen, accepted>>
      BY <1>3 DEF Next, vars, DeviceStep, Connect, Send, SendFails, Reboot, HandlerStep,
                  ReadLine, Reject, DropStale, Forward, Disconnect, LinkReset, historyVars
    <2>2. QED
      BY <2>1, MarkUntouched
  <1>4. QED
    BY <1>1, <1>2, <1>3

(* The inductive invariant holds in every reachable state.                  *)
LEMMA InvHolds == Spec => []IInv
  <1>1. Init => IInv
    BY TypeInit DEF Init, IInv, MarkInv, AcceptedIncreasing
  <1>2. QED
    BY <1>1, InvStep, PTL DEF Spec

(* The numbers accepted from a device strictly increase during one life of   *)
(* the gateway, for any number of devices, threads, reconnections and        *)
(* reboots: no frame is accepted twice.                                     *)
THEOREM NumbersIncrease == Spec => []AcceptedIncreasing
  <1>1. IInv => AcceptedIncreasing
    BY DEF IInv
  <1>2. QED
    BY <1>1, InvHolds, PTL
-----------------------------------------------------------------------------
(* Counters.                                                                *)

(* The counters are numbers, and so is the number of lines in work.          *)
LEMMA AccountType ==
  ASSUME TypeOK
  PROVE  /\ \A n \in Counters : stats[n] \in Nat
         /\ oversized \in Nat
         /\ IsFiniteSet(Busy)
         /\ Cardinality(Busy) \in Nat
  <1>1. IsFiniteSet(Opened)
    BY OpenedConns, FS_Interval DEF Opened
  <1>2. Busy \in SUBSET Opened
    BY DEF Busy
  <1>3. IsFiniteSet(Busy) /\ Cardinality(Busy) \in Nat
    BY <1>1, <1>2, FS_Subset, FS_CardinalityType
  <1>4. QED
    BY <1>3 DEF TypeOK

(* A step of which the counters and the lines in work take no part.          *)
LEMMA AccountUntouched ==
  ASSUME FramesAccounted, UNCHANGED <<stats, oversized>>, Busy' = Busy
  PROVE  FramesAccounted'
  BY DEF FramesAccounted

(* A line is taken up: it is counted as received and is in work.             *)
LEMMA AccountTaken ==
  ASSUME TypeInv, FramesAccounted, NEW c \in Opened,
         c \notin Busy, Busy' = Busy \cup {c},
         Bump({"frames_received"}), UNCHANGED oversized
  PROVE  FramesAccounted'
  <1>1. Cardinality(Busy') = Cardinality(Busy) + 1
    BY AccountType, FS_AddElement DEF TypeInv
  <1>2. /\ stats'["frames_received"] = stats["frames_received"] + 1
        /\ \A n \in Counters \ {"frames_received"} : stats'[n] = stats[n]
    BY DEF Bump, Counters
  <1>3. QED
    BY <1>1, <1>2, AccountType DEF TypeInv, FramesAccounted, Counters

(* A line in work meets its fate: one of four counters.                      *)
LEMMA AccountDone ==
  ASSUME TypeInv, FramesAccounted, NEW c \in Busy, Busy' = Busy \ {c},
         NEW fate \in {"frames_rejected", "replays_dropped", "forwarded_ok", "forward_failed"},
         Bump({fate}), UNCHANGED oversized
  PROVE  FramesAccounted'
  <1>1. Cardinality(Busy') = Cardinality(Busy) - 1
    BY AccountType, FS_RemoveElement DEF TypeInv
  <1>2. fate \in Counters /\ stats'[fate] = stats[fate] + 1
    BY DEF Bump, Counters
  <1>3. \A n \in Counters \ {fate} : stats'[n] = stats[n]
    BY DEF Bump, Counters
  <1>4. QED
    BY <1>1, <1>2, <1>3, AccountType DEF TypeInv, FramesAccounted, Counters

(* Steps of a handler thread: each line is counted by its fate.              *)
LEMMA AccountHandler ==
  ASSUME TypeInv, FramesAccounted, NEW c \in Opened, HandlerStep(c)
  PROVE  FramesAccounted'
  <1>1. hpc \in [Conns -> {"read", "process", "forward", "done"}] /\ c \in Conns
        /\ Opened \subseteq Conns
    BY OpenedConns DEF TypeInv, TypeOK
  <1>2. Opened' = Opened
    BY DEF HandlerStep, ReadLine, Reject, DropStale, Accept, Forward, Disconnect, connVars, Opened
  <1>3. ASSUME hpc[c] \in {"process", "forward"}, NextLine(c)
        PROVE  c \in Busy /\ Busy' = Busy \ {c}
    BY <1>1, <1>2, <1>3 DEF NextLine, Busy
  <1>4. CASE ReadLine(c)
    <2>1. CASE Head(chan[c]).bytes = "long"
      <3>1. Bump({"frames_rejected"}) /\ oversized' = oversized + 1 /\ UNCHANGED hpc
        BY <1>4, <2>1 DEF ReadLine
      <3>2. Busy' = Busy
        BY <1>2, <3>1 DEF Busy
      <3>3. /\ stats'["frames_rejected"] = stats["frames_rejected"] + 1
            /\ \A n \in Counters \ {"frames_rejected"} : stats'[n] = stats[n]
        BY <3>1 DEF Bump, Counters
      <3>4. QED
        BY <3>1, <3>2, <3>3, AccountType DEF TypeInv, FramesAccounted, Counters
    <2>2. CASE Head(chan[c]).bytes # "long"
      <3>1. /\ Bump({"frames_received"})
            /\ UNCHANGED oversized
            /\ hpc[c] = "read"
            /\ hpc' = [hpc EXCEPT ![c] = "process"]
        BY <1>4, <2>2 DEF ReadLine
      <3>2. c \notin Busy /\ Busy' = Busy \cup {c}
        BY <1>1, <1>2, <3>1 DEF Busy
      <3>3. QED
        BY <3>1, <3>2, AccountTaken
    <2>3. QED
      BY <2>1, <2>2
  <1>5. CASE Reject(c)
    BY <1>3, <1>5, AccountDone DEF Reject, historyVars
  <1>6. CASE DropStale(c)
    BY <1>3, <1>6, AccountDone DEF DropStale
  <1>7. CASE Accept(c)
    <2>1. Busy' = Busy
      BY <1>1, <1>2, <1>7 DEF Accept, Busy
    <2>2. QED
      BY <1>7, <2>1, AccountUntouched DEF Accept
  <1>8. CASE Forward(c)
    BY <1>3, <1>8, AccountDone DEF Forward, historyVars
  <1>9. CASE Disconnect(c)
    <2>1. Busy' = Busy
      BY <1>1, <1>2, <1>9 DEF Disconnect, Busy
    <2>2. QED
      BY <1>9, <2>1, AccountUntouched DEF Disconnect, historyVars
  <1>10. QED
    BY <1>4, <1>5, <1>6, <1>7, <1>8, <1>9 DEF HandlerStep

(* The other steps: a new connection has no line in work, and a restart      *)
(* empties the books.                                                       *)
LEMMA AccountOther ==
  ASSUME TypeInv, FramesAccounted, [Next]_vars, ~(\E c \in Opened : HandlerStep(c))
  PROVE  FramesAccounted'
  <1>1. CASE \E d \in Devices : Connect(d)
    <2>1. PICK d \in Devices : Connect(d)
      BY <1>1
    <2>2. Len(owner) \in Nat /\ Len(owner) < MaxConns /\ Len(owner') = Len(owner) + 1
      BY <2>1, OpenedConns DEF Connect, TypeInv, TypeOK
    <2>3. /\ Len(owner) + 1 \in Conns \ Opened
          /\ Opened' = Opened \cup {Len(owner) + 1}
      BY <2>2, DeviceAssumption DEF Opened, Conns
    <2>4. UNCHANGED <<hpc, stats, oversized>>
      BY <2>1 DEF Connect, historyVars
    <2>5. Busy' = Busy
      BY <2>3, <2>4 DEF Busy, TypeInv, WorkInv
    <2>6. QED
      BY <2>4, <2>5, AccountUntouched
  <1>2. CASE Restart
    <2>1. Busy' = {}
      BY <1>2, OpenedConns DEF Restart, Busy, Opened, TypeInv
    <2>2. Cardinality(Busy') = 0
      BY <2>1, FS_EmptySet
    <2>3. oversized' = 0 /\ \A n \in Counters : stats'[n] = 0
      BY <1>2 DEF Restart
    <2>4. QED
      BY <2>2, <2>3 DEF FramesAccounted, Counters
  <1>3. CASE ~Restart /\ ~(\E d \in Devices : Connect(d))
    <2>1. UNCHANGED <<owner, hpc, stats, oversized>>
      BY <1>3 DEF Next, vars, DeviceStep, Send, SendFails, Reboot, LinkReset, connVars, historyVars
    <2>2. QED
      BY <2>1, AccountUntouched DEF Busy, Opened
  <1>4. QED
    BY <1>1, <1>2, <1>3

(* Every line a handler thread takes up is counted by exactly one fate, for  *)
(* any number of threads that share the counters.                           *)
THEOREM EveryFrameAccounted == Spec => []FramesAccounted
  <1>1. Init => FramesAccounted
    <2> SUFFICES ASSUME Init PROVE FramesAccounted
      OBVIOUS
    <2>1. Busy = {}
      BY DEF Init, Busy, Opened
    <2>2. QED
      BY <2>1, FS_EmptySet DEF Init, FramesAccounted, Counters
  <1>2. TypeInv /\ FramesAccounted /\ [Next]_vars => FramesAccounted'
    BY AccountHandler, AccountOther
  <1>3. QED
    BY <1>1, <1>2, TypeInit, TypeStep, PTL DEF Spec
-----------------------------------------------------------------------------
(* The order of the frames of a device, over all its connections: why a      *)
(* frame is dropped as stale only when another one overtook it.             *)

(* The frames of connection c the tracker has yet to judge.                  *)
Waiting(c) ==
  {chan[c][i] : i \in 1..Len(chan[c])} \cup (IF hpc[c] = "process" THEN {frame[c]} ELSE {})

(* Connection c has carried frame f, of a boot and with a number its device  *)
(* has reached.                                                             *)
SentOn(c, f) ==
  /\ f \in Frame
  /\ f.conn = c
  /\ f.boot <= boots[owner[c]]
  /\ f.boot = boots[owner[c]] => f.seq <= seq[owner[c]]

Before(f, g) == f.boot = g.boot => f.seq < g.seq

(* A device sends on the newest of its connections.                          *)
LinkInv ==
  \A d \in Devices : link[d] # None =>
    owner[link[d]] = d /\ \A c \in Opened : owner[c] = d => c <= link[d]

SentInv ==
  /\ \A c \in Opened : \A f \in Waiting(c) : SentOn(c, f)
  /\ \A c \in Conns \ Opened : chan[c] = <<>>

(* The frames of a boot wait in the order of their numbers, within a         *)
(* connection ...                                                           *)
QueueInv ==
  \A c \in Opened :
    /\ \A i, j \in 1..Len(chan[c]) : i < j => Before(chan[c][i], chan[c][j])
    /\ hpc[c] = "process" => \A i \in 1..Len(chan[c]) : Before(frame[c], chan[c][i])

(* ... and from an older to a newer one ...                                  *)
ConnInv ==
  \A b, c \in Opened : b < c /\ owner[b] = owner[c] =>
    \A f \in Waiting(b), g \in Waiting(c) : Before(f, g)

(* ... and behind the accepted frames, except those of newer connections.    *)
PassedInv ==
  \A d \in Devices : \A i \in 1..Len(accepted[d]) :
    LET g == accepted[d][i]
    IN /\ g.conn \in Opened /\ owner[g.conn] = d
       /\ SentOn(g.conn, g)
       /\ \A c \in Opened : owner[c] = d /\ g.conn <= c => \A f \in Waiting(c) : Before(g, f)

(* The mark is the number of an accepted frame.                              *)
ReachedInv ==
  \A d \in Devices : seen[d] # None =>
    \E i \in 1..Len(accepted[d]) : accepted[d][i].seq = seen[d]

OrderInv == LinkInv /\ SentInv /\ QueueInv /\ ConnInv /\ PassedInv
-----------------------------------------------------------------------------
(* The order is kept.                                                       *)

(* Frames leave the queues at their heads, or are lost, and none is added.   *)
LEMMA OrderShrinks ==
  ASSUME OrderInv, QueueInv',
         UNCHANGED <<seq, boots, link, owner, accepted>>,
         \A c \in Opened : Waiting(c)' \subseteq Waiting(c),
         \A c \in Conns \ Opened : chan'[c] = chan[c]
  PROVE  OrderInv'
  <1>1. Opened' = Opened
    BY DEF Opened
  <1>2. LinkInv'
    BY <1>1 DEF OrderInv, LinkInv
  <1>3. SentInv'
    BY <1>1 DEF OrderInv, SentInv, SentOn
  <1>4. ConnInv'
    BY <1>1 DEF OrderInv, ConnInv, Before
  <1>5. PassedInv'
    BY <1>1 DEF OrderInv, PassedInv, SentOn, Before
  <1>6. QED
    BY <1>2, <1>3, <1>4, <1>5 DEF OrderInv

(* Each waiting frame is in the queue or in work.                            *)
LEMMA WaitingOf ==
  \A c, f : f \in Waiting(c) <=>
    \/ \E i \in 1..Len(chan[c]) : f = chan[c][i]
    \/ hpc[c] = "process" /\ f = frame[c]
  BY DEF Waiting

(* A connection neither thread nor network touch keeps its frames.           *)
LEMMA WaitingSame ==
  ASSUME NEW c, chan'[c] = chan[c], hpc'[c] = hpc[c], frame'[c] = frame[c]
  PROVE  Waiting(c)' = Waiting(c)
  BY DEF Waiting

(* A connection that has just been opened has no frame.                      *)
LEMMA OrderConnect ==
  ASSUME TypeInv, OrderInv, NEW d \in Devices, Connect(d)
  PROVE  OrderInv'
  <1> DEFINE n == Len(owner) + 1
  <1>1. /\ Len(owner) \in Nat /\ n \in Conns \ Opened /\ Opened' = Opened \cup {n}
        /\ \A c \in Opened : c < n /\ owner'[c] = owner[c]
        /\ owner'[n] = d
    <2>1. Len(owner) \in Nat /\ owner \in Seq(Devices) /\ Len(owner) < MaxConns
      BY DEF Connect, TypeInv, TypeOK
    <2>2. owner' = Append(owner, d) /\ Len(owner') = n
      BY <2>1 DEF Connect
    <2>3. QED
      BY <2>1, <2>2, DeviceAssumption DEF Opened, Conns
  <1>2. UNCHANGED <<seq, boots, accepted, chan, hpc, frame>> /\ link' = [link EXCEPT ![d] = n]
    BY DEF Connect, historyVars
  <1>3. \A c \in Conns : Waiting(c)' = Waiting(c)
    BY <1>2 DEF Waiting
  <1>4. chan[n] = <<>> /\ hpc[n] = "read"
    BY <1>1 DEF OrderInv, SentInv, TypeInv, WorkInv
  <1>5. Waiting(n) = {}
    BY <1>4 DEF Waiting
  <1> HIDE DEF n
  <1>6. n \in Conns /\ Opened \subseteq Conns
    BY <1>1, OpenedConns DEF TypeInv
  <1>7. LinkInv'
    <2> SUFFICES ASSUME NEW e \in Devices, link'[e] # None
                 PROVE  owner'[link'[e]] = e /\ \A c \in Opened' : owner'[c] = e => c <= link'[e]
      BY DEF LinkInv
    <2>1. CASE e = d
      <3>1. link'[e] = n /\ n \in Nat /\ \A c \in Opened : c \in Nat
        BY <1>2, <1>6, <2>1 DEF TypeInv, TypeOK, Conns
      <3>2. \A c \in Opened' : c <= n
        BY <1>1, <3>1
      <3>3. QED
        BY <1>1, <2>1, <3>1, <3>2
    <2>2. CASE e # d
      <3>1. link'[e] = link[e]
        BY <1>2, <2>2 DEF TypeInv, TypeOK
      <3>2. link[e] \in Opened /\ owner[link[e]] = e /\ \A c \in Opened : owner[c] = e => c <= link[e]
        BY <3>1 DEF OrderInv, LinkInv, TypeInv, WorkInv
      <3>3. QED
        BY <1>1, <2>2, <3>1, <3>2
    <2>3. QED
      BY <2>1, <2>2
  <1>8. SentInv'
    <2>1. \A c \in Opened : \A f \in Waiting(c) : SentOn(c, f)'
      BY <1>1, <1>2 DEF OrderInv, SentInv, SentOn
    <2>2. QED
      BY <1>1, <1>2, <1>3, <1>5, <1>6, <2>1 DEF OrderInv, SentInv
  <1>9. QueueInv'
    BY <1>1, <1>2, <1>4 DEF OrderInv, QueueInv, Before
  <1>10. ConnInv'
    BY <1>1, <1>3, <1>5, <1>6 DEF OrderInv, ConnInv, Before
  <1>11. PassedInv'
    <2> SUFFICES ASSUME NEW e \in Devices, NEW i \in 1..Len(accepted[e]),
                        NEW g, g = accepted[e][i]
                 PROVE  /\ g.conn \in Opened' /\ owner'[g.conn] = e
                        /\ SentOn(g.conn, g)'
                        /\ \A c \in Opened' : owner'[c] = e /\ g.conn <= c =>
                             \A f \in Waiting(c)' : Before(g, f)
      BY <1>2 DEF PassedInv, SentOn, Before
    <2>1. /\ g.conn \in Opened /\ owner[g.conn] = e /\ SentOn(g.conn, g)
          /\ \A c \in Opened : owner[c] = e /\ g.conn <= c => \A f \in Waiting(c) : Before(g, f)
      BY DEF OrderInv, PassedInv
    <2>2. owner'[g.conn] = e /\ SentOn(g.conn, g)'
      BY <1>1, <1>2, <2>1 DEF SentOn
    <2>3. ASSUME NEW c \in Opened', owner'[c] = e, g.conn <= c, NEW f \in Waiting(c)'
          PROVE  Before(g, f)
      <3>1. c \in Opened
        BY <1>1, <1>3, <1>5, <1>6, <2>3
      <3>2. owner[c] = e /\ f \in Waiting(c)
        BY <1>1, <1>3, <1>6, <2>3, <3>1
      <3>3. QED
        BY <2>1, <2>3, <3>1, <3>2
    <2>4. QED
      BY <1>1, <2>1, <2>2, <2>3
  <1>12. QED
    BY <1>7, <1>8, <1>9, <1>10, <1>11 DEF OrderInv

(* A new frame goes to the end of the newest connection, with a number above  *)
(* all those of its boot.                                                   *)
LEMMA OrderAppend ==
  ASSUME TypeInv, OrderInv, NEW d \in Devices, NEW bytes \in {"whole", "cut", "long"},
         link[d] # None,
         seq' = [seq EXCEPT ![d] = @ + 1],
         chan' = [chan EXCEPT ![link[d]] = Append(@, FrameOf(d, bytes))],
         link'[d] \in {link[d], None},
         \A e \in Devices \ {d} : link'[e] = link[e],
         UNCHANGED <<boots, owner, hpc, frame, accepted>>
  PROVE  OrderInv'
  <1>0. PICK k, g : k = link[d] /\ g = FrameOf(d, bytes)
    OBVIOUS
  <1>1. /\ Opened' = Opened /\ k \in Opened /\ k \in Conns /\ Opened \subseteq Conns
        /\ owner[k] = d /\ \A c \in Opened : c \in Nat /\ (owner[c] = d => c <= k)
    BY <1>0, OpenedConns DEF TypeInv, WorkInv, OrderInv, LinkInv, Opened, Conns
  <1>2. g \in Frame /\ g.conn = k /\ g.boot = boots[d] /\ g.seq = seq[d] + 1 /\ seq[d] \in Nat
    <2>1. seq[d] \in Nat /\ boots[d] \in Nat
      BY DeviceAssumption DEF TypeInv, TypeOK
    <2>2. g = [boot |-> boots[d], seq |-> seq[d] + 1, bytes |-> bytes, conn |-> k]
      BY <1>0 DEF FrameOf
    <2>3. QED
      BY <1>1, <2>1, <2>2 DEF Frame
  <1>3. /\ seq'[d] = seq[d] + 1
        /\ \A e \in Devices \ {d} : seq'[e] = seq[e]
        /\ \A c \in Opened : owner[c] \in Devices
    BY OwnerKnown DEF TypeInv, TypeOK
  <1>4. /\ chan[k] \in Seq(Frame) /\ Len(chan[k]) \in Nat
        /\ Len(chan'[k]) = Len(chan[k]) + 1
        /\ chan'[k][Len(chan[k]) + 1] = g
        /\ \A i \in 1..Len(chan[k]) : chan'[k][i] = chan[k][i]
    <2>1. chan[k] \in Seq(Frame) /\ chan'[k] = Append(chan[k], g)
      BY <1>0, <1>1 DEF TypeInv, TypeOK
    <2>2. QED
      BY <1>2, <2>1
  <1>5. \A c \in Conns \ {k} : chan'[c] = chan[c]
    BY <1>0, <1>1 DEF TypeInv, TypeOK
  <1>6. /\ \A c \in Conns \ {k} : Waiting(c)' = Waiting(c)
        /\ Waiting(k)' = Waiting(k) \cup {g}
    <2>1. ASSUME NEW c \in Conns \ {k} PROVE Waiting(c)' = Waiting(c)
      <3>1. chan'[c] = chan[c] /\ hpc'[c] = hpc[c] /\ frame'[c] = frame[c]
        BY <1>5
      <3>2. QED
        BY <3>1, WaitingSame
    <2>2. {chan'[k][i] : i \in 1..Len(chan'[k])} = {chan[k][i] : i \in 1..Len(chan[k])} \cup {g}
      <3>1. 1..Len(chan'[k]) = 1..Len(chan[k]) \cup {Len(chan[k]) + 1}
        BY <1>4
      <3>2. QED
        BY <1>4, <3>1
    <2>3. QED
      BY <2>1, <2>2 DEF Waiting
  <1>7. \A c \in Opened : \A f : SentOn(c, f) => SentOn(c, f)'
    BY <1>3 DEF SentOn, TypeInv, TypeOK, Frame
  <1>8. \A c \in Opened : owner[c] = d => \A f : SentOn(c, f) => Before(f, g)
    BY <1>2 DEF SentOn, Before, Frame
  <1>9. SentOn(k, g)'
    <2>1. owner'[k] = d /\ boots'[d] = g.boot /\ seq'[d] = g.seq
      BY <1>1, <1>2, <1>3
    <2>2. g.boot \in Nat /\ g.seq \in Nat
      BY <1>2 DEF Frame
    <2>3. QED
      BY <1>2, <2>1, <2>2 DEF SentOn
  <1>10. LinkInv'
    BY <1>0, <1>1 DEF OrderInv, LinkInv
  <1>11. SentInv'
    <2>1. \A c \in Conns \ Opened : chan'[c] = <<>>
      BY <1>1, <1>5 DEF OrderInv, SentInv
    <2>2. ASSUME NEW c \in Opened, NEW f \in Waiting(c)' PROVE SentOn(c, f)'
      <3>1. f \in Waiting(c) \/ (c = k /\ f = g)
        BY <1>1, <1>6
      <3>2. ASSUME f \in Waiting(c) PROVE SentOn(c, f)'
        BY <1>7, <3>2 DEF OrderInv, SentInv
      <3>3. QED
        BY <1>9, <3>1, <3>2
    <2>3. QED
      BY <1>1, <2>1, <2>2 DEF SentInv
  <1>12. QueueInv'
    <2> SUFFICES ASSUME NEW c \in Opened
                 PROVE  /\ \A i, j \in 1..Len(chan'[c]) : i < j => Before(chan'[c][i], chan'[c][j])
                        /\ hpc[c] = "process" =>
                             \A i \in 1..Len(chan'[c]) : Before(frame[c], chan'[c][i])
      BY <1>1 DEF QueueInv, Before
    <2>1. CASE c # k
      <3>1. chan'[c] = chan[c]
        BY <1>1, <1>5, <2>1
      <3>2. QED
        BY <3>1 DEF OrderInv, QueueInv
    <2>2. CASE c = k
      <3>1. \A f \in Waiting(k) : Before(f, g)
        BY <1>1, <1>8 DEF OrderInv, SentInv
      <3>2. \A i \in 1..Len(chan[k]) : Before(chan[k][i], g)
        BY <3>1 DEF Waiting
      <3>3. hpc[k] = "process" => Before(frame[k], g)
        BY <3>1 DEF Waiting
      <3>4. \A i \in 1..Len(chan'[k]) : i \in 1..Len(chan[k]) \/ i = Len(chan[k]) + 1
        BY <1>4
      <3>5. /\ \A i, j \in 1..Len(chan[k]) : i < j => Before(chan[k][i], chan[k][j])
            /\ hpc[k] = "process" => \A i \in 1..Len(chan[k]) : Before(frame[k], chan[k][i])
        BY <1>1 DEF OrderInv, QueueInv
      <3>6. \A i, j \in 1..Len(chan'[k]) : i < j => Before(chan'[k][i], chan'[k][j])
        BY <1>4, <3>2, <3>4, <3>5
      <3>7. hpc[k] = "process" => \A i \in 1..Len(chan'[k]) : Before(frame[k], chan'[k][i])
        BY <1>4, <3>3, <3>4, <3>5
      <3>8. QED
        BY <2>2, <3>6, <3>7
    <2>3. QED
      BY <2>1, <2>2
  <1>13. ConnInv'
    <2> SUFFICES ASSUME NEW b \in Opened, NEW c \in Opened, b < c, owner[b] = owner[c],
                        NEW e \in Waiting(b)', NEW f \in Waiting(c)'
                 PROVE  Before(e, f)
      BY <1>1 DEF ConnInv, Before
    <2>1. b # k
      BY <1>1
    <2>2. e \in Waiting(b) /\ SentOn(b, e)
      BY <1>1, <1>6, <2>1 DEF OrderInv, SentInv
    <2>3. CASE f \in Waiting(c)
      BY <2>2, <2>3 DEF OrderInv, ConnInv
    <2>4. CASE f = g /\ c = k
      BY <1>1, <1>8, <2>2, <2>4
    <2>5. QED
      BY <1>1, <1>6, <2>3, <2>4
  <1>14. PassedInv'
    <2> SUFFICES ASSUME NEW e \in Devices, NEW i \in 1..Len(accepted[e]),
                        NEW h, h = accepted[e][i]
                 PROVE  /\ h.conn \in Opened /\ owner[h.conn] = e
                        /\ SentOn(h.conn, h)'
                        /\ \A c \in Opened : owner[c] = e /\ h.conn <= c =>
                             \A f \in Waiting(c)' : Before(h, f)
      BY <1>1 DEF PassedInv, SentOn, Before
    <2>1. /\ h.conn \in Opened /\ owner[h.conn] = e /\ SentOn(h.conn, h)
          /\ \A c \in Opened : owner[c] = e /\ h.conn <= c => \A f \in Waiting(c) : Before(h, f)
      BY DEF OrderInv, PassedInv
    <2>2. SentOn(h.conn, h)'
      BY <1>7, <2>1
    <2>3. ASSUME NEW c \in Opened, owner[c] = e, h.conn <= c, NEW f \in Waiting(c)'
          PROVE  Before(h, f)
      <3>1. CASE f \in Waiting(c)
        BY <2>1, <2>3, <3>1
      <3>2. CASE f = g /\ c = k
        BY <1>1, <1>8, <2>1, <2>3, <3>2
      <3>3. QED
        BY <1>1, <1>6, <3>1, <3>2
    <2>4. QED
      BY <2>1, <2>2, <2>3
  <1>15. QED
    BY <1>10, <1>11, <1>12, <1>13, <1>14 DEF OrderInv

(* Steps of a device.                                                       *)
LEMMA OrderDevice ==
  ASSUME TypeInv, OrderInv, NEW d \in Devices, DeviceStep(d) \/ Send(d, "long") \/ Reboot(d)
  PROVE  OrderInv'
  <1>1. ASSUME UNCHANGED <<boots, owner, chan, hpc, frame, accepted>>,
               seq' = [seq EXCEPT ![d] = @ + 1],
               link'[d] \in {link[d], None}, \A e \in Devices \ {d} : link'[e] = link[e]
        PROVE  OrderInv'
    <2>1. \A c \in Opened : \A f : SentOn(c, f) => SentOn(c, f)'
      <3>1. \A c \in Opened : owner[c] \in Devices
        BY OwnerKnown DEF TypeInv
      <3>2. QED
        BY <1>1, <3>1 DEF SentOn, TypeInv, TypeOK, Frame
    <2>2. Opened' = Opened /\ \A c : Waiting(c)' = Waiting(c)
      BY <1>1 DEF Opened, Waiting
    <2>3. LinkInv'
      BY <1>1, <2>2 DEF OrderInv, LinkInv
    <2>4. SentInv'
      BY <1>1, <2>1, <2>2 DEF OrderInv, SentInv
    <2>5. QueueInv' /\ ConnInv'
      BY <1>1, <2>2 DEF OrderInv, QueueInv, ConnInv, Before
    <2>6. PassedInv'
      <3> SUFFICES ASSUME NEW e \in Devices, NEW i \in 1..Len(accepted[e]),
                          NEW h, h = accepted[e][i]
                   PROVE  /\ h.conn \in Opened /\ owner[h.conn] = e
                          /\ SentOn(h.conn, h)'
                          /\ \A c \in Opened : owner[c] = e /\ h.conn <= c =>
                               \A f \in Waiting(c) : Before(h, f)
        BY <1>1, <2>2 DEF PassedInv, SentOn, Before
      <3>1. QED
        BY <2>1 DEF OrderInv, PassedInv
    <2>7. QED
      BY <2>3, <2>4, <2>5, <2>6 DEF OrderInv
  <1>2. CASE Connect(d)
    BY <1>2, OrderConnect
  <1>3. ASSUME NEW bytes \in {"whole", "long"}, Send(d, bytes)
        PROVE  OrderInv'
    <2>1. /\ UNCHANGED <<boots, owner, hpc, frame, accepted, link>>
          /\ seq' = [seq EXCEPT ![d] = @ + 1]
          /\ link[d] # None
          /\ \/ UNCHANGED chan
             \/ chan' = [chan EXCEPT ![link[d]] = Append(@, FrameOf(d, bytes))]
      BY <1>3 DEF Send, historyVars
    <2>2. QED
      BY <1>1, <2>1, OrderAppend
  <1>4. CASE SendFails(d)
    <2>1. /\ UNCHANGED <<boots, owner, hpc, frame, accepted>>
          /\ seq' = [seq EXCEPT ![d] = @ + 1]
          /\ link[d] # None /\ link'[d] = None /\ \A e \in Devices \ {d} : link'[e] = link[e]
          /\ \/ UNCHANGED chan
             \/ chan' = [chan EXCEPT ![link[d]] = Append(@, FrameOf(d, "cut"))]
      BY <1>4 DEF SendFails, historyVars, TypeInv, TypeOK
    <2>2. QED
      BY <1>1, <2>1, OrderAppend
  <1>5. CASE Reboot(d)
    <2>1. /\ UNCHANGED <<owner, chan, hpc, frame, accepted>>
          /\ boots' = [boots EXCEPT ![d] = @ + 1] /\ seq' = [seq EXCEPT ![d] = 0]
          /\ link' = [link EXCEPT ![d] = None]
      BY <1>5 DEF Reboot, connVars, historyVars
    <2>2. Opened' = Opened /\ \A c : Waiting(c)' = Waiting(c)
      BY <2>1 DEF Opened, Waiting
    <2>3. \A c \in Opened : \A f : SentOn(c, f) => SentOn(c, f)'
      <3>1. \A c \in Opened : owner[c] \in Devices
        BY OwnerKnown DEF TypeInv
      <3>2. \A e \in Devices : boots[e] \in Nat
        BY DEF TypeInv, TypeOK
      <3>3. QED
        BY <2>1, <3>1, <3>2 DEF SentOn, TypeInv, TypeOK, Frame
    <2>4. LinkInv'
      BY <2>1, <2>2 DEF OrderInv, LinkInv, TypeInv, TypeOK
    <2>5. SentInv'
      BY <2>1, <2>2, <2>3 DEF OrderInv, SentInv
    <2>6. QueueInv' /\ ConnInv'
      BY <2>1, <2>2 DEF OrderInv, QueueInv, ConnInv, Before
    <2>7. PassedInv'
      <3> SUFFICES ASSUME NEW e \in Devices, NEW i \in 1..Len(accepted[e]),
                          NEW h, h = accepted[e][i]
                   PROVE  /\ h.conn \in Opened /\ owner[h.conn] = e
                          /\ SentOn(h.conn, h)'
                          /\ \A c \in Opened : owner[c] = e /\ h.conn <= c =>
                               \A f \in Waiting(c) : Before(h, f)
        BY <2>1, <2>2 DEF PassedInv, SentOn, Before
      <3>1. QED
        BY <2>3 DEF OrderInv, PassedInv
    <2>8. QED
      BY <2>4, <2>5, <2>6, <2>7 DEF OrderInv
  <1>6. QED
    BY <1>2, <1>3, <1>4, <1>5 DEF DeviceStep

(* The frame a thread takes up is the first of its queue.                    *)
LEMMA OrderRead ==
  ASSUME TypeInv, OrderInv, NEW c \in Opened, ReadLine(c)
  PROVE  OrderInv'
  <1>1. /\ c \in Conns /\ Opened \subseteq Conns
        /\ hpc[c] = "read" /\ chan[c] \in Seq(Frame) /\ chan[c] # <<>>
    BY OpenedConns DEF ReadLine, TypeInv, TypeOK
  <1>2. /\ chan' = [chan EXCEPT ![c] = Tail(@)]
        /\ UNCHANGED <<seq, boots, link, owner, accepted>>
        /\ \/ UNCHANGED <<hpc, frame>>
           \/ /\ hpc' = [hpc EXCEPT ![c] = "process"]
              /\ frame' = [frame EXCEPT ![c] = Head(chan[c])]
    BY DEF ReadLine, deviceVars
  <1>3. /\ Head(chan[c]) = chan[c][1] /\ Len(chan[c]) \in Nat \ {0}
        /\ Len(chan'[c]) = Len(chan[c]) - 1
        /\ \A i \in 1..Len(chan'[c]) : chan'[c][i] = chan[c][i + 1]
    <2>1. chan'[c] = Tail(chan[c])
      BY <1>1, <1>2 DEF TypeInv, TypeOK
    <2>2. Len(chan[c]) \in Nat \ {0}
      BY <1>1, EmptySeq
    <2>3. QED
      BY <1>1, <2>1, <2>2, HeadTailProperties
  <1>4. \A b \in Conns \ {c} : chan'[b] = chan[b] /\ hpc'[b] = hpc[b] /\ frame'[b] = frame[b]
    BY <1>2 DEF TypeInv, TypeOK
  <1>5. hpc'[c] = "process" => frame'[c] = chan[c][1]
    BY <1>1, <1>2, <1>3 DEF TypeInv, TypeOK
  <1>6. \A b \in Opened : Waiting(b)' \subseteq Waiting(b)
    <2>1. \A i \in 1..Len(chan'[c]) : i + 1 \in 1..Len(chan[c])
      BY <1>3
    <2>2. \A i \in 1..Len(chan'[c]) : chan'[c][i] \in Waiting(c)
      BY <1>3, <2>1 DEF Waiting
    <2>3. hpc'[c] = "process" => frame'[c] \in Waiting(c)
      BY <1>3, <1>5 DEF Waiting
    <2>4. Waiting(c)' \subseteq Waiting(c)
      BY <2>2, <2>3 DEF Waiting
    <2>5. \A b \in Opened \ {c} : Waiting(b)' = Waiting(b)
      BY <1>1, <1>4 DEF Waiting
    <2>6. QED
      BY <2>4, <2>5
  <1>7. QueueInv'
    <2>1. Opened' = Opened
      BY <1>2 DEF Opened
    <2>2. \A i, j \in 1..Len(chan[c]) : i < j => Before(chan[c][i], chan[c][j])
      BY DEF OrderInv, QueueInv
    <2>3. \A i, j \in 1..Len(chan'[c]) : i < j => Before(chan'[c][i], chan'[c][j])
      <3> SUFFICES ASSUME NEW i \in 1..Len(chan'[c]), NEW j \in 1..Len(chan'[c]), i < j
                   PROVE  Before(chan'[c][i], chan'[c][j])
        OBVIOUS
      <3>1. i + 1 \in 1..Len(chan[c]) /\ j + 1 \in 1..Len(chan[c]) /\ i + 1 < j + 1
        BY <1>3
      <3>2. QED
        BY <1>3, <2>2, <3>1
    <2>4. hpc'[c] = "process" => \A i \in 1..Len(chan'[c]) : Before(frame'[c], chan'[c][i])
      <3> SUFFICES ASSUME hpc'[c] = "process", NEW i \in 1..Len(chan'[c])
                   PROVE  Before(frame'[c], chan'[c][i])
        OBVIOUS
      <3>1. 1 \in 1..Len(chan[c]) /\ i + 1 \in 1..Len(chan[c]) /\ 1 < i + 1
        BY <1>3
      <3>2. QED
        BY <1>3, <1>5, <2>2, <3>1
    <2>5. \A b \in Opened \ {c} :
            /\ \A i, j \in 1..Len(chan'[b]) : i < j => Before(chan'[b][i], chan'[b][j])
            /\ hpc'[b] = "process" => \A i \in 1..Len(chan'[b]) : Before(frame'[b], chan'[b][i])
      BY <1>1, <1>4 DEF OrderInv, QueueInv
    <2>6. QED
      BY <2>1, <2>3, <2>4, <2>5 DEF QueueInv, Before
  <1>8. QED
    BY <1>1, <1>2, <1>4, <1>6, <1>7, OrderShrinks

(* A frame is rejected or dropped.                                          *)
LEMMA OrderNext ==
  ASSUME TypeInv, OrderInv, NEW c \in Opened, NextLine(c),
         UNCHANGED <<seq, boots, link, owner, chan, accepted>>
  PROVE  OrderInv'
  <1>1. /\ c \in Conns /\ Opened \subseteq Conns /\ Opened' = Opened
        /\ hpc'[c] = "read"
        /\ \A b \in Conns \ {c} : hpc'[b] = hpc[b] /\ frame'[b] = frame[b]
    BY OpenedConns DEF NextLine, TypeInv, TypeOK, Opened
  <1>2. \A b \in Opened : Waiting(b)' \subseteq Waiting(b)
    BY <1>1 DEF Waiting
  <1>3. QueueInv'
    BY <1>1 DEF OrderInv, QueueInv, Before
  <1>4. QED
    BY <1>2, <1>3, OrderShrinks

(* An accepted frame was ahead of all that wait on its connection and on     *)
(* newer ones.                                                              *)
LEMMA OrderAccept ==
  ASSUME TypeInv, OrderInv, NEW c \in Opened, Accept(c)
  PROVE  OrderInv'
  <1>0. PICK d, g, n : d = owner[c] /\ g = frame[c] /\ n = Len(accepted[owner[c]]) + 1
    OBVIOUS
  <1>1. /\ c \in Conns /\ Opened \subseteq Conns /\ Opened' = Opened /\ d \in Devices
        /\ UNCHANGED <<seq, boots, link, owner, chan, frame>>
        /\ hpc[c] = "process" /\ hpc' = [hpc EXCEPT ![c] = "forward"]
    BY <1>0, OpenedConns, OwnerKnown
    DEF Accept, TypeInv, Opened, deviceVars, connVars
  <1>2. /\ hpc'[c] = "forward" /\ \A b \in Conns \ {c} : hpc'[b] = hpc[b]
    BY <1>1 DEF TypeInv, TypeOK
  <1>3. g \in Waiting(c) /\ SentOn(c, g)
    <2>1. g \in Waiting(c)
      BY <1>0, <1>1 DEF Waiting
    <2>2. QED
      BY <2>1 DEF OrderInv, SentInv
  <1>4. Waiting(c)' = {chan[c][i] : i \in 1..Len(chan[c])}
    BY <1>1, <1>2 DEF Waiting
  <1>5. \A b \in Opened : Waiting(b)' \subseteq Waiting(b)
    <2>1. \A b \in Opened \ {c} : Waiting(b)' = Waiting(b)
      BY <1>1, <1>2 DEF Waiting
    <2>2. Waiting(c)' \subseteq Waiting(c)
      BY <1>4 DEF Waiting
    <2>3. QED
      BY <2>1, <2>2
  <1>6. LinkInv' /\ SentInv'
    BY <1>1, <1>5 DEF OrderInv, LinkInv, SentInv, SentOn
  <1>7. QueueInv'
    BY <1>1, <1>2 DEF OrderInv, QueueInv, Before
  <1>8. ConnInv'
    BY <1>1, <1>5 DEF OrderInv, ConnInv, Before
  <1>9. \A b \in Opened : owner[b] = d /\ c <= b => \A f \in Waiting(b)' : Before(g, f)
    <2> SUFFICES ASSUME NEW b \in Opened, owner[b] = d, c <= b, NEW f \in Waiting(b)'
                 PROVE  Before(g, f)
      OBVIOUS
    <2>1. CASE b = c
      BY <1>0, <1>1, <1>4, <2>1 DEF OrderInv, QueueInv
    <2>2. CASE b # c
      <3>1. c < b
        BY <1>1, <2>2 DEF Conns
      <3>2. QED
        BY <1>0, <1>3, <1>5, <3>1 DEF OrderInv, ConnInv
    <2>3. QED
      BY <2>1, <2>2
  <1>10. /\ \A e \in Devices \ {d} : accepted'[e] = accepted[e]
         /\ n \in Nat /\ Len(accepted'[d]) = n /\ accepted'[d][n] = g
         /\ \A i \in 1..n : i = n \/ (i \in 1..Len(accepted[d]) /\ accepted'[d][i] = accepted[d][i])
    <2>1. accepted[d] \in Seq(Frame) /\ g \in Frame
      BY <1>1, <1>3 DEF TypeInv, TypeOK, SentOn
    <2>2. accepted'[d] = Append(accepted[d], g) /\ \A e \in Devices \ {d} : accepted'[e] = accepted[e]
      BY <1>0, <1>1 DEF Accept, TypeInv, TypeOK
    <2>3. QED
      BY <1>0, <2>1, <2>2
  <1>11. PassedInv'
    <2> SUFFICES ASSUME NEW e \in Devices, NEW i \in 1..Len(accepted'[e]),
                        NEW h, h = accepted'[e][i]
                 PROVE  /\ h.conn \in Opened /\ owner[h.conn] = e
                        /\ SentOn(h.conn, h)
                        /\ \A b \in Opened : owner[b] = e /\ h.conn <= b =>
                             \A f \in Waiting(b)' : Before(h, f)
      BY <1>1 DEF PassedInv, SentOn, Before
    <2>1. CASE e = d /\ i = n
      <3>1. h = g /\ h.conn = c
        BY <1>3, <1>10, <2>1 DEF SentOn
      <3>2. QED
        BY <1>0, <1>3, <1>9, <2>1, <3>1
    <2>2. CASE ~(e = d /\ i = n)
      <3>1. i \in 1..Len(accepted[e]) /\ h = accepted[e][i]
        BY <1>10, <2>2
      <3>2. QED
        BY <1>5, <3>1 DEF OrderInv, PassedInv
    <2>3. QED
      BY <2>1, <2>2
  <1>12. QED
    BY <1>6, <1>7, <1>8, <1>11 DEF OrderInv

(* A broken connection loses the frames from some point on.                  *)
LEMMA OrderReset ==
  ASSUME TypeInv, OrderInv, NEW c \in Opened, LinkReset(c)
  PROVE  OrderInv'
  <1>1. c \in Conns /\ Opened \subseteq Conns /\ Opened' = Opened
    BY OpenedConns DEF LinkReset, Opened, TypeInv
  <1>2. UNCHANGED <<seq, boots, link, owner, accepted, hpc, frame>>
    BY DEF LinkReset, deviceVars, historyVars
  <1>3. PICK n \in 0..Len(chan[c]) : chan' = [chan EXCEPT ![c] = SubSeq(@, 1, n)]
    BY DEF LinkReset
  <1>4. chan[c] \in Seq(Frame) /\ Len(chan[c]) \in Nat
    BY <1>1 DEF TypeInv, TypeOK
  <1>5. /\ Len(chan'[c]) = n
        /\ \A i \in 1..n : i \in 1..Len(chan[c]) /\ chan'[c][i] = chan[c][i]
    <2>1. chan'[c] = SubSeq(chan[c], 1, n)
      BY <1>1, <1>3 DEF TypeInv, TypeOK
    <2>2. \A i \in 1..n : chan[c][i] \in Frame
      BY <1>4
    <2>3. Len(SubSeq(chan[c], 1, n)) = n /\ \A i \in 1..n : SubSeq(chan[c], 1, n)[i] = chan[c][i]
      BY <1>4, <2>2, SubSeqProperties
    <2>4. QED
      BY <1>4, <2>1, <2>3
  <1>6. \A b \in Conns \ {c} : chan'[b] = chan[b]
    BY <1>3 DEF TypeInv, TypeOK
  <1>7. \A b \in Opened : Waiting(b)' \subseteq Waiting(b)
    <2>1. \A b \in Opened \ {c} : Waiting(b)' = Waiting(b)
      BY <1>1, <1>2, <1>6 DEF Waiting
    <2>2. Waiting(c)' \subseteq Waiting(c)
      BY <1>2, <1>5 DEF Waiting
    <2>3. QED
      BY <2>1, <2>2
  <1>8. QueueInv'
    <2>1. /\ \A i, j \in 1..Len(chan'[c]) : i < j => Before(chan'[c][i], chan'[c][j])
          /\ hpc[c] = "process" => \A i \in 1..Len(chan'[c]) : Before(frame[c], chan'[c][i])
      BY <1>5 DEF OrderInv, QueueInv
    <2>2. SUFFICES ASSUME NEW b \in Opened
                   PROVE  /\ \A i, j \in 1..Len(chan'[b]) :
                               i < j => Before(chan'[b][i], chan'[b][j])
                          /\ hpc[b] = "process" =>
                               \A i \in 1..Len(chan'[b]) : Before(frame[b], chan'[b][i])
      BY <1>1, <1>2 DEF QueueInv, Before
    <2>3. CASE b = c
      BY <2>1, <2>3
    <2>4. CASE b # c
      <3>1. chan'[b] = chan[b]
        BY <1>1, <1>6, <2>4
      <3>2. QED
        BY <3>1 DEF OrderInv, QueueInv
    <2>5. QED
      BY <2>3, <2>4
  <1>9. QED
    BY <1>1, <1>2, <1>6, <1>7, <1>8, OrderShrinks

(* A restart of the gateway loses every frame.                               *)
LEMMA OrderRestart ==
  ASSUME TypeInv, OrderInv, Restart
  PROVE  OrderInv'
  <1>1. /\ Opened' = Opened /\ Opened \subseteq Conns
        /\ UNCHANGED <<seq, boots, link, owner>>
        /\ \A c \in Conns : chan'[c] = <<>>
        /\ \A c \in Opened : hpc'[c] = "done"
        /\ \A d \in Devices : accepted'[d] = <<>>
    BY OpenedConns DEF Restart, Opened, deviceVars, TypeInv
  <1>2. \A c \in Opened : Waiting(c)' = {}
    BY <1>1 DEF Waiting
  <1>3. LinkInv' /\ SentInv' /\ QueueInv' /\ ConnInv'
    BY <1>1, <1>2 DEF OrderInv, LinkInv, SentInv, QueueInv, ConnInv
  <1>4. PassedInv'
    BY <1>1 DEF PassedInv
  <1>5. QED
    BY <1>3, <1>4 DEF OrderInv

(* Every step keeps the order.                                              *)
LEMMA OrderStep == TypeInv /\ OrderInv /\ [Next]_vars => OrderInv'
  <1> SUFFICES ASSUME TypeInv, OrderInv, [Next]_vars PROVE OrderInv'
    OBVIOUS
  <1>1. ASSUME UNCHANGED <<seq, boots, link, owner, accepted, chan, frame>>,
               \A c \in Opened : hpc'[c] = "process" => hpc[c] = "process"
        PROVE  OrderInv'
    <2>1. Opened' = Opened
      BY <1>1 DEF Opened
    <2>2. \A c \in Opened : Waiting(c)' \subseteq Waiting(c)
      BY <1>1 DEF Waiting
    <2>3. QueueInv'
      BY <1>1, <2>1 DEF OrderInv, QueueInv, Before
    <2>4. QED
      BY <1>1, <2>2, <2>3, OrderShrinks
  <1>2. CASE \E d \in Devices : DeviceStep(d) \/ Send(d, "long") \/ Reboot(d)
    BY <1>2, OrderDevice
  <1>3. CASE \E c \in Opened : HandlerStep(c)
    <2>1. PICK c \in Opened : HandlerStep(c)
      BY <1>3
    <2>2. CASE ReadLine(c)
      BY <2>2, OrderRead
    <2>3. CASE Reject(c) \/ DropStale(c)
      BY <2>3, OrderNext DEF Reject, DropStale, deviceVars, connVars, historyVars
    <2>4. CASE Accept(c)
      BY <2>4, OrderAccept
    <2>5. CASE Forward(c)
      BY <2>5, OrderNext DEF Forward, deviceVars, connVars, historyVars
    <2>6. CASE Disconnect(c)
      <3>1. UNCHANGED <<seq, boots, link, owner, accepted, chan, frame>>
        BY <2>6 DEF Disconnect, deviceVars, connVars, historyVars
      <3>2. \A b \in Opened : hpc'[b] = "process" => hpc[b] = "process"
        BY <2>6, OpenedConns DEF Disconnect, TypeInv, TypeOK
      <3>3. QED
        BY <1>1, <3>1, <3>2
    <2>7. QED
      BY <2>1, <2>2, <2>3, <2>4, <2>5, <2>6 DEF HandlerStep
  <1>4. CASE \E c \in Opened : LinkReset(c)
    BY <1>4, OrderReset
  <1>5. CASE Restart
    BY <1>5, OrderRestart
  <1>6. CASE UNCHANGED vars
    BY <1>1, <1>6 DEF vars, deviceVars, connVars, historyVars
  <1>7. QED
    BY <1>2, <1>3, <1>4, <1>5, <1>6 DEF Next
-----------------------------------------------------------------------------
(* Stale frames.                                                            *)

(* A stale frame came over a known connection of its device, and was          *)
(* overtaken.                                                               *)
StaleInv == (\A f \in stale : f.conn \in Opened) /\ StaleOnlyWhenOvertaken

(* A dropped frame is behind an accepted one of another boot or connection.  *)
LEMMA DroppedIsOvertaken ==
  ASSUME TypeInv, OrderInv, ReachedInv, StaleInv, NEW c \in Opened, DropStale(c)
  PROVE  StaleInv'
  <1> DEFINE d == owner[c]
             f == frame[c]
  <1>1. /\ UNCHANGED <<owner, accepted>> /\ Opened' = Opened
        /\ stale' = stale \cup {f}
        /\ seen[d] # None /\ f.seq <= seen[d] /\ hpc[c] = "process"
    BY DEF DropStale, IsStale, connVars, Opened
  <1>2. f \in Waiting(c) /\ f.conn = c /\ f \in Frame /\ c \in Conns /\ d \in Devices
    <2>1. f \in Waiting(c)
      BY <1>1 DEF Waiting
    <2>2. QED
      BY <2>1, OpenedConns, OwnerKnown DEF OrderInv, SentInv, SentOn, TypeInv
  <1>3. PICK i \in 1..Len(accepted[d]) : accepted[d][i].seq = seen[d]
    BY <1>1, <1>2 DEF ReachedInv
  <1> DEFINE g == accepted[d][i]
  <1>4. /\ g.conn \in Opened /\ SentOn(g.conn, g)
        /\ g.conn <= c => Before(g, f)
    BY <1>2 DEF OrderInv, PassedInv
  <1>5. g \in Frame /\ g.conn \in Nat /\ c \in Nat
    BY <1>2, <1>4, OpenedConns DEF SentOn, Opened, TypeInv, Conns
  <1> HIDE DEF g, f, d
  <1>6. g.seq >= f.seq /\ (g.boot # f.boot \/ g.conn > f.conn)
    <2>1. g.seq \in Nat /\ f.seq \in Nat /\ g.seq >= f.seq
      BY <1>1, <1>2, <1>3, <1>5 DEF Frame, g
    <2>2. CASE g.conn <= c
      BY <1>4, <2>1, <2>2 DEF Before
    <2>3. CASE ~(g.conn <= c)
      BY <1>2, <1>5, <2>1, <2>3
    <2>4. QED
      BY <2>2, <2>3
  <1>7. \E k \in 1..Len(accepted[owner[f.conn]]) :
          LET h == accepted[owner[f.conn]][k]
          IN /\ h.seq >= f.seq
             /\ h.boot # f.boot \/ h.conn > f.conn
    BY <1>2, <1>6 DEF d, g
  <1>8. QED
    BY <1>1, <1>2, <1>7 DEF StaleInv, StaleOnlyWhenOvertaken

(* Every step keeps the mark on an accepted frame.                           *)
LEMMA ReachedStep == TypeInv /\ ReachedInv /\ [Next]_vars => ReachedInv'
  <1> SUFFICES ASSUME TypeInv, ReachedInv, [Next]_vars PROVE ReachedInv'
    OBVIOUS
  <1>1. CASE UNCHANGED <<seen, accepted>>
    BY <1>1 DEF ReachedInv
  <1>2. CASE \E c \in Opened : Accept(c)
    <2>1. PICK c \in Opened : Accept(c)
      BY <1>2
    <2>2. PICK d, g : d = owner[c] /\ g = frame[c]
      OBVIOUS
    <2>3. d \in Devices /\ c \in Conns
      BY <2>2, OwnerKnown, OpenedConns DEF TypeInv
    <2>4. g \in Frame
      <3>1. hpc[c] = "process"
        BY <2>1 DEF Accept
      <3>2. QED
        BY <2>2, <2>3, <3>1 DEF TypeInv, WorkInv
    <2>5. /\ seen' = [seen EXCEPT ![d] = g.seq]
          /\ accepted' = [accepted EXCEPT ![d] = Append(@, g)]
      BY <2>1, <2>2 DEF Accept
    <2>6. accepted[d] \in Seq(Frame) /\ accepted'[d] = Append(accepted[d], g) /\ seen'[d] = g.seq
      BY <2>3, <2>5 DEF TypeInv, TypeOK
    <2>7. Len(accepted'[d]) \in 1..Len(accepted'[d]) /\ accepted'[d][Len(accepted'[d])] = g
      BY <2>4, <2>6
    <2>8. \A e \in Devices \ {d} : seen'[e] = seen[e] /\ accepted'[e] = accepted[e]
      BY <2>5 DEF TypeInv, TypeOK
    <2>9. QED
      BY <2>6, <2>7, <2>8 DEF ReachedInv
  <1>3. CASE Restart
    BY <1>3 DEF Restart, ReachedInv
  <1>4. QED
    BY <1>1, <1>2, <1>3
    DEF Next, vars, DeviceStep, Connect, Send, SendFails, Reboot, HandlerStep,
        ReadLine, Reject, DropStale, Forward, Disconnect, LinkReset, historyVars

(* Every step keeps the reasons of the frames dropped so far.                *)
LEMMA StaleStep ==
  TypeInv /\ OrderInv /\ ReachedInv /\ StaleInv /\ [Next]_vars => StaleInv'
  <1> SUFFICES ASSUME TypeInv, OrderInv, ReachedInv, StaleInv, [Next]_vars PROVE StaleInv'
    OBVIOUS
  <1>1. CASE \E c \in Opened : DropStale(c)
    BY <1>1, DroppedIsOvertaken
  <1>2. CASE Restart
    BY <1>2 DEF Restart, StaleInv, StaleOnlyWhenOvertaken
  <1>3. CASE \E c \in Opened : Accept(c)
    <2>1. PICK c \in Opened : Accept(c)
      BY <1>3
    <2>2. PICK d, g : d = owner[c] /\ g = frame[c]
      OBVIOUS
    <2>3. /\ UNCHANGED <<owner, stale>> /\ Opened' = Opened
          /\ accepted' = [accepted EXCEPT ![d] = Append(@, g)]
      BY <2>1, <2>2 DEF Accept, connVars, Opened
    <2>4. \A e \in Devices : \A i \in 1..Len(accepted[e]) :
            i \in 1..Len(accepted'[e]) /\ accepted'[e][i] = accepted[e][i]
      <3>1. d \in Devices /\ g \in Frame
        <4>1. d \in Devices /\ c \in Conns
          BY <2>2, OwnerKnown, OpenedConns DEF TypeInv
        <4>2. hpc[c] = "process"
          BY <2>1 DEF Accept
        <4>3. QED
          BY <2>2, <4>1, <4>2 DEF TypeInv, WorkInv
      <3>2. accepted[d] \in Seq(Frame) /\ accepted'[d] = Append(accepted[d], g)
        BY <2>3, <3>1 DEF TypeInv, TypeOK
      <3>3. \A e \in Devices \ {d} : accepted'[e] = accepted[e]
        BY <2>3 DEF TypeInv, TypeOK
      <3>4. QED
        BY <3>1, <3>2, <3>3
    <2>5. \A f \in stale : owner[f.conn] \in Devices
      BY OwnerKnown DEF StaleInv, TypeInv
    <2>6. QED
      BY <2>3, <2>4, <2>5 DEF StaleInv, StaleOnlyWhenOvertaken
  <1>4. CASE ~Restart /\ ~(\E c \in Opened : Accept(c)) /\ ~(\E c \in Opened : DropStale(c))
    <2>1. UNCHANGED <<accepted, stale>>
      BY <1>4
      DEF Next, vars, DeviceStep, Connect, Send, SendFails, Reboot, HandlerStep,
          ReadLine, Reject, Forward, Disconnect, LinkReset, historyVars
    <2>2. Opened \subseteq Opened' /\ \A c \in Opened : owner'[c] = owner[c]
      <3>1. CASE UNCHANGED owner
        BY <3>1 DEF Opened
      <3>2. CASE \E d \in Devices : Connect(d)
        <4>1. PICK d \in Devices : owner' = Append(owner, d)
          BY <3>2 DEF Connect
        <4>2. owner \in Seq(Devices)
          BY DEF TypeInv, TypeOK
        <4>3. QED
          BY <4>1, <4>2 DEF Opened
      <3>3. QED
        BY <1>4, <3>1, <3>2
        DEF Next, vars, DeviceStep, Send, SendFails, Reboot, HandlerStep, ReadLine, Reject,
            Forward, Disconnect, LinkReset, connVars
    <2>3. QED
      BY <2>1, <2>2 DEF StaleInv, StaleOnlyWhenOvertaken
  <1>5. QED
    BY <1>1, <1>2, <1>3, <1>4

(* The strengthened invariant holds in every reachable state.               *)
LEMMA OrderHolds == Spec => [](TypeInv /\ OrderInv /\ ReachedInv /\ StaleInv)
  <1>1. Init => OrderInv /\ ReachedInv /\ StaleInv
    BY DEF Init, OrderInv, LinkInv, SentInv, QueueInv, ConnInv, PassedInv, ReachedInv, StaleInv,
           StaleOnlyWhenOvertaken, Opened, Conns
  <1>2. QED
    BY <1>1, TypeInit, TypeStep, OrderStep, ReachedStep, StaleStep, PTL DEF Spec

(* A frame is dropped as stale only when one of another boot, or a later one  *)
(* over a newer connection, was accepted before it: for any number of         *)
(* devices, connections, readings, reboots and restarts.                    *)
THEOREM DroppedOnlyWhenOvertaken == Spec => []StaleOnlyWhenOvertaken
  <1>1. StaleInv => StaleOnlyWhenOvertaken
    BY DEF StaleInv
  <1>2. QED
    BY <1>1, OrderHolds, PTL
=============================================================================
