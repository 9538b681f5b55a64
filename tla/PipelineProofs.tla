---------------------------- MODULE PipelineProofs ----------------------------
(***************************************************************************)
(* The device side implements ReadingDelivery: no reading is submitted       *)
(* twice, and no outcome is revised, for any number of devices, connections,  *)
(* readings, reboots and restarts.                                          *)
(***************************************************************************)
EXTENDS Pipeline, DeviceLinkProofs

(* Device d has not reached number n of boot b.                              *)
Beyond(d, b, n) == b > boots[d] \/ (b = boots[d] /\ n > seq[d])

SampleOf(c, f) == <<owner[c], f.boot, f.seq>>

OutcomeType == outcome \in [Samples -> {"new", "sending", "ok", "failed"}]

(* What is still to be sent, or has yet to be judged, has not been submitted. *)
FreshInv ==
  /\ \A d \in Devices, b \in 0..MaxReboots, n \in 1..MaxSeq :
       Beyond(d, b, n) => outcome[<<d, b, n>>] = "new"
  /\ \A c \in Opened : \A f \in Waiting(c) :
       SampleOf(c, f) \in Samples /\ outcome[SampleOf(c, f)] = "new"

(* The reading a thread forwards is being sent, and by this thread alone.     *)
ForwardInv ==
  \A c \in Opened : hpc[c] = "forward" =>
    /\ Sample(c) \in Samples
    /\ outcome[Sample(c)] = "sending"
    /\ \A b \in Opened : hpc[b] = "forward" /\ Sample(b) = Sample(c) => b = c

HopInv == OutcomeType /\ FreshInv /\ ForwardInv
-----------------------------------------------------------------------------
(* Steps that do not touch the uplink.                                      *)

(* The joined system takes the steps of DeviceLink.                          *)
LEMMA LinkOfPipeline == [PipelineNext]_pipelineVars => [Next]_vars
  BY DEF PipelineNext, pipelineVars, LinkStep, HandlerOnly, AcceptAndSubmit, ForwardAndReport,
         CloudStores, RestartAndFail, Next, HandlerStep

(* Joining the uplink and the cloud adds nothing to what devices, connections *)
(* and handler threads can do: whatever is proved of DeviceLink, that        *)
(* accepted numbers increase, that every frame is accounted for and that     *)
(* none is dropped as stale without cause, holds of the whole pipeline.      *)
THEOREM PipelineImplementsDeviceLink == PipelineSpec => Spec
  <1>1. PipelineInit => Init
    BY DEF PipelineInit
  <1>2. QED
    BY <1>1, LinkOfPipeline, PTL DEF PipelineSpec, Spec

(* A device never returns to a number or a boot it has left behind.          *)
LEMMA MarksAdvance ==
  ASSUME TypeInv, LinkStep
  PROVE  \A d \in Devices, b \in Nat, n \in Nat : Beyond(d, b, n)' => Beyond(d, b, n)
  <1> SUFFICES ASSUME NEW d \in Devices, NEW b \in Nat, NEW n \in Nat, Beyond(d, b, n)'
               PROVE  Beyond(d, b, n)
    OBVIOUS
  <1>1. seq \in [Devices -> Nat] /\ boots \in [Devices -> Nat]
    BY DeviceAssumption DEF TypeInv, TypeOK
  <1>2. \/ UNCHANGED <<seq, boots>>
        \/ \E e \in Devices : boots' = boots /\ seq' = [seq EXCEPT ![e] = @ + 1]
        \/ \E e \in Devices : boots' = [boots EXCEPT ![e] = @ + 1]
                              /\ seq' = [seq EXCEPT ![e] = 0]
    BY DEF LinkStep, DeviceStep, HandlerOnly, Connect, Send, SendFails, Reboot, ReadLine, Reject,
           DropStale, Disconnect, LinkReset, deviceVars
  <1>3. CASE UNCHANGED <<seq, boots>>
    BY <1>3 DEF Beyond
  <1>4. ASSUME NEW e \in Devices, boots' = boots, seq' = [seq EXCEPT ![e] = @ + 1]
        PROVE  Beyond(d, b, n)
    BY <1>1, <1>4 DEF Beyond
  <1>5. ASSUME NEW e \in Devices, boots' = [boots EXCEPT ![e] = @ + 1],
               seq' = [seq EXCEPT ![e] = 0]
        PROVE  Beyond(d, b, n)
    BY <1>1, <1>5 DEF Beyond
  <1>6. QED
    BY <1>2, <1>3, <1>4, <1>5

(* No other step begins to forward, or changes what is being forwarded.       *)
LEMMA ForwardsUntouched ==
  ASSUME TypeInv, LinkStep
  PROVE  \A c \in Opened' : hpc'[c] = "forward" =>
           c \in Opened /\ hpc[c] = "forward" /\ frame'[c] = frame[c] /\ owner'[c] = owner[c]
  <1>1. CASE UNCHANGED <<owner, hpc, frame>>
    BY <1>1 DEF Opened
  <1>2. CASE \E d \in Devices : Connect(d)
    <2>1. PICK d \in Devices : Connect(d)
      BY <1>2
    <2>2. /\ UNCHANGED <<hpc, frame>> /\ owner' = Append(owner, d) /\ owner \in Seq(Devices)
          /\ Len(owner) \in Nat /\ Len(owner) < MaxConns
      BY <2>1 DEF Connect, TypeInv, TypeOK
    <2>3. /\ Opened' = Opened \cup {Len(owner) + 1}
          /\ Len(owner) + 1 \in Conns \ Opened
          /\ \A c \in Opened : owner'[c] = owner[c]
      BY <2>2, DeviceAssumption DEF Opened, Conns
    <2>4. hpc[Len(owner) + 1] = "read"
      BY <2>3 DEF TypeInv, WorkInv
    <2>5. QED
      BY <2>2, <2>3, <2>4
  <1>3. ASSUME NEW c \in Opened, HandlerOnly(c), ~UNCHANGED <<owner, hpc, frame>>
        PROVE  /\ UNCHANGED owner /\ hpc'[c] # "forward"
               /\ \A b \in Conns \ {c} : hpc'[b] = hpc[b] /\ frame'[b] = frame[b]
    <2>1. c \in Conns /\ hpc \in [Conns -> {"read", "process", "forward", "done"}]
          /\ frame \in [Conns -> Frame \cup {None}]
      BY OpenedConns DEF TypeInv, TypeOK
    <2>2. QED
      BY <1>3, <2>1 DEF HandlerOnly, ReadLine, Reject, DropStale, Disconnect, NextLine, connVars
  <1>4. CASE \E c \in Opened : HandlerOnly(c)
    <2>1. Opened \subseteq Conns
      BY OpenedConns DEF TypeInv
    <2>2. QED
      BY <1>1, <1>3, <1>4, <2>1 DEF Opened
  <1>5. QED
    BY <1>1, <1>2, <1>4 DEF LinkStep, DeviceStep, Send, SendFails, Reboot, LinkReset, connVars

(* A frame that waits was waiting before, or the device has just sent it.    *)
LEMMA FramesWaiting ==
  ASSUME TypeInv, OrderInv, LinkStep
  PROVE  \A c \in Opened' : \A f \in Waiting(c)' :
           \/ c \in Opened /\ f \in Waiting(c) /\ owner'[c] = owner[c]
           \/ SampleOf(c, f)' \in Samples /\ Beyond(owner'[c], f.boot, f.seq)
  <1> USE DEF TypeInv
  <1>1. /\ Opened \subseteq Conns /\ chan \in [Conns -> Seq(Frame)]
        /\ hpc \in [Conns -> {"read", "process", "forward", "done"}]
        /\ frame \in [Conns -> Frame \cup {None}]
    BY OpenedConns DEF TypeOK
  <1>2. ASSUME NEW d \in Devices, NEW bytes \in {"whole", "cut", "long"}, link[d] # None,
               seq[d] < MaxSeq, chan' = [chan EXCEPT ![link[d]] = Append(@, FrameOf(d, bytes))],
               UNCHANGED <<owner, hpc, frame>>,
               NEW c \in Opened', NEW f \in Waiting(c)'
        PROVE  \/ c \in Opened /\ f \in Waiting(c) /\ owner'[c] = owner[c]
               \/ SampleOf(c, f)' \in Samples /\ Beyond(owner'[c], f.boot, f.seq)
    <2>1. Opened' = Opened /\ c \in Conns
      BY <1>1, <1>2 DEF Opened
    <2>2. CASE c # link[d]
      <3>1. chan'[c] = chan[c] /\ hpc'[c] = hpc[c] /\ frame'[c] = frame[c]
        BY <1>1, <1>2, <2>1, <2>2
      <3>2. QED
        BY <1>2, <2>1, <3>1, WaitingSame
    <2>3. CASE c = link[d]
      <3>1. chan[c] \in Seq(Frame) /\ chan'[c] = Append(chan[c], FrameOf(d, bytes))
        BY <1>1, <1>2, <2>1, <2>3
      <3>2. f = FrameOf(d, bytes) \/ f \in Waiting(c)
        BY <1>2, <3>1 DEF Waiting
      <3>3. owner'[c] = d
        BY <1>2, <2>3 DEF OrderInv, LinkInv
      <3>4. seq[d] + 1 \in 1..MaxSeq /\ boots[d] \in 0..MaxReboots /\ seq[d] \in Nat
        BY <1>2, DeviceAssumption DEF TypeOK
      <3>5. CASE f = FrameOf(d, bytes)
        <4>1. f.boot = boots[d] /\ f.seq = seq[d] + 1
          BY <3>5 DEF FrameOf
        <4>2. SampleOf(c, f)' \in Samples
          BY <3>3, <3>4, <4>1 DEF SampleOf, Samples
        <4>3. QED
          BY <3>3, <3>4, <4>1, <4>2 DEF Beyond
      <3>6. QED
        BY <1>2, <2>1, <3>2, <3>5
    <2>4. QED
      BY <2>2, <2>3
  <1>3. ASSUME UNCHANGED owner, \A c \in Opened : Waiting(c)' \subseteq Waiting(c),
               NEW c \in Opened', NEW f \in Waiting(c)'
        PROVE  c \in Opened /\ f \in Waiting(c) /\ owner'[c] = owner[c]
    BY <1>3 DEF Opened
  <1>4. CASE UNCHANGED <<owner, chan, hpc, frame>>
    BY <1>3, <1>4 DEF Waiting
  <1>5. CASE \E d \in Devices : Connect(d)
    <2>1. PICK d \in Devices : Connect(d)
      BY <1>5
    <2>2. /\ UNCHANGED <<chan, hpc, frame>> /\ owner' = Append(owner, d) /\ owner \in Seq(Devices)
          /\ Len(owner) \in Nat /\ Len(owner) < MaxConns
      BY <2>1 DEF Connect, TypeOK
    <2>3. PICK n \in Conns \ Opened : /\ Opened' = Opened \cup {n}
                                     /\ \A c \in Opened : owner'[c] = owner[c]
      BY <2>2, DeviceAssumption DEF Opened, Conns
    <2>4. hpc[n] = "read" /\ chan[n] = <<>>
      BY <2>3 DEF WorkInv, OrderInv, SentInv
    <2>5. Waiting(n)' = {}
      BY <2>2, <2>4 DEF Waiting
    <2>6. \A c \in Opened : Waiting(c)' = Waiting(c)
      BY <2>2 DEF Waiting
    <2>7. QED
      BY <2>3, <2>5, <2>6
  <1>6. CASE \E d \in Devices : Send(d, "whole") \/ Send(d, "long") \/ SendFails(d)
    <2>1. PICK d \in Devices : Send(d, "whole") \/ Send(d, "long") \/ SendFails(d)
      BY <1>6
    <2>2. /\ UNCHANGED <<owner, hpc, frame>> /\ link[d] # None /\ seq[d] < MaxSeq
          /\ \/ UNCHANGED chan
             \/ \E bytes \in {"whole", "cut", "long"} :
                  chan' = [chan EXCEPT ![link[d]] = Append(@, FrameOf(d, bytes))]
      BY <2>1 DEF Send, SendFails
    <2>3. QED
      BY <1>2, <1>4, <2>2
  <1>7. CASE \E c \in Opened : HandlerOnly(c)
    <2>1. PICK c \in Opened : HandlerOnly(c)
      BY <1>7
    <2>2. c \in Conns /\ UNCHANGED owner
      BY <1>1, <2>1 DEF HandlerOnly, ReadLine, Reject, DropStale, Disconnect, connVars
    <2>3. \A b \in Conns \ {c} : chan'[b] = chan[b] /\ hpc'[b] = hpc[b] /\ frame'[b] = frame[b]
      BY <1>1, <2>1, <2>2
      DEF HandlerOnly, ReadLine, Reject, DropStale, Disconnect, NextLine, connVars
    <2>4. Waiting(c)' \subseteq Waiting(c)
      <3>1. CASE ReadLine(c)
        <4>1. /\ hpc[c] = "read" /\ chan[c] \in Seq(Frame) /\ chan[c] # <<>>
              /\ chan'[c] = Tail(chan[c])
              /\ hpc'[c] = "process" => frame'[c] = Head(chan[c])
          BY <1>1, <2>2, <3>1 DEF ReadLine
        <4>2. QED
          BY <4>1 DEF Waiting
      <3>2. CASE Reject(c) \/ DropStale(c) \/ Disconnect(c)
        <4>1. chan'[c] = chan[c] /\ hpc'[c] # "process"
          BY <1>1, <2>2, <3>2 DEF Reject, DropStale, Disconnect, NextLine, connVars
        <4>2. QED
          BY <4>1 DEF Waiting
      <3>3. QED
        BY <2>1, <3>1, <3>2 DEF HandlerOnly
    <2>5. \A b \in Opened : Waiting(b)' \subseteq Waiting(b)
      BY <1>1, <2>3, <2>4, WaitingSame
    <2>6. QED
      BY <1>3, <2>2, <2>5
  <1>8. CASE \E c \in Opened : LinkReset(c)
    <2>1. PICK c \in Opened : LinkReset(c)
      BY <1>8
    <2>2. PICK n \in 0..Len(chan[c]) : chan' = [chan EXCEPT ![c] = SubSeq(@, 1, n)]
      BY <2>1 DEF LinkReset
    <2>3. UNCHANGED <<owner, hpc, frame>> /\ c \in Conns /\ chan[c] \in Seq(Frame)
      BY <1>1, <2>1 DEF LinkReset
    <2>4. Waiting(c)' \subseteq Waiting(c)
      <3>1. chan'[c] = SubSeq(chan[c], 1, n) /\ Len(chan[c]) \in Nat /\ n \in Nat
        BY <1>1, <2>2, <2>3
      <3>2. Len(chan'[c]) = n /\ \A i \in 1..n : chan'[c][i] = chan[c][i]
        BY <2>3, <3>1
      <3>3. n <= Len(chan[c])
        BY <2>3, <3>1
      <3>4. QED
        BY <2>3, <3>1, <3>2, <3>3 DEF Waiting
    <2>5. \A b \in Opened : Waiting(b)' \subseteq Waiting(b)
      BY <1>1, <2>2, <2>3, <2>4 DEF Waiting
    <2>6. QED
      BY <1>3, <2>3, <2>5
  <1>9. QED
    BY <1>4, <1>5, <1>6, <1>7, <1>8 DEF LinkStep, DeviceStep, Reboot, connVars

(* They keep the invariant.                                                 *)
LEMMA HopLink ==
  ASSUME TypeInv, OrderInv, HopInv, LinkStep, UNCHANGED hopVars
  PROVE  HopInv'
  <1>1. UNCHANGED outcome /\ MaxReboots \in Nat /\ MaxSeq \in Nat
    BY DeviceAssumption DEF hopVars
  <1>2. OutcomeType'
    BY <1>1 DEF HopInv, OutcomeType
  <1>3. FreshInv'
    <2>1. \A d \in Devices, b \in 0..MaxReboots, n \in 1..MaxSeq :
            Beyond(d, b, n)' => outcome'[<<d, b, n>>] = "new"
      BY <1>1, MarksAdvance DEF HopInv, FreshInv
    <2>2. ASSUME NEW c \in Opened', NEW f \in Waiting(c)'
          PROVE  SampleOf(c, f)' \in Samples /\ outcome'[SampleOf(c, f)'] = "new"
      <3>1. CASE c \in Opened /\ f \in Waiting(c) /\ owner'[c] = owner[c]
        BY <1>1, <3>1 DEF HopInv, FreshInv, SampleOf
      <3>2. CASE SampleOf(c, f)' \in Samples /\ Beyond(owner'[c], f.boot, f.seq)
        <4>1. owner'[c] \in Devices /\ f.boot \in 0..MaxReboots /\ f.seq \in 1..MaxSeq
          BY <3>2 DEF SampleOf, Samples
        <4>2. outcome[<<owner'[c], f.boot, f.seq>>] = "new"
          BY <3>2, <4>1 DEF HopInv, FreshInv
        <4>3. QED
          BY <1>1, <3>2, <4>2 DEF SampleOf
      <3>3. QED
        BY <3>1, <3>2, FramesWaiting
    <2>3. QED
      BY <2>1, <2>2 DEF FreshInv, SampleOf
  <1>4. ForwardInv'
    BY <1>1, ForwardsUntouched DEF HopInv, ForwardInv, Sample
  <1>5. QED
    BY <1>2, <1>3, <1>4 DEF HopInv
-----------------------------------------------------------------------------
(* Steps that do.                                                           *)

(* The reading a thread accepts has never been submitted.                    *)
LEMMA AcceptedIsNew ==
  ASSUME HopInv, NEW c \in Opened, Accept(c)
  PROVE  Sample(c) \in Samples /\ outcome[Sample(c)] = "new"
  <1>1. frame[c] \in Waiting(c)
    BY DEF Accept, Waiting
  <1>2. QED
    BY <1>1 DEF HopInv, FreshInv, SampleOf, Sample

(* Submitting it leaves every other waiting frame new.                       *)
LEMMA HopAccept ==
  ASSUME TypeInv, OrderInv, HopInv, NEW c \in Opened, AcceptAndSubmit(c)
  PROVE  HopInv'
  <1> DEFINE s == Sample(c)
  <1>1. /\ Accept(c) /\ s \in Samples /\ outcome[s] = "new"
        /\ outcome' = [outcome EXCEPT ![s] = "sending"]
        /\ outcome \in [Samples -> {"new", "sending", "ok", "failed"}]
    BY AcceptedIsNew DEF AcceptAndSubmit, HopInv, OutcomeType
  <1>2. /\ UNCHANGED <<seq, boots, owner, chan, frame>> /\ Opened' = Opened
        /\ hpc[c] = "process" /\ hpc' = [hpc EXCEPT ![c] = "forward"]
        /\ frame[c] \in Frame /\ c \in Conns /\ Opened \subseteq Conns
        /\ hpc \in [Conns -> {"read", "process", "forward", "done"}]
    BY <1>1, OpenedConns DEF Accept, deviceVars, connVars, Opened, TypeInv, TypeOK, WorkInv
  <1>3. frame[c].boot \in Nat /\ frame[c].seq \in Nat
    BY <1>2 DEF Frame
  <1>4. /\ outcome'[s] = "sending"
        /\ \A r \in Samples : r # s => outcome'[r] = outcome[r]
    BY <1>1
  <1> HIDE DEF s
  <1>5. OutcomeType'
    BY <1>1 DEF OutcomeType
  <1>6. ASSUME NEW b \in Opened, NEW f \in Waiting(b)'
        PROVE  f \in Waiting(b) /\ SampleOf(b, f) # s
    <2>1. f \in Frame /\ f.boot \in Nat /\ f.seq \in Nat /\ f \in Waiting(b)
      <3>1. f \in Waiting(b)
        BY <1>2 DEF Waiting
      <3>2. f \in Frame
        BY <3>1 DEF OrderInv, SentInv, SentOn
      <3>3. QED
        BY <3>1, <3>2 DEF Frame
    <2>2. frame[c] \in Waiting(c)
      BY <1>2 DEF Waiting
    <2>3. owner[b] = owner[c] => Before(frame[c], f) \/ Before(f, frame[c])
      <3>1. CASE b = c
        <4>1. \E i \in 1..Len(chan[c]) : f = chan[c][i]
          BY <1>2, <3>1 DEF Waiting
        <4>2. QED
          BY <1>2, <4>1 DEF OrderInv, QueueInv
      <3>2. CASE b # c
        <4>1. b \in Nat /\ c \in Nat
          BY DEF Opened
        <4>2. b < c \/ c < b
          BY <3>2, <4>1
        <4>3. QED
          BY <2>1, <2>2, <4>2 DEF OrderInv, ConnInv
      <3>3. QED
        BY <3>1, <3>2
    <2>4. SampleOf(b, f) = s => owner[b] = owner[c] /\ f.boot = frame[c].boot /\ f.seq = frame[c].seq
      BY DEF SampleOf, Sample, s
    <2>5. QED
      BY <1>3, <2>1, <2>3, <2>4 DEF Before
  <1>7. FreshInv'
    <2>1. ASSUME NEW d \in Devices, NEW b \in 0..MaxReboots, NEW n \in 1..MaxSeq, Beyond(d, b, n)'
          PROVE  outcome'[<<d, b, n>>] = "new"
      <3>1. Beyond(d, b, n) /\ <<d, b, n>> \in Samples
        BY <1>2, <2>1 DEF Beyond, Samples
      <3>2. frame[c] \in Waiting(c)
        BY <1>2 DEF Waiting
      <3>3. SentOn(c, frame[c])
        BY <3>2 DEF OrderInv, SentInv
      <3>4. ~Beyond(owner[c], frame[c].boot, frame[c].seq)
        <4>1. seq[owner[c]] \in Nat /\ boots[owner[c]] \in Nat
          BY OwnerKnown, DeviceAssumption DEF TypeInv, TypeOK
        <4>2. QED
          BY <1>3, <3>3, <4>1 DEF Beyond, SentOn
      <3>5. <<d, b, n>> # s
        BY <3>1, <3>4 DEF s, Sample
      <3>6. QED
        BY <1>4, <3>1, <3>5 DEF HopInv, FreshInv
    <2>2. ASSUME NEW b \in Opened, NEW f \in Waiting(b)'
          PROVE  SampleOf(b, f) \in Samples /\ outcome'[SampleOf(b, f)] = "new"
      <3>1. f \in Waiting(b) /\ SampleOf(b, f) # s
        BY <1>6
      <3>2. SampleOf(b, f) \in Samples /\ outcome[SampleOf(b, f)] = "new"
        BY <3>1 DEF HopInv, FreshInv
      <3>3. QED
        BY <1>4, <3>1, <3>2
    <2>3. QED
      BY <1>2, <2>1, <2>2 DEF FreshInv, SampleOf
  <1>8. ForwardInv'
    <2>1. \A b \in Opened : Sample(b)' = Sample(b)
      BY <1>2 DEF Sample
    <2>2. \A b \in Opened : b # c /\ hpc'[b] = "forward" =>
            hpc[b] = "forward" /\ Sample(b) \in Samples /\ outcome[Sample(b)] = "sending"
      BY <1>2 DEF HopInv, ForwardInv
    <2>3. \A b \in Opened : b # c /\ hpc'[b] = "forward" => Sample(b) # s
      BY <1>1, <2>2
    <2>4. Sample(c) = s
      BY DEF s
    <2>5. ASSUME NEW b \in Opened, hpc'[b] = "forward"
          PROVE  /\ Sample(b) \in Samples /\ outcome'[Sample(b)] = "sending"
                 /\ \A a \in Opened : hpc'[a] = "forward" /\ Sample(a) = Sample(b) => a = b
      <3>1. CASE b = c
        BY <1>1, <1>4, <2>3, <2>4, <3>1
      <3>2. CASE b # c
        <4>1. Sample(b) \in Samples /\ outcome'[Sample(b)] = "sending"
          BY <1>4, <2>2, <2>3, <2>5, <3>2
        <4>2. \A a \in Opened : a # c /\ hpc'[a] = "forward" /\ Sample(a) = Sample(b) => a = b
          BY <2>2, <2>5, <3>2 DEF HopInv, ForwardInv
        <4>3. QED
          BY <2>3, <2>4, <2>5, <3>2, <4>1, <4>2
      <3>3. QED
        BY <3>1, <3>2
    <2>6. QED
      BY <1>2, <2>1, <2>5 DEF ForwardInv
  <1>9. QED
    BY <1>5, <1>7, <1>8 DEF HopInv

(* So does reporting an outcome.                                            *)
LEMMA HopForward ==
  ASSUME TypeInv, HopInv, NEW c \in Opened, ForwardAndReport(c)
  PROVE  HopInv'
  <1> DEFINE s == Sample(c)
  <1>1. /\ UNCHANGED <<seq, boots, owner, chan>> /\ Opened' = Opened
        /\ hpc[c] = "forward" /\ hpc' = [hpc EXCEPT ![c] = "read"]
        /\ frame' = [frame EXCEPT ![c] = None]
    BY DEF ForwardAndReport, Forward, NextLine, deviceVars, connVars, Opened
  <1>2. /\ c \in Conns /\ Opened \subseteq Conns
        /\ hpc'[c] = "read"
        /\ \A b \in Conns \ {c} : hpc'[b] = hpc[b] /\ frame'[b] = frame[b]
    BY <1>1, OpenedConns DEF TypeInv, TypeOK
  <1>3. s \in Samples /\ outcome[s] = "sending"
    BY <1>1 DEF HopInv, ForwardInv
  <1>4. /\ OutcomeType'
        /\ \A r \in Samples : r # s => outcome'[r] = outcome[r]
    BY <1>3 DEF ForwardAndReport, HopInv, OutcomeType
  <1>5. \A b \in Opened \ {c} : Sample(b)' = Sample(b)
    BY <1>1, <1>2 DEF Sample
  <1>6. ASSUME NEW b \in Opened PROVE Waiting(b)' = Waiting(b)
    <2>1. CASE b = c
      BY <1>1, <1>2, <2>1 DEF Waiting
    <2>2. CASE b # c
      BY <1>1, <1>2, <2>2, WaitingSame
    <2>3. QED
      BY <2>1, <2>2
  <1>7. \A b \in Opened \ {c} : hpc[b] = "forward" => Sample(b) # s
    BY <1>1 DEF HopInv, ForwardInv
  <1> HIDE DEF s
  <1>8. \A r \in Samples : outcome[r] = "new" => outcome'[r] = "new"
    BY <1>3, <1>4
  <1>9. FreshInv'
    <2>1. \A d \in Devices, b \in 0..MaxReboots, n \in 1..MaxSeq :
            Beyond(d, b, n)' => outcome'[<<d, b, n>>] = "new"
      BY <1>1, <1>8 DEF HopInv, FreshInv, Beyond, Samples
    <2>2. \A b \in Opened : \A f \in Waiting(b) :
            SampleOf(b, f) \in Samples /\ outcome'[SampleOf(b, f)] = "new"
      BY <1>8 DEF HopInv, FreshInv
    <2>3. QED
      BY <1>1, <1>6, <2>1, <2>2 DEF FreshInv, SampleOf
  <1>10. ForwardInv'
    <2>1. ASSUME NEW b \in Opened, hpc'[b] = "forward"
          PROVE  b # c /\ hpc[b] = "forward" /\ Sample(b)' = Sample(b)
      BY <1>2, <1>5, <2>1
    <2>2. ASSUME NEW b \in Opened, hpc'[b] = "forward"
          PROVE  /\ Sample(b) \in Samples /\ outcome'[Sample(b)] = "sending"
                 /\ \A a \in Opened : hpc'[a] = "forward" /\ Sample(a) = Sample(b) => a = b
      BY <1>4, <1>7, <2>1, <2>2 DEF HopInv, ForwardInv
    <2>3. QED
      BY <1>1, <2>1, <2>2 DEF ForwardInv
  <1>11. QED
    BY <1>4, <1>9, <1>10 DEF HopInv

(* A gateway that restarts has nothing waiting and nothing to forward.       *)
LEMMA HopRestart ==
  ASSUME TypeInv, HopInv, RestartAndFail
  PROVE  HopInv'
  <1>1. /\ UNCHANGED <<seq, boots, owner>> /\ Opened' = Opened /\ Opened \subseteq Conns
        /\ \A c \in Conns : chan'[c] = <<>>
        /\ \A c \in Opened : hpc'[c] = "done"
    BY OpenedConns DEF RestartAndFail, Restart, deviceVars, Opened, TypeInv
  <1>2. outcome' = [s \in Samples |-> IF outcome[s] = "sending" THEN "failed" ELSE outcome[s]]
    BY DEF RestartAndFail
  <1>3. OutcomeType'
    BY <1>2 DEF HopInv, OutcomeType
  <1>4. \A c \in Opened : Waiting(c)' = {}
    BY <1>1 DEF Waiting
  <1>5. \A d \in Devices, b \in 0..MaxReboots, n \in 1..MaxSeq :
          Beyond(d, b, n)' => outcome'[<<d, b, n>>] = "new"
    BY <1>1, <1>2 DEF HopInv, FreshInv, Beyond, Samples
  <1>6. FreshInv' /\ ForwardInv'
    BY <1>1, <1>4, <1>5 DEF FreshInv, ForwardInv
  <1>7. QED
    BY <1>3, <1>6 DEF HopInv

(* The cloud stores a reading without the gateway's knowledge.               *)
LEMMA HopQuiet ==
  ASSUME HopInv, UNCHANGED <<vars, outcome>>
  PROVE  HopInv'
  BY DEF HopInv, OutcomeType, FreshInv, ForwardInv, Beyond, SampleOf, Sample, Waiting, Opened,
         vars, deviceVars, connVars

(* Every step keeps the invariant.                                          *)
LEMMA HopStep == TypeInv /\ OrderInv /\ HopInv /\ [PipelineNext]_pipelineVars => HopInv'
  <1> SUFFICES ASSUME TypeInv, OrderInv, HopInv, [PipelineNext]_pipelineVars PROVE HopInv'
    OBVIOUS
  <1>1. CASE \E s \in Samples : CloudStores(s)
    BY <1>1, HopQuiet DEF CloudStores
  <1>2. CASE UNCHANGED pipelineVars
    BY <1>2, HopQuiet DEF pipelineVars, hopVars
  <1>3. QED
    BY <1>1, <1>2, HopLink, HopAccept, HopForward, HopRestart DEF PipelineNext
-----------------------------------------------------------------------------
(* The refinement.                                                          *)

(* Every step is one of ReadingDelivery, or leaves its variables unchanged.  *)
LEMMA HopMaps ==
  ASSUME HopInv, [PipelineNext]_pipelineVars
  PROVE  [Hop!Next]_(Hop!vars)
  <1>1. CASE LinkStep /\ UNCHANGED hopVars
    BY <1>1 DEF hopVars, Hop!vars
  <1>2. ASSUME NEW c \in Opened, AcceptAndSubmit(c) PROVE Hop!Next
    <2>1. Sample(c) \in Samples /\ outcome[Sample(c)] = "new"
      BY <1>2, AcceptedIsNew DEF AcceptAndSubmit
    <2>2. Hop!Submit(Sample(c))
      BY <1>2, <2>1 DEF AcceptAndSubmit, Hop!Submit
    <2>3. QED
      BY <2>1, <2>2 DEF Hop!Next
  <1>3. ASSUME NEW c \in Opened, ForwardAndReport(c) PROVE Hop!Next
    <2>1. /\ Sample(c) \in Samples /\ outcome[Sample(c)] = "sending"
          /\ outcome \in [Samples -> {"new", "sending", "ok", "failed"}]
      BY <1>3 DEF ForwardAndReport, Forward, HopInv, ForwardInv, OutcomeType
    <2>2. CASE Succeeds
      <3>1. Hop!ReportOk(Sample(c))
        BY <1>3, <2>1, <2>2 DEF ForwardAndReport, Hop!ReportOk
      <3>2. QED
        BY <2>1, <3>1 DEF Hop!Next
    <2>3. CASE ~Succeeds
      <3>1. outcome' = [outcome EXCEPT ![Sample(c)] = "failed"] /\ UNCHANGED stored
        BY <1>3, <2>3 DEF ForwardAndReport
      <3>2. outcome' = [s \in Samples |-> IF s \in {Sample(c)} THEN "failed" ELSE outcome[s]]
        BY <2>1, <3>1
      <3>3. Hop!ReportFailed({Sample(c)})
        BY <2>1, <3>1, <3>2 DEF Hop!ReportFailed
      <3>4. QED
        BY <2>1, <3>3 DEF Hop!Next
    <2>4. QED
      BY <2>2, <2>3
  <1>4. ASSUME NEW s \in Samples, CloudStores(s) PROVE Hop!Next
    BY <1>4 DEF CloudStores, Hop!Next, Hop!Store
  <1>5. CASE RestartAndFail
    <2> DEFINE R == {s \in Samples : outcome[s] = "sending"}
    <2>1. outcome' = [s \in Samples |-> IF s \in R THEN "failed" ELSE outcome[s]]
      BY <1>5 DEF RestartAndFail
    <2>2. Hop!ReportFailed(R)
      BY <1>5, <2>1 DEF RestartAndFail, Hop!ReportFailed
    <2>3. QED
      BY <2>2 DEF Hop!Next
  <1>6. CASE UNCHANGED pipelineVars
    BY <1>6 DEF pipelineVars, hopVars, Hop!vars
  <1>7. QED
    BY <1>1, <1>2, <1>3, <1>4, <1>5, <1>6 DEF PipelineNext

(* What holds in every reachable state.                                     *)
LEMMA HopHolds ==
  PipelineSpec => [](TypeInv /\ OrderInv /\ AcceptedIncreasing /\ HopInv)
  <1>1. PipelineInit => HopInv
    <2> SUFFICES ASSUME PipelineInit PROVE HopInv
      OBVIOUS
    <2>1. Init /\ outcome = [s \in Samples |-> "new"] /\ Opened = {}
      BY DEF PipelineInit, Init, Opened
    <2>2. QED
      BY <2>1 DEF HopInv, OutcomeType, FreshInv, ForwardInv, Samples
  <1>2. IInv => AcceptedIncreasing
    BY DEF IInv
  <1>3. PipelineSpec => [](TypeInv /\ OrderInv /\ AcceptedIncreasing)
    BY <1>2, PipelineImplementsDeviceLink, OrderHolds, InvHolds, PTL
  <1>4. QED
    BY <1>1, <1>3, HopStep, PTL DEF PipelineSpec

(* The way of a reading from the devices to the cloud's buffer implements    *)
(* what ReadingDelivery promises: no handler thread submits a reading a       *)
(* second time, after no reconnection, reboot or restart, the counter         *)
(* forwarded_ok moves for stored readings only, and no outcome is revised.    *)
THEOREM DeviceSideImplementsDelivery == PipelineSpec => HopUsedOnce
  <1>1. PipelineInit => Hop!Init
    BY DEF PipelineInit, Hop!Init
  <1>2. HopInv /\ [PipelineNext]_pipelineVars => [Hop!Next]_(Hop!vars)
    BY HopMaps
  <1>3. QED
    BY <1>1, <1>2, HopHolds, PTL DEF PipelineSpec, HopUsedOnce, Hop!Spec
-----------------------------------------------------------------------------
(* The order in which the cloud stores.                                     *)

(* What has arrived is stored, and what is stored has been submitted.        *)
ArrivedInv ==
  /\ arrived \in Seq(Samples)
  /\ stored \in [Samples -> {0, 1}]
  /\ \A j \in DOMAIN arrived : stored[arrived[j]] = 1
  /\ \A s \in Samples : stored[s] = 1 => outcome[s] # "new"
  /\ \A s \in Samples : outcome[s] = "ok" => stored[s] = 1

(* An accepted reading has been submitted, it is being sent only as long as   *)
(* its thread forwards it, and only as long as its connection has brought no  *)
(* later one.                                                               *)
JudgedInv ==
  \A d \in Devices : \A i \in 1..Len(accepted[d]) :
    LET g == accepted[d][i]
        s == <<d, g.boot, g.seq>>
    IN /\ s \in Samples /\ outcome[s] # "new"
       /\ outcome[s] = "sending" =>
            /\ hpc[g.conn] = "forward" /\ frame[g.conn] = g
            /\ \A j \in 1..Len(accepted[d]) : i < j => accepted[d][j].conn # g.conn

(* Steps of DeviceLink alone disturb no thread that forwards.                *)
LEMMA ForwardsKept ==
  ASSUME TypeInv, LinkStep
  PROVE  /\ UNCHANGED accepted
         /\ \A c \in Opened : c \in Opened' /\ owner'[c] = owner[c]
         /\ \A c \in Opened : hpc[c] = "forward" => hpc'[c] = "forward" /\ frame'[c] = frame[c]
  <1>1. UNCHANGED accepted
    BY DEF LinkStep, DeviceStep, HandlerOnly, Connect, Send, SendFails, Reboot, ReadLine, Reject,
           DropStale, Disconnect, LinkReset, historyVars
  <1>2. \A c \in Opened : c \in Opened' /\ owner'[c] = owner[c]
    <2>1. CASE UNCHANGED owner
      BY <2>1 DEF Opened
    <2>2. CASE \E d \in Devices : owner' = Append(owner, d)
      BY <2>2 DEF Opened, TypeInv, TypeOK
    <2>3. QED
      BY <2>1, <2>2
      DEF LinkStep, DeviceStep, HandlerOnly, Connect, Send, SendFails, Reboot, ReadLine, Reject,
          DropStale, Disconnect, LinkReset, connVars
  <1>3. ASSUME NEW b \in Opened, HandlerOnly(b), NEW c \in Opened, hpc[c] = "forward"
        PROVE  hpc'[c] = "forward" /\ frame'[c] = frame[c]
    <2>1. b \in Conns /\ c \in Conns
      BY OpenedConns DEF TypeInv
    <2>2. hpc[b] # "forward"
      BY <1>3 DEF HandlerOnly, ReadLine, Reject, DropStale, Disconnect
    <2>3. b # c
      BY <1>3, <2>2
    <2>4. QED
      BY <1>3, <2>1, <2>3
      DEF HandlerOnly, ReadLine, Reject, DropStale, Disconnect, NextLine, TypeInv, TypeOK
  <1>4. CASE UNCHANGED <<hpc, frame>>
    BY <1>1, <1>2, <1>4
  <1>5. QED
    BY <1>1, <1>2, <1>3, <1>4
    DEF LinkStep, DeviceStep, Connect, Send, SendFails, Reboot, LinkReset

(* Every step keeps what arrived.                                           *)
LEMMA ArrivedStep ==
  ASSUME HopInv, ArrivedInv, [PipelineNext]_pipelineVars
  PROVE  ArrivedInv'
  <1>1. outcome \in [Samples -> {"new", "sending", "ok", "failed"}]
    BY DEF HopInv, OutcomeType
  <1>2. CASE UNCHANGED hopVars
    BY <1>2 DEF hopVars, ArrivedInv
  <1>3. ASSUME NEW c \in Opened, AcceptAndSubmit(c) PROVE ArrivedInv'
    <2>1. Sample(c) \in Samples /\ outcome[Sample(c)] = "new"
      BY <1>3, AcceptedIsNew DEF AcceptAndSubmit
    <2>2. QED
      BY <1>1, <1>3, <2>1 DEF AcceptAndSubmit, ArrivedInv
  <1>4. ASSUME NEW c \in Opened, ForwardAndReport(c) PROVE ArrivedInv'
    <2>1. Sample(c) \in Samples /\ outcome[Sample(c)] = "sending"
      BY <1>4 DEF ForwardAndReport, Forward, HopInv, ForwardInv
    <2>2. UNCHANGED <<stored, arrived>> /\ (Succeeds => stored[Sample(c)] = 1)
          /\ outcome' = [outcome EXCEPT ![Sample(c)] = IF Succeeds THEN "ok" ELSE "failed"]
      BY <1>4 DEF ForwardAndReport
    <2>3. QED
      BY <1>1, <2>1, <2>2 DEF ArrivedInv
  <1>5. ASSUME NEW s \in Samples, CloudStores(s) PROVE ArrivedInv'
    <2>1. /\ outcome[s] # "new" /\ UNCHANGED outcome
          /\ stored' = [stored EXCEPT ![s] = 1] /\ arrived' = Append(arrived, s)
      BY <1>5 DEF CloudStores
    <2>2. /\ arrived' \in Seq(Samples)
          /\ DOMAIN arrived' = 1..Len(arrived) + 1 /\ DOMAIN arrived = 1..Len(arrived)
          /\ \A j \in DOMAIN arrived' : arrived'[j] = s \/ (j \in DOMAIN arrived /\ arrived'[j] = arrived[j])
          /\ \A j \in DOMAIN arrived : arrived[j] \in Samples
      BY <2>1 DEF ArrivedInv
    <2>3. QED
      BY <2>1, <2>2 DEF ArrivedInv
  <1>6. CASE RestartAndFail
    BY <1>1, <1>6 DEF RestartAndFail, ArrivedInv
  <1>7. QED
    BY <1>2, <1>3, <1>4, <1>5, <1>6 DEF PipelineNext, pipelineVars

(* The thread that accepts a reading has reported the ones before it.        *)
LEMMA JudgedAccept ==
  ASSUME TypeInv, OrderInv, HopInv, JudgedInv, NEW c \in Opened, AcceptAndSubmit(c)
  PROVE  JudgedInv'
  <1>0. PICK d, f, n : d = owner[c] /\ f = frame[c] /\ n = Len(accepted[owner[c]]) + 1
    OBVIOUS
  <1>1. /\ c \in Conns /\ d \in Devices
        /\ Sample(c) = <<d, f.boot, f.seq>> /\ Sample(c) \in Samples /\ outcome[Sample(c)] = "new"
    BY <1>0, OwnerKnown, OpenedConns, AcceptedIsNew DEF AcceptAndSubmit, TypeInv, Sample
  <1>2. /\ hpc[c] = "process" /\ hpc'[c] = "forward" /\ UNCHANGED frame
        /\ \A b \in Conns \ {c} : hpc'[b] = hpc[b]
    BY <1>1 DEF AcceptAndSubmit, Accept, TypeInv, TypeOK
  <1>3. f.conn = c /\ f \in Frame
    <2>1. f \in Waiting(c)
      BY <1>0, <1>2 DEF Waiting
    <2>2. QED
      BY <2>1 DEF OrderInv, SentInv, SentOn
  <1>4. /\ outcome'[Sample(c)] = "sending"
        /\ \A s \in Samples : s # Sample(c) => outcome'[s] = outcome[s]
    BY <1>1 DEF AcceptAndSubmit, HopInv, OutcomeType
  <1>5. /\ accepted[d] \in Seq(Frame) /\ accepted'[d] = Append(accepted[d], f)
        /\ \A e \in Devices \ {d} : accepted'[e] = accepted[e]
    BY <1>0, <1>1 DEF AcceptAndSubmit, Accept, TypeInv, TypeOK
  <1>6. /\ n \in Nat /\ Len(accepted'[d]) = n /\ Len(accepted[d]) = n - 1
        /\ accepted'[d][n] = f
        /\ \A i \in 1..Len(accepted[d]) : accepted'[d][i] = accepted[d][i]
    BY <1>0, <1>3, <1>5
  <1>7. ASSUME NEW e \in Devices, NEW i \in 1..Len(accepted[e]), NEW g, g = accepted[e][i],
               NEW s, s = <<e, g.boot, g.seq>>
        PROVE  /\ s \in Samples /\ outcome'[s] # "new" /\ outcome'[s] = outcome[s]
               /\ outcome[s] = "sending" =>
                    /\ hpc'[g.conn] = "forward" /\ frame'[g.conn] = g
                    /\ g.conn # c
                    /\ \A j \in 1..Len(accepted[e]) : i < j => accepted[e][j].conn # g.conn
    <2>1. /\ s \in Samples /\ outcome[s] # "new"
          /\ outcome[s] = "sending" =>
               /\ hpc[g.conn] = "forward" /\ frame[g.conn] = g
               /\ \A j \in 1..Len(accepted[e]) : i < j => accepted[e][j].conn # g.conn
      BY <1>7 DEF JudgedInv
    <2>2. s # Sample(c) /\ outcome'[s] = outcome[s]
      BY <1>1, <1>4, <2>1
    <2>3. g.conn \in Conns
      BY <1>7, OpenedConns DEF OrderInv, PassedInv, TypeInv
    <2>4. outcome[s] = "sending" => g.conn # c /\ hpc'[g.conn] = "forward" /\ frame'[g.conn] = g
      BY <1>2, <2>1, <2>3
    <2>5. QED
      BY <2>1, <2>2, <2>4
  <1> SUFFICES ASSUME NEW e \in Devices, NEW i \in 1..Len(accepted'[e]), NEW g, g = accepted'[e][i],
                      NEW s, s = <<e, g.boot, g.seq>>
               PROVE  /\ s \in Samples /\ outcome'[s] # "new"
                      /\ outcome'[s] = "sending" =>
                           /\ hpc'[g.conn] = "forward" /\ frame'[g.conn] = g
                           /\ \A j \in 1..Len(accepted'[e]) : i < j => accepted'[e][j].conn # g.conn
    BY DEF JudgedInv
  <1>8. CASE e # d
    <2>1. accepted'[e] = accepted[e]
      BY <1>5, <1>8
    <2>2. QED
      BY <1>7, <2>1
  <1>9. CASE e = d /\ i = n
    <2>1. g = f /\ s = Sample(c) /\ \A j \in 1..Len(accepted'[e]) : ~(i < j)
      BY <1>1, <1>6, <1>9
    <2>2. hpc'[g.conn] = "forward" /\ frame'[g.conn] = g
      BY <1>0, <1>2, <1>3, <2>1
    <2>3. QED
      BY <1>1, <1>4, <2>1, <2>2
  <1>10. CASE e = d /\ i # n
    <2>1. i \in 1..Len(accepted[e]) /\ g = accepted[e][i]
      BY <1>6, <1>10
    <2>2. \A j \in 1..Len(accepted'[e]) : j = n \/ (j \in 1..Len(accepted[e]) /\ accepted'[e][j] = accepted[e][j])
      BY <1>6, <1>10
    <2>3. accepted'[e][n].conn = c
      BY <1>3, <1>6, <1>10
    <2>4. /\ s \in Samples /\ outcome'[s] # "new" /\ outcome'[s] = outcome[s]
          /\ outcome[s] = "sending" =>
               /\ hpc'[g.conn] = "forward" /\ frame'[g.conn] = g
               /\ g.conn # c
               /\ \A j \in 1..Len(accepted[e]) : i < j => accepted[e][j].conn # g.conn
      BY <1>7, <2>1
    <2>5. QED
      BY <2>2, <2>3, <2>4
  <1>11. QED
    BY <1>8, <1>9, <1>10

(* Every step keeps what is known of the accepted readings.                  *)
LEMMA JudgedStep ==
  ASSUME TypeInv, OrderInv, HopInv, JudgedInv, [PipelineNext]_pipelineVars
  PROVE  JudgedInv'
  <1>1. \A d \in Devices : \A i \in 1..Len(accepted[d]) :
          accepted[d][i].conn \in Opened /\ owner[accepted[d][i].conn] = d
    BY DEF OrderInv, PassedInv
  <1>2. CASE LinkStep /\ UNCHANGED hopVars
    <2>1. UNCHANGED <<outcome, accepted>>
      BY <1>2, ForwardsKept DEF hopVars
    <2>2. \A c \in Opened : hpc[c] = "forward" => hpc'[c] = "forward" /\ frame'[c] = frame[c]
      BY <1>2, ForwardsKept
    <2>3. ASSUME NEW d \in Devices, NEW i \in 1..Len(accepted[d]), NEW g, g = accepted[d][i],
                 NEW s, s = <<d, g.boot, g.seq>>
          PROVE  /\ s \in Samples /\ outcome[s] # "new"
                 /\ outcome[s] = "sending" =>
                      /\ hpc'[g.conn] = "forward" /\ frame'[g.conn] = g
                      /\ \A j \in 1..Len(accepted[d]) : i < j => accepted[d][j].conn # g.conn
      <3>1. /\ s \in Samples /\ outcome[s] # "new"
            /\ outcome[s] = "sending" =>
                 /\ hpc[g.conn] = "forward" /\ frame[g.conn] = g
                 /\ \A j \in 1..Len(accepted[d]) : i < j => accepted[d][j].conn # g.conn
        BY <2>3 DEF JudgedInv
      <3>2. g.conn \in Opened
        BY <1>1, <2>3
      <3>3. QED
        BY <2>2, <3>1, <3>2
    <2>4. QED
      BY <2>1, <2>3 DEF JudgedInv
  <1>3. ASSUME NEW c \in Opened, ForwardAndReport(c) PROVE JudgedInv'
    <2>1. Sample(c) \in Samples /\ outcome[Sample(c)] = "sending"
      BY <1>3 DEF ForwardAndReport, Forward, HopInv, ForwardInv
    <2>2. UNCHANGED accepted
          /\ outcome'[Sample(c)] \in {"ok", "failed"}
          /\ \A s \in Samples : s # Sample(c) => outcome'[s] = outcome[s]
      BY <1>3, <2>1 DEF ForwardAndReport, Forward, historyVars, HopInv, OutcomeType
    <2>3. /\ c \in Conns /\ Opened \subseteq Conns
          /\ \A b \in Conns \ {c} : hpc'[b] = hpc[b] /\ frame'[b] = frame[b]
      BY <1>3, OpenedConns DEF ForwardAndReport, Forward, NextLine, TypeInv, TypeOK
    <2> SUFFICES ASSUME NEW d \in Devices, NEW i \in 1..Len(accepted[d]), NEW g, g = accepted[d][i],
                        NEW s, s = <<d, g.boot, g.seq>>
                 PROVE  /\ s \in Samples /\ outcome'[s] # "new"
                        /\ outcome'[s] = "sending" =>
                             /\ hpc'[g.conn] = "forward" /\ frame'[g.conn] = g
                             /\ \A j \in 1..Len(accepted[d]) : i < j => accepted[d][j].conn # g.conn
      BY <2>2 DEF JudgedInv
    <2>4. /\ s \in Samples /\ outcome[s] # "new"
          /\ outcome[s] = "sending" =>
               /\ hpc[g.conn] = "forward" /\ frame[g.conn] = g
               /\ \A j \in 1..Len(accepted[d]) : i < j => accepted[d][j].conn # g.conn
      BY DEF JudgedInv
    <2>5. outcome'[s] # "new"
      BY <2>2, <2>4
    <2>6. ASSUME outcome'[s] = "sending"
          PROVE  s # Sample(c) /\ outcome[s] = "sending" /\ g.conn # c
      <3>1. s # Sample(c) /\ outcome[s] = "sending"
        BY <2>2, <2>4, <2>6
      <3>2. g.conn = c => s = Sample(c)
        BY <1>1, <2>4, <3>1 DEF Sample
      <3>3. QED
        BY <3>1, <3>2
    <2>7. g.conn \in Conns
      BY <1>1, <2>3
    <2>8. QED
      BY <2>3, <2>4, <2>5, <2>6, <2>7
  <1>4. CASE \E s \in Samples : CloudStores(s)
    BY <1>4 DEF CloudStores, JudgedInv, vars, historyVars
  <1>5. CASE RestartAndFail
    BY <1>5 DEF RestartAndFail, Restart, JudgedInv
  <1>6. CASE UNCHANGED pipelineVars
    BY <1>6 DEF pipelineVars, vars, hopVars, historyVars, JudgedInv
  <1>7. QED
    BY <1>2, <1>3, <1>4, <1>5, <1>6, JudgedAccept DEF PipelineNext

(* An accepted reading of a connection that is stored after a later one of    *)
(* the connection has been reported as failed.                              *)
LEMMA StoredLate ==
  ASSUME TypeInv, OrderInv, AcceptedIncreasing, HopInv, ArrivedInv, JudgedInv,
         NEW r \in Samples, NEW s \in Samples,
         outcome[s] # "new", stored[s] = 0,
         ConnsOf(r) \cap ConnsOf(s) # {}, s[3] < r[3]
  PROVE  outcome[s] = "failed"
  <1>1. PICK c : c \in ConnsOf(r) /\ c \in ConnsOf(s)
    OBVIOUS
  <1>2. PICK d \in Devices, e \in Devices : r[1] = d /\ s[1] = e
    BY DEF Samples
  <1>3. PICK k \in DOMAIN accepted[e] :
          /\ accepted[e][k].boot = s[2] /\ accepted[e][k].seq = s[3] /\ accepted[e][k].conn = c
    BY <1>1, <1>2 DEF ConnsOf
  <1>4. PICK l \in DOMAIN accepted[d] :
          accepted[d][l].seq = r[3] /\ accepted[d][l].conn = c
    BY <1>1, <1>2 DEF ConnsOf
  <1>5. k \in 1..Len(accepted[e]) /\ l \in 1..Len(accepted[d])
    BY DEF TypeInv, TypeOK
  <1>6. d = e
    BY <1>3, <1>4, <1>5 DEF OrderInv, PassedInv
  <1>7. k < l
    <2>1. accepted[e][k].seq < accepted[e][l].seq
      BY <1>3, <1>4, <1>6
    <2>2. accepted[e][k].seq \in Nat /\ accepted[e][l].seq \in Nat
      <3>1. accepted[e][k] \in Frame /\ accepted[e][l] \in Frame
        BY <1>5, <1>6 DEF TypeInv, TypeOK
      <3>2. QED
        BY <3>1 DEF Frame
    <2>3. ~(l < k) /\ l # k
      BY <1>5, <1>6, <2>1, <2>2 DEF AcceptedIncreasing
    <2>4. QED
      BY <1>5, <1>6, <2>3
  <1>8. s = <<e, accepted[e][k].boot, accepted[e][k].seq>>
    BY <1>2, <1>3 DEF Samples
  <1>9. outcome[s] # "sending"
    BY <1>3, <1>4, <1>5, <1>6, <1>7, <1>8 DEF JudgedInv
  <1>10. outcome[s] # "ok"
    BY DEF ArrivedInv
  <1>11. QED
    BY <1>9, <1>10 DEF HopInv, OutcomeType

(* Every step keeps the order of what is stored.                             *)
LEMMA GoesBackStep ==
  ASSUME TypeInv, OrderInv, AcceptedIncreasing, HopInv, ArrivedInv, JudgedInv,
         GoesBackOnlyAfterFailure, [PipelineNext]_pipelineVars
  PROVE  GoesBackOnlyAfterFailure'
  <1>1. /\ outcome \in [Samples -> {"new", "sending", "ok", "failed"}]
        /\ \A j \in DOMAIN arrived : arrived[j] \in Samples /\ outcome[arrived[j]] # "new"
    BY DEF HopInv, OutcomeType, ArrivedInv
  <1>2. ASSUME UNCHANGED arrived,
               \A j \in DOMAIN arrived : /\ ConnsOf(arrived[j])' \subseteq ConnsOf(arrived[j])
                                         /\ outcome[arrived[j]] = "failed" =>
                                              outcome'[arrived[j]] = "failed"
        PROVE  GoesBackOnlyAfterFailure'
    BY <1>2 DEF GoesBackOnlyAfterFailure, ConnsOf
  <1>3. CASE UNCHANGED <<accepted, outcome, arrived>>
    BY <1>2, <1>3 DEF ConnsOf
  <1>4. ASSUME NEW c \in Opened, AcceptAndSubmit(c) PROVE GoesBackOnlyAfterFailure'
    <2>1. Sample(c) \in Samples /\ outcome[Sample(c)] = "new"
      BY <1>4, AcceptedIsNew DEF AcceptAndSubmit
    <2>2. PICK d, f : d = owner[c] /\ f = frame[c]
      OBVIOUS
    <2>3. /\ d \in Devices /\ f \in Frame /\ accepted[d] \in Seq(Frame)
          /\ accepted' = [accepted EXCEPT ![d] = Append(@, f)]
      BY <1>4, <2>2, OwnerKnown, OpenedConns
      DEF AcceptAndSubmit, Accept, TypeInv, TypeOK, WorkInv
    <2>4. \A s \in Samples : s # Sample(c) => ConnsOf(s)' \subseteq ConnsOf(s)
      <3> SUFFICES ASSUME NEW s \in Samples, s # Sample(c), NEW e \in Devices, e = s[1],
                          NEW i \in DOMAIN accepted'[e],
                          accepted'[e][i].boot = s[2], accepted'[e][i].seq = s[3]
                   PROVE  i \in DOMAIN accepted[e] /\ accepted'[e][i] = accepted[e][i]
        BY DEF ConnsOf, Samples
      <3>1. CASE e # d
        BY <2>3, <3>1 DEF TypeInv, TypeOK
      <3>2. CASE e = d
        <4>1. accepted'[d] = Append(accepted[d], f)
          BY <2>3 DEF TypeInv, TypeOK
        <4>2. i # Len(accepted[d]) + 1
          <5>1. i = Len(accepted[d]) + 1 => accepted'[d][i] = f
            BY <2>3, <4>1
          <5>2. s = <<d, s[2], s[3]>>
            <6>1. PICK a \in Devices, b \in 0..MaxReboots, n \in 1..MaxSeq : s = <<a, b, n>>
              BY DEF Samples
            <6>2. QED
              BY <3>2, <6>1
          <5>3. QED
            BY <2>2, <3>2, <5>1, <5>2 DEF Sample
        <4>3. QED
          BY <2>3, <3>2, <4>1, <4>2
      <3>3. QED
        BY <3>1, <3>2
    <2>5. \A j \in DOMAIN arrived : arrived[j] # Sample(c)
      BY <1>1, <2>1
    <2>6. UNCHANGED arrived /\ \A s \in Samples : s # Sample(c) => outcome'[s] = outcome[s]
      BY <1>1, <1>4 DEF AcceptAndSubmit
    <2>7. QED
      BY <1>1, <1>2, <2>4, <2>5, <2>6
  <1>5. ASSUME NEW c \in Opened, ForwardAndReport(c) PROVE GoesBackOnlyAfterFailure'
    <2>1. outcome[Sample(c)] = "sending"
      BY <1>5 DEF ForwardAndReport, Forward, HopInv, ForwardInv
    <2>2. UNCHANGED <<accepted, arrived>>
          /\ outcome' = [outcome EXCEPT ![Sample(c)] = IF Succeeds THEN "ok" ELSE "failed"]
      BY <1>5 DEF ForwardAndReport, Forward, historyVars
    <2>3. \A s \in Samples : outcome[s] = "failed" => outcome'[s] = "failed"
      BY <1>1, <2>1, <2>2
    <2>4. QED
      BY <1>1, <1>2, <2>2, <2>3 DEF ConnsOf
  <1>6. ASSUME NEW s \in Samples, CloudStores(s) PROVE GoesBackOnlyAfterFailure'
    <2>1. /\ outcome[s] # "new" /\ stored[s] = 0 /\ UNCHANGED <<accepted, outcome>>
          /\ arrived' = Append(arrived, s)
      BY <1>6 DEF CloudStores, vars, historyVars
    <2>2. /\ Len(arrived) \in Nat
          /\ DOMAIN arrived' = 1..Len(arrived) + 1 /\ DOMAIN arrived = 1..Len(arrived)
          /\ arrived'[Len(arrived) + 1] = s
          /\ \A j \in DOMAIN arrived : arrived'[j] = arrived[j]
      BY <2>1 DEF ArrivedInv
    <2> SUFFICES ASSUME NEW i \in DOMAIN arrived', NEW j \in DOMAIN arrived', i < j,
                        ConnsOf(arrived[i])' \cap ConnsOf(arrived[j])' # {},
                        arrived'[j][3] < arrived'[i][3]
                 PROVE  outcome'[arrived'[j]] = "failed"
      BY DEF GoesBackOnlyAfterFailure
    <2>3. /\ ConnsOf(arrived[i])' = ConnsOf(arrived'[i])
          /\ ConnsOf(arrived[j])' = ConnsOf(arrived'[j])
      BY <2>1 DEF ConnsOf
    <2>4. i \in DOMAIN arrived
      BY <2>2
    <2>5. CASE j \in DOMAIN arrived
      BY <2>1, <2>2, <2>3, <2>4, <2>5 DEF GoesBackOnlyAfterFailure
    <2>6. CASE j = Len(arrived) + 1
      <3>1. arrived'[j] = s /\ arrived'[i] = arrived[i] /\ arrived[i] \in Samples
        BY <1>1, <2>2, <2>4, <2>6
      <3>2. QED
        BY <2>1, <2>3, <3>1, StoredLate
    <2>7. QED
      BY <2>2, <2>5, <2>6
  <1>7. CASE RestartAndFail
    <2>1. /\ UNCHANGED arrived /\ \A d \in Devices : accepted'[d] = <<>>
          /\ \A s \in Samples : outcome[s] = "failed" => outcome'[s] = "failed"
      BY <1>7 DEF RestartAndFail, Restart
    <2>2. \A s \in Samples : ConnsOf(s)' = {}
      BY <2>1 DEF ConnsOf, Samples
    <2>3. QED
      BY <1>1, <1>2, <2>1, <2>2
  <1>8. CASE LinkStep /\ UNCHANGED hopVars
    BY <1>3, <1>8, ForwardsKept DEF hopVars
  <1>9. CASE UNCHANGED pipelineVars
    BY <1>3, <1>9 DEF pipelineVars, vars, hopVars, historyVars
  <1>10. QED
    BY <1>4, <1>5, <1>6, <1>7, <1>8, <1>9 DEF PipelineNext

(* The invariants hold.                                                     *)
LEMMA StoreOrderHolds ==
  PipelineSpec => [](ArrivedInv /\ JudgedInv /\ GoesBackOnlyAfterFailure)
  <1>1. PipelineInit => ArrivedInv /\ JudgedInv /\ GoesBackOnlyAfterFailure
    BY DEF PipelineInit, Init, ArrivedInv, JudgedInv, GoesBackOnlyAfterFailure
  <1>2. /\ TypeInv /\ OrderInv /\ AcceptedIncreasing /\ HopInv
        /\ ArrivedInv /\ JudgedInv /\ GoesBackOnlyAfterFailure
        /\ [PipelineNext]_pipelineVars
        => (ArrivedInv /\ JudgedInv /\ GoesBackOnlyAfterFailure)'
    BY ArrivedStep, JudgedStep, GoesBackStep
  <1>3. QED
    BY <1>1, <1>2, HopHolds, PTL DEF PipelineSpec

(* The cloud stores the readings of one connection in the order of their      *)
(* numbers, except those reported as failed, for any number of devices and    *)
(* connections.                                                             *)
THEOREM StoredInOrder == PipelineSpec => []GoesBackOnlyAfterFailure
  BY StoreOrderHolds, PTL
-----------------------------------------------------------------------------
(* What the counters say of the store.                                      *)

With(o) == {s \in Samples : outcome[s] = o}
Kept == {s \in Samples : stored[s] = 1}

(* In the first life of the gateway the counters count the outcomes, and      *)
(* each thread that forwards has one reading under way.                      *)
CountInv ==
  restarts = 0 =>
    /\ \A o \in {"sending", "ok", "failed"} : IsFiniteSet(With(o))
    /\ stats["forwarded_ok"] = Cardinality(With("ok"))
    /\ stats["forward_failed"] = Cardinality(With("failed"))
    /\ Cardinality(Forwarding) = Cardinality(With("sending"))
    /\ IsFiniteSet(Kept) /\ Len(arrived) = Cardinality(Kept)

(* The number of threads that forward.                                      *)
LEMMA ForwardingFinite == TypeOK => IsFiniteSet(Forwarding) /\ Cardinality(Forwarding) \in Nat
  <1> SUFFICES ASSUME TypeOK PROVE IsFiniteSet(Forwarding) /\ Cardinality(Forwarding) \in Nat
    OBVIOUS
  <1>1. IsFiniteSet(Opened)
    BY OpenedConns, FS_Interval DEF Opened
  <1>2. Forwarding \in SUBSET Opened
    BY DEF Forwarding
  <1>3. QED
    BY <1>1, <1>2, FS_Subset, FS_CardinalityType

(* A thread takes up a reading.                                              *)
LEMMA CountAccept ==
  ASSUME TypeInv, HopInv, CountInv, NEW c \in Opened, AcceptAndSubmit(c)
  PROVE  CountInv'
  <1>1. /\ Sample(c) \in Samples /\ outcome[Sample(c)] = "new"
        /\ UNCHANGED <<stored, arrived, stats, restarts, owner>>
    BY AcceptedIsNew DEF AcceptAndSubmit, Accept, connVars
  <1>2. /\ outcome'[Sample(c)] = "sending"
        /\ \A s \in Samples : s # Sample(c) => outcome'[s] = outcome[s]
    BY <1>1 DEF AcceptAndSubmit, HopInv, OutcomeType
  <1>3. /\ Sample(c) \notin With("sending")
        /\ With("sending")' = With("sending") \cup {Sample(c)}
        /\ With("ok")' = With("ok") /\ With("failed")' = With("failed")
    BY <1>1, <1>2 DEF With
  <1>4. c \notin Forwarding /\ Forwarding' = Forwarding \cup {c}
    BY OpenedConns DEF AcceptAndSubmit, Accept, connVars, Forwarding, Opened, TypeInv, TypeOK
  <1>5. Cardinality(Forwarding') = Cardinality(Forwarding) + 1
    BY <1>4, ForwardingFinite, FS_AddElement DEF TypeInv
  <1>6. Kept' = Kept
    BY <1>1 DEF Kept
  <1>7. IsFiniteSet(With("sending")) =>
          /\ IsFiniteSet(With("sending")')
          /\ Cardinality(With("sending")') = Cardinality(With("sending")) + 1
    BY <1>3, FS_AddElement
  <1>8. QED
    BY <1>1, <1>3, <1>5, <1>6, <1>7 DEF CountInv

(* A thread reports what became of it.                                       *)
LEMMA CountForward ==
  ASSUME TypeInv, HopInv, CountInv, NEW c \in Opened, ForwardAndReport(c)
  PROVE  CountInv'
  <1>1. /\ Sample(c) \in Samples /\ outcome[Sample(c)] = "sending"
        /\ UNCHANGED <<stored, arrived, restarts, owner>>
    BY DEF ForwardAndReport, Forward, connVars, HopInv, ForwardInv
  <1>2. PICK o \in {"ok", "failed"} :
          /\ o = IF Succeeds THEN "ok" ELSE "failed"
          /\ outcome'[Sample(c)] = o
          /\ \A s \in Samples : s # Sample(c) => outcome'[s] = outcome[s]
    BY <1>1 DEF ForwardAndReport, HopInv, OutcomeType
  <1>3. /\ With("sending")' = With("sending") \ {Sample(c)} /\ Sample(c) \in With("sending")
        /\ Sample(c) \notin With(o) /\ With(o)' = With(o) \cup {Sample(c)}
        /\ \A p \in {"ok", "failed"} \ {o} : With(p)' = With(p)
    BY <1>1, <1>2 DEF With
  <1>4. c \in Forwarding /\ Forwarding' = Forwarding \ {c}
    BY <1>1, OpenedConns
    DEF ForwardAndReport, Forward, NextLine, Forwarding, Opened, TypeInv, TypeOK
  <1>5. Cardinality(Forwarding') = Cardinality(Forwarding) - 1
    BY <1>4, ForwardingFinite, FS_RemoveElement DEF TypeInv
  <1>6. /\ o = "ok" =>
             /\ stats'["forwarded_ok"] = stats["forwarded_ok"] + 1
             /\ stats'["forward_failed"] = stats["forward_failed"]
        /\ o = "failed" =>
             /\ stats'["forwarded_ok"] = stats["forwarded_ok"]
             /\ stats'["forward_failed"] = stats["forward_failed"] + 1
    <2>1. stats["forwarded_ok"] \in Nat
      BY DEF TypeInv, TypeOK, Counters
    <2>2. CASE Bump({"forwarded_ok"})
      BY <1>2, <2>1, <2>2 DEF Bump, Counters, Succeeds
    <2>3. CASE Bump({"forward_failed"})
      BY <1>2, <2>1, <2>3 DEF Bump, Counters, Succeeds
    <2>4. QED
      BY <2>2, <2>3 DEF ForwardAndReport, Forward
  <1>7. Kept' = Kept
    BY <1>1 DEF Kept
  <1>8. /\ IsFiniteSet(With("sending")) =>
             /\ IsFiniteSet(With("sending")')
             /\ Cardinality(With("sending")') = Cardinality(With("sending")) - 1
        /\ IsFiniteSet(With(o)) =>
             /\ IsFiniteSet(With(o)')
             /\ Cardinality(With(o)') = Cardinality(With(o)) + 1
    <2>1. ASSUME IsFiniteSet(With("sending"))
          PROVE  /\ IsFiniteSet(With("sending")')
                 /\ Cardinality(With("sending")') = Cardinality(With("sending")) - 1
      BY <1>3, <2>1, FS_RemoveElement
    <2>2. ASSUME IsFiniteSet(With(o))
          PROVE  /\ IsFiniteSet(With(o)')
                 /\ Cardinality(With(o)') = Cardinality(With(o)) + 1
      <3>1. Sample(c) \notin With(o) /\ With(o)' = With(o) \cup {Sample(c)}
        BY <1>3
      <3>2. QED
        BY <2>2, <3>1, FS_AddElement
    <2>3. QED
      BY <2>1, <2>2
  <1>9. CASE o = "ok"
    BY <1>1, <1>3, <1>5, <1>6, <1>7, <1>8, <1>9 DEF CountInv
  <1>10. CASE o = "failed"
    BY <1>1, <1>3, <1>5, <1>6, <1>7, <1>8, <1>10 DEF CountInv
  <1>11. QED
    BY <1>9, <1>10

(* The cloud stores one.                                                    *)
LEMMA CountStore ==
  ASSUME ArrivedInv, CountInv, NEW s \in Samples, CloudStores(s)
  PROVE  CountInv'
  <1>1. /\ stored[s] = 0 /\ stored' = [stored EXCEPT ![s] = 1] /\ arrived' = Append(arrived, s)
        /\ UNCHANGED <<owner, hpc, stats, restarts, outcome>>
    BY DEF CloudStores, vars, connVars
  <1>2. s \notin Kept /\ Kept' = Kept \cup {s}
    BY <1>1 DEF Kept, ArrivedInv
  <1>3. Len(arrived') = Len(arrived) + 1
    BY <1>1 DEF ArrivedInv
  <1>4. IsFiniteSet(Kept) =>
          IsFiniteSet(Kept') /\ Cardinality(Kept') = Cardinality(Kept) + 1
    BY <1>2, FS_AddElement
  <1>5. Forwarding' = Forwarding /\ \A o : With(o)' = With(o)
    BY <1>1 DEF Forwarding, Opened, With
  <1>6. QED
    BY <1>1, <1>3, <1>4, <1>5 DEF CountInv

(* Every step keeps the books.                                              *)
LEMMA CountStep ==
  ASSUME TypeInv, HopInv, ArrivedInv, CountInv, [PipelineNext]_pipelineVars
  PROVE  CountInv'
  <1>1. ASSUME UNCHANGED hopVars, Forwarding' = Forwarding, restarts' = restarts,
               stats'["forwarded_ok"] = stats["forwarded_ok"],
               stats'["forward_failed"] = stats["forward_failed"]
        PROVE  CountInv'
    <2>1. Kept' = Kept /\ \A o : With(o)' = With(o)
      BY <1>1 DEF hopVars, Kept, With
    <2>2. QED
      BY <1>1, <2>1 DEF CountInv, hopVars
  <1>2. CASE LinkStep /\ UNCHANGED hopVars
    <2>1. Forwarding' = Forwarding
      BY <1>2, ForwardsUntouched, ForwardsKept DEF Forwarding
    <2>2. restarts' = restarts
      BY <1>2
      DEF LinkStep, DeviceStep, HandlerOnly, Connect, Send, SendFails, Reboot, ReadLine, Reject,
          DropStale, Disconnect, LinkReset
    <2>3. \/ UNCHANGED stats
          \/ \E names \in SUBSET {"frames_received", "frames_rejected", "replays_dropped"} : Bump(names)
      BY <1>2
      DEF LinkStep, DeviceStep, HandlerOnly, Connect, Send, SendFails, Reboot, ReadLine, Reject,
          DropStale, Disconnect, LinkReset
    <2>4. /\ stats'["forwarded_ok"] = stats["forwarded_ok"]
          /\ stats'["forward_failed"] = stats["forward_failed"]
      BY <2>3 DEF Bump, Counters
    <2>5. QED
      BY <1>1, <1>2, <2>1, <2>2, <2>4
  <1>3. CASE RestartAndFail
    <2>1. restarts \in Nat /\ restarts' = restarts + 1
      BY <1>3, DeviceAssumption DEF RestartAndFail, Restart, TypeInv, TypeOK
    <2>2. QED
      BY <2>1 DEF CountInv
  <1>4. CASE UNCHANGED pipelineVars
    <2>1. UNCHANGED <<hopVars, owner, hpc, stats, restarts>>
      BY <1>4 DEF pipelineVars, vars, connVars
    <2>2. QED
      BY <1>1, <2>1 DEF Forwarding, Opened
  <1>5. QED
    BY <1>2, <1>3, <1>4, CountAccept, CountForward, CountStore DEF PipelineNext

(* The counters bracket the number of readings the cloud has stored, for any  *)
(* number of devices and threads.                                           *)
THEOREM CountersBracketTheStore == PipelineSpec => []CountsBracketStore
  <1>1. PipelineInit => CountInv
    <2> SUFFICES ASSUME PipelineInit PROVE CountInv
      OBVIOUS
    <2>1. /\ With("sending") = {} /\ With("ok") = {} /\ With("failed") = {} /\ Kept = {}
          /\ Forwarding = {}
      <3>1. \A s \in Samples : outcome[s] = "new" /\ stored[s] = 0
        BY DEF PipelineInit
      <3>2. Opened = {}
        BY DEF PipelineInit, Init, Opened
      <3>3. QED
        BY <3>1, <3>2 DEF With, Kept, Forwarding
    <2>2. Len(arrived) = 0 /\ stats["forwarded_ok"] = 0 /\ stats["forward_failed"] = 0
      BY DEF PipelineInit, Init, Counters
    <2>3. QED
      BY <2>1, <2>2, FS_EmptySet DEF CountInv
  <1>2. TypeInv /\ HopInv /\ ArrivedInv /\ CountInv => CountsBracketStore
    <2> SUFFICES ASSUME TypeInv, HopInv, ArrivedInv, CountInv, restarts = 0
                 PROVE  /\ stats["forwarded_ok"] <= Len(arrived)
                        /\ Len(arrived) <= stats["forwarded_ok"] + stats["forward_failed"]
                                             + Cardinality(Forwarding)
      BY DEF CountsBracketStore
    <2>1. /\ IsFiniteSet(With("ok")) /\ IsFiniteSet(With("failed")) /\ IsFiniteSet(With("sending"))
          /\ IsFiniteSet(Kept)
          /\ stats["forwarded_ok"] = Cardinality(With("ok"))
          /\ stats["forward_failed"] = Cardinality(With("failed"))
          /\ Cardinality(Forwarding) = Cardinality(With("sending"))
          /\ Len(arrived) = Cardinality(Kept)
      BY DEF CountInv
    <2>2. With("ok") \in SUBSET Kept
      BY DEF With, Kept, ArrivedInv
    <2>3. Kept \in SUBSET ((With("ok") \cup With("failed")) \cup With("sending"))
      BY DEF With, Kept, ArrivedInv, HopInv, OutcomeType
    <2>4. ASSUME NEW S, NEW T, IsFiniteSet(S), IsFiniteSet(T)
          PROVE  /\ IsFiniteSet(S \cup T)
                 /\ Cardinality(S \cup T) <= Cardinality(S) + Cardinality(T)
      <3>1. /\ IsFiniteSet(S \cup T)
            /\ Cardinality(S \cup T) = Cardinality(S) + Cardinality(T) - Cardinality(S \cap T)
        BY <2>4, FS_Union
      <3>2. IsFiniteSet(S \cap T)
        BY <2>4, FS_Subset
      <3>3. Cardinality(S) \in Nat /\ Cardinality(T) \in Nat /\ Cardinality(S \cap T) \in Nat
        BY <2>4, <3>2, FS_CardinalityType
      <3>4. QED
        BY <3>1, <3>3
    <2> DEFINE U == With("ok") \cup With("failed")
               V == U \cup With("sending")
    <2>5. /\ IsFiniteSet(U) /\ Cardinality(U) <= Cardinality(With("ok")) + Cardinality(With("failed"))
      BY <2>1, <2>4
    <2>6. /\ IsFiniteSet(V) /\ Cardinality(V) <= Cardinality(U) + Cardinality(With("sending"))
      BY <2>1, <2>4, <2>5
    <2>7. Cardinality(With("ok")) <= Cardinality(Kept)
      BY <2>1, <2>2, FS_Subset
    <2>8. Cardinality(Kept) <= Cardinality(V)
      BY <2>3, <2>6, FS_Subset
    <2>9. /\ Cardinality(With("ok")) \in Nat /\ Cardinality(With("failed")) \in Nat
          /\ Cardinality(With("sending")) \in Nat /\ Cardinality(Kept) \in Nat
          /\ Cardinality(U) \in Nat /\ Cardinality(V) \in Nat
      BY <2>1, <2>5, <2>6, FS_CardinalityType
    <2> HIDE DEF U, V
    <2>10. QED
      BY <2>1, <2>5, <2>6, <2>7, <2>8, <2>9
  <1>3. TypeInv /\ HopInv /\ ArrivedInv /\ CountInv /\ [PipelineNext]_pipelineVars => CountInv'
    BY CountStep
  <1>4. QED
    BY <1>1, <1>2, <1>3, HopHolds, StoreOrderHolds, PTL DEF PipelineSpec
=============================================================================
