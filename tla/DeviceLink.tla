------------------------------ MODULE DeviceLink ------------------------------
(***************************************************************************)
(* The device side of the gateway: legacy devices that stream frames over   *)
(* TCP and reconnect for ever (legacy_device/device.py), and the handler     *)
(* threads, the SequenceTracker and the GatewayStats they share              *)
(* (edge_gateway/gateway.py).                                               *)
(*                                                                         *)
(* A device that loses its link opens a new connection at once, while the   *)
(* thread of the old one may still be busy with frames it has received: two *)
(* threads then work for one device.  Frames are abstracted to the boot of  *)
(* the device and the sequence number they carry, and to what became of     *)
(* their bytes; the uplink is abstracted to a send that succeeds or fails.  *)
(***************************************************************************)
EXTENDS Naturals, Sequences, FiniteSets

CONSTANTS
  Devices,      \* device identities
  MaxConns,     \* bound: connections ever accepted
  MaxSeq,       \* bound: readings a device takes per boot
  MaxReboots,   \* bound: reboots of each device
  MaxRestarts,  \* bound: restarts of the gateway
  Faults,       \* which faults may happen
  None

ASSUME DeviceAssumption ==
  /\ MaxConns \in Nat
  /\ MaxSeq \in Nat
  /\ MaxReboots \in Nat
  /\ MaxRestarts \in Nat
  /\ Faults \subseteq {"broken_link", "reboot", "oversized", "uplink", "restart"}
  /\ None \notin Nat

VARIABLES
  (* Each device.                                                          *)
  seq,        \* its sequence counter
  boots,      \* how often it has rebooted
  link,       \* the connection it sends on, or None
  (* Each connection.                                                      *)
  owner,      \* owner[c]: the device that opened connection c
  chan,       \* frames under way, oldest first
  ended,      \* connections that will carry nothing more
  (* The gateway.                                                          *)
  hpc,        \* what the handler thread of each connection does
  frame,      \* the frame it works on
  seen,       \* _seen: last accepted sequence number of each device
  stats,      \* GatewayStats
  restarts,   \* how often the gateway process has restarted
  (* History, of the present life of the gateway.                          *)
  accepted,   \* frames accepted from each device, in order
  stale,      \* frames dropped as replayed or stale
  oversized   \* oversized frames dropped

deviceVars == <<seq, boots, link>>
connVars == <<owner, chan, ended>>
historyVars == <<accepted, stale, oversized>>
vars == <<deviceVars, connVars, hpc, frame, seen, stats, restarts, historyVars>>

Conns == 1..MaxConns
Opened == 1..Len(owner)

(* bytes: "whole", "cut" when the connection broke within the frame, "long"  *)
(* when the line exceeds MAX_FRAME_BYTES.                                   *)
Frame == [boot: Nat, seq: Nat, bytes: {"whole", "cut", "long"}, conn: Conns]

Counters ==
  {"frames_received", "frames_rejected", "forwarded_ok", "forward_failed", "replays_dropped"}

Init ==
  /\ seq = [d \in Devices |-> 0]
  /\ boots = [d \in Devices |-> 0]
  /\ link = [d \in Devices |-> None]
  /\ owner = <<>>
  /\ chan = [c \in Conns |-> <<>>]
  /\ ended = {}
  /\ hpc = [c \in Conns |-> "read"]
  /\ frame = [c \in Conns |-> None]
  /\ seen = [d \in Devices |-> None]
  /\ stats = [n \in Counters |-> 0]
  /\ restarts = 0
  /\ accepted = [d \in Devices |-> <<>>]
  /\ stale = {}
  /\ oversized = 0

-----------------------------------------------------------------------------
(* The device: LegacyDevice.run and _send_forever.                          *)

Connect(d) ==
  /\ link[d] = None
  /\ Len(owner) < MaxConns
  /\ owner' = Append(owner, d)
  /\ link' = [link EXCEPT ![d] = Len(owner) + 1]
  /\ UNCHANGED <<seq, boots, chan, ended, hpc, frame, seen, stats, restarts, historyVars>>

FrameOf(d, bytes) ==
  [boot |-> boots[d], seq |-> seq[d] + 1, bytes |-> bytes, conn |-> link[d]]

(* Take a reading, count it and hand it to sendall.  A connection that has   *)
(* ended takes the bytes as long as the device does not know.               *)
Send(d, bytes) ==
  /\ link[d] # None
  /\ seq[d] < MaxSeq
  /\ bytes = "long" => "oversized" \in Faults
  /\ seq' = [seq EXCEPT ![d] = @ + 1]
  /\ chan' = IF link[d] \in ended THEN chan
             ELSE [chan EXCEPT ![link[d]] = Append(@, FrameOf(d, bytes))]
  /\ UNCHANGED <<boots, link, owner, ended, hpc, frame, seen, stats, restarts, historyVars>>

(* sendall raises: the counter has moved on, nothing or only a part of the   *)
(* frame is under way, and run() starts over with a new connection.         *)
SendFails(d) ==
  /\ link[d] # None
  /\ seq[d] < MaxSeq
  /\ "broken_link" \in Faults \/ link[d] \in ended
  /\ seq' = [seq EXCEPT ![d] = @ + 1]
  /\ \/ UNCHANGED chan
     \/ /\ link[d] \notin ended
        /\ chan' = [chan EXCEPT ![link[d]] = Append(@, FrameOf(d, "cut"))]
  /\ ended' = ended \cup {link[d]}
  /\ link' = [link EXCEPT ![d] = None]
  /\ UNCHANGED <<boots, owner, hpc, frame, seen, stats, restarts, historyVars>>

(* The device loses power and starts again from sequence number 0.  Nobody   *)
(* tells the gateway: its thread goes on waiting on the old connection.     *)
Reboot(d) ==
  /\ "reboot" \in Faults
  /\ boots[d] < MaxReboots
  /\ seq[d] < MaxSeq            \* bound: leaves the next boot a number above the mark
  /\ boots' = [boots EXCEPT ![d] = @ + 1]
  /\ seq' = [seq EXCEPT ![d] = 0]
  /\ link' = [link EXCEPT ![d] = None]
  /\ UNCHANGED <<connVars, hpc, frame, seen, stats, restarts, historyVars>>

(* The connection is reset: frames not yet read are lost from some point on. *)
LinkReset(c) ==
  /\ "broken_link" \in Faults
  /\ c \notin ended
  /\ ended' = ended \cup {c}
  /\ \E n \in 0..Len(chan[c]) : chan' = [chan EXCEPT ![c] = SubSeq(@, 1, n)]
  /\ UNCHANGED <<deviceVars, owner, hpc, frame, seen, stats, restarts, historyVars>>

-----------------------------------------------------------------------------
(* The gateway: DeviceHandler.handle, _process and _forward.                *)

Bump(names) == stats' = [n \in Counters |-> IF n \in names THEN stats[n] + 1 ELSE stats[n]]

(* The next line of rfile; an oversized one is dropped at once.             *)
ReadLine(c) ==
  /\ hpc[c] = "read"
  /\ chan[c] # <<>>
  /\ chan' = [chan EXCEPT ![c] = Tail(@)]
  /\ IF Head(chan[c]).bytes = "long"
     THEN /\ Bump({"frames_rejected"})
          /\ oversized' = oversized + 1
          /\ UNCHANGED <<hpc, frame>>
     ELSE /\ Bump({"frames_received"})
          /\ hpc' = [hpc EXCEPT ![c] = "process"]
          /\ frame' = [frame EXCEPT ![c] = Head(chan[c])]
          /\ UNCHANGED oversized
  /\ UNCHANGED <<deviceVars, owner, ended, seen, restarts, accepted, stale>>

NextLine(c) ==
  /\ hpc' = [hpc EXCEPT ![c] = "read"]
  /\ frame' = [frame EXCEPT ![c] = None]

(* Wrong: an undecodable frame is not counted.                              *)
RejectSilently(c) ==
  /\ hpc[c] = "process"
  /\ frame[c].bytes = "cut"
  /\ NextLine(c)
  /\ UNCHANGED <<deviceVars, connVars, seen, stats, restarts, historyVars>>

(* decrypt_frame or parse_reading raises ValueError.                        *)
Reject(c) ==
  /\ hpc[c] = "process"
  /\ frame[c].bytes = "cut"
  /\ Bump({"frames_rejected"})
  /\ NextLine(c)
  /\ UNCHANGED <<deviceVars, connVars, seen, restarts, historyVars>>

(* Wrong: a repeated number passes.                                         *)
IsStaleStrictly(c) == seen[owner[c]] # None /\ frame[c].seq < seen[owner[c]]

(* Wrong: off by one, the number after the mark is stale too.               *)
IsStaleNextToo(c) == seen[owner[c]] # None /\ frame[c].seq <= seen[owner[c]] + 1

(* SequenceTracker.accept: the test and the update under one lock.          *)
IsStale(c) == seen[owner[c]] # None /\ frame[c].seq <= seen[owner[c]]

(* Wrong: a dropped frame moves the mark.                                   *)
DropStaleAndCount(c) ==
  /\ hpc[c] = "process"
  /\ frame[c].bytes = "whole"
  /\ IsStale(c)
  /\ Bump({"replays_dropped"})
  /\ seen' = [seen EXCEPT ![owner[c]] = @ + 1]
  /\ stale' = stale \cup {frame[c]}
  /\ NextLine(c)
  /\ UNCHANGED <<deviceVars, connVars, restarts, accepted, oversized>>

DropStale(c) ==
  /\ hpc[c] = "process"
  /\ frame[c].bytes = "whole"
  /\ IsStale(c)
  /\ Bump({"replays_dropped"})
  /\ stale' = stale \cup {frame[c]}
  /\ NextLine(c)
  /\ UNCHANGED <<deviceVars, connVars, seen, restarts, accepted, oversized>>

Accept(c) ==
  /\ hpc[c] = "process"
  /\ frame[c].bytes = "whole"
  /\ ~IsStale(c)
  /\ seen' = [seen EXCEPT ![owner[c]] = frame[c].seq]
  /\ accepted' = [accepted EXCEPT ![owner[c]] = Append(@, frame[c])]
  /\ hpc' = [hpc EXCEPT ![c] = "forward"]
  /\ UNCHANGED <<deviceVars, connVars, frame, stats, restarts, stale, oversized>>

(* uplink.send returns or raises.                                           *)
Forward(c) ==
  /\ hpc[c] = "forward"
  /\ \/ Bump({"forwarded_ok"})
     \/ /\ "uplink" \in Faults
        /\ Bump({"forward_failed"})
  /\ NextLine(c)
  /\ UNCHANGED <<deviceVars, connVars, seen, restarts, historyVars>>

(* The loop over rfile ends with the connection.                            *)
Disconnect(c) ==
  /\ hpc[c] = "read"
  /\ chan[c] = <<>>
  /\ c \in ended
  /\ hpc' = [hpc EXCEPT ![c] = "done"]
  /\ UNCHANGED <<deviceVars, connVars, frame, seen, stats, restarts, historyVars>>

(* The gateway process restarts: every connection ends, and the tracker and  *)
(* the counters start afresh.                                               *)
Restart ==
  /\ "restart" \in Faults
  /\ restarts < MaxRestarts
  /\ restarts' = restarts + 1
  /\ ended' = ended \cup Opened
  /\ chan' = [c \in Conns |-> <<>>]
  /\ hpc' = [c \in Conns |-> IF c \in Opened THEN "done" ELSE "read"]
  /\ frame' = [c \in Conns |-> None]
  /\ seen' = [d \in Devices |-> None]
  /\ stats' = [n \in Counters |-> 0]
  /\ accepted' = [d \in Devices |-> <<>>]
  /\ stale' = {}
  /\ oversized' = 0
  /\ UNCHANGED <<deviceVars, owner>>

-----------------------------------------------------------------------------
DeviceStep(d) == Connect(d) \/ Send(d, "whole") \/ SendFails(d)

HandlerStep(c) ==
  ReadLine(c) \/ Reject(c) \/ DropStale(c) \/ Accept(c) \/ Forward(c) \/ Disconnect(c)

Next ==
  \/ \E d \in Devices : DeviceStep(d) \/ Send(d, "long") \/ Reboot(d)
  \/ \E c \in Opened : HandlerStep(c) \/ LinkReset(c)
  \/ Restart

Spec == Init /\ [][Next]_vars
-----------------------------------------------------------------------------
(* Properties.                                                              *)

(* The values each variable takes.                                          *)
TypeOK ==
  /\ seq \in [Devices -> 0..MaxSeq]
  /\ boots \in [Devices -> 0..MaxReboots]
  /\ link \in [Devices -> Conns \cup {None}]
  /\ owner \in Seq(Devices) /\ Len(owner) <= MaxConns
  /\ chan \in [Conns -> Seq(Frame)]
  /\ ended \subseteq Opened
  /\ hpc \in [Conns -> {"read", "process", "forward", "done"}]
  /\ frame \in [Conns -> Frame \cup {None}]
  /\ seen \in [Devices -> Nat \cup {None}]
  /\ stats \in [Counters -> Nat]
  /\ restarts \in 0..MaxRestarts
  /\ accepted \in [Devices -> Seq(Frame)]
  /\ stale \subseteq Frame
  /\ oversized \in Nat

(* SequenceTracker: "higher than anything seen from this device".  During    *)
(* one life of the gateway the frames accepted from a device have strictly   *)
(* increasing numbers, so none is accepted twice, whatever threads of old    *)
(* and new connections work for the device and however often it reboots.    *)
AcceptedIncreasing ==
  \A d \in Devices : \A i, j \in 1..Len(accepted[d]) :
    i < j => accepted[d][i].seq < accepted[d][j].seq

(* A frame the device really sent is dropped as "replayed or stale" only     *)
(* when a frame of another boot, or one the device sent later over a newer   *)
(* connection, was accepted before it: no device is held up by the numbers   *)
(* of another one, or by the frames of its own connection.                  *)
StaleOnlyWhenOvertaken ==
  \A f \in stale : \E i \in 1..Len(accepted[owner[f.conn]]) :
    LET g == accepted[owner[f.conn]][i]
    IN /\ g.seq >= f.seq
       /\ g.boot # f.boot \/ g.conn > f.conn

Busy == {c \in Opened : hpc[c] \in {"process", "forward"}}

(* Every line that arrived is counted exactly once by its fate, or is still  *)
(* being worked on: no counter is lost or bumped twice on any path.         *)
FramesAccounted ==
  stats["frames_received"] + oversized =
    stats["frames_rejected"] + stats["replays_dropped"] + stats["forwarded_ok"]
      + stats["forward_failed"] + Cardinality(Busy)

(* Frames can have gone missing: the device may have stopped counting before *)
(* the gateway heard it.                                                    *)
FramesLost == ended # {} \/ oversized > 0 \/ restarts > 0

(* device.py: after a reboot the gateway drops every reading "until it       *)
(* climbs past the old high-water mark", and then no more: a rebooted device *)
(* is heard again, unless frames are lost on the way.                       *)
RebootedDeviceIsHeard ==
  \A d \in Devices : \A b \in 1..MaxReboots :
    boots[d] = b ~> \/ boots[d] > b
                    \/ \E i \in 1..Len(accepted[d]) : accepted[d][i].boot = b
                    \/ FramesLost
=============================================================================
