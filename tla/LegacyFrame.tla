----------------------------- MODULE LegacyFrame -----------------------------
(***************************************************************************)
(* One reading after the other through the legacy frame format               *)
(* (legacy_device/protocol.py): the device builds the record and encrypts    *)
(* the frame, the gateway decrypts and parses it, and the cloud validates    *)
(* what it says.                                                            *)
(*                                                                         *)
(* Texts are abstracted to their lengths, to the number of fields a record   *)
(* splits into and to whether they are ASCII.  Damage to a frame is in       *)
(* DeviceLink.                                                              *)
(***************************************************************************)
EXTENDS Integers, FiniteSets

CONSTANTS
  Ids,              \* --device-id: [length, ascii, separators]
  MAX_FRAME_BYTES,  \* of the device: 256
  GATEWAY_MAX_FRAME_BYTES, \* MAX_FRAME_BYTES of the gateway, "deliberately larger": 4096
  BLOCK,            \* _AES_BLOCK_BYTES: 16
  MAX_ID_LENGTH,    \* of the cloud's Reading: 64
  Base,             \* in which numbers are written: 10
  MaxSeq, MaxUptime \* bounds: readings and seconds of a run

ASSUME FrameAssumption ==
  /\ Ids \subseteq [length: Nat, ascii: BOOLEAN, separators: Nat]
  /\ MAX_FRAME_BYTES \in Nat /\ MAX_ID_LENGTH \in Nat
  /\ BLOCK \in Nat \ {0}
  /\ MAX_FRAME_BYTES >= 4 * BLOCK + 2 \* the shortest frame fits
  /\ GATEWAY_MAX_FRAME_BYTES \in Nat /\ GATEWAY_MAX_FRAME_BYTES >= MAX_FRAME_BYTES
  /\ Base \in Nat /\ Base > 1
  /\ MaxSeq \in Nat /\ MaxUptime \in Nat

VARIABLES
  id,      \* device_id
  seq,     \* self.seq
  uptime,  \* _uptime_s()
  device,  \* "running", or "ended" by an exception run() does not catch
  record,  \* history: length of the last record built
  line,    \* the frame under way: its bytes and its fields, or None
  fates    \* history: what became of the readings that were sent

vars == <<id, seq, uptime, device, record, line, fates>>

None == [bytes |-> 0, fields |-> 0]

Init ==
  /\ id \in Ids
  /\ seq = 0 /\ uptime = 0
  /\ device = "running"
  /\ record = 0 /\ line = None
  /\ fates = {}

Tick ==
  /\ uptime < MaxUptime
  /\ uptime' = uptime + 1
  /\ UNCHANGED <<id, seq, device, record, line, fates>>

-----------------------------------------------------------------------------
(* The device.                                                              *)

(* The length of str(n): a digit, and one more for every power of the base   *)
(* up to n.                                                                 *)
Digits(n) == 1 + Cardinality({k \in 1..n : Base ^ k <= n})

(* "5.00" to "35.00", and "10.00" to "95.00".                               *)
SensorText == {4 + 5, 5 + 5}

(* build_reading: "DEV", the five fields and the separators.                 *)
Built(n, sensors) == 8 + id.length + Digits(n) + sensors + Digits(uptime)

(* Wrong: a record of whole blocks is not padded.                           *)
PaddedToBlock(length) == BLOCK * ((length + BLOCK - 1) \div BLOCK)

(* PKCS7: at least one byte of padding.                                     *)
Padded(length) == BLOCK * (length \div BLOCK + 1)

(* IV and ciphertext in hex, the separator and the newline.                 *)
FrameLength(length) == 2 * BLOCK + 1 + 2 * Padded(length) + 1

Frame(length) == [bytes |-> FrameLength(length), fields |-> 6 + id.separators]

TooLong(length) == FrameLength(length) > MAX_FRAME_BYTES

(* Wrong: what does not fit is cut off.                                     *)
SendTruncated(sensors) ==
  LET length == Built(seq + 1, sensors)
  IN /\ device = "running"
     /\ line = None
     /\ seq < MaxSeq
     /\ seq' = seq + 1
     /\ record' = length
     /\ line' = IF TooLong(length) THEN [bytes |-> MAX_FRAME_BYTES, fields |-> 0] ELSE Frame(length)
     /\ UNCHANGED <<id, uptime, device, fates>>

(* A turn of _send_forever: encrypt_frame raises ValueError (encode does, or  *)
(* the frame is too long), which run() does not catch, or the frame is sent.  *)
Send(sensors) ==
  LET length == Built(seq + 1, sensors)
  IN /\ device = "running"
     /\ line = None
     /\ seq < MaxSeq
     /\ seq' = seq + 1
     /\ record' = length
     /\ IF ~id.ascii \/ TooLong(length)
          THEN device' = "ended" /\ UNCHANGED line
          ELSE line' = Frame(length) /\ UNCHANGED device
     /\ UNCHANGED <<id, uptime, fates>>

-----------------------------------------------------------------------------
(* The gateway and the cloud.                                               *)

(* parse_reading: "DEV" and five fields, the device id among them not empty. *)
Parses == line.fields = 6 /\ id.length > 0

(* handle drops a frame over the gateway's own limit, _process one that does  *)
(* not parse, and the cloud refuses a device id longer than Reading allows.   *)
Fate ==
  IF line.bytes > GATEWAY_MAX_FRAME_BYTES THEN "oversized"
  ELSE IF ~Parses THEN "rejected"
  ELSE IF id.length > MAX_ID_LENGTH THEN "refused" ELSE "stored"

Receive ==
  /\ line # None
  /\ fates' = fates \cup {Fate}
  /\ line' = None
  /\ UNCHANGED <<id, seq, uptime, device, record>>

Next == Tick \/ (\E sensors \in SensorText : Send(sensors)) \/ Receive

Spec == Init /\ [][Next]_vars
-----------------------------------------------------------------------------
(* Properties.                                                              *)

(* The longest record whose frame fits: as many blocks as the buffer has     *)
(* room for in hex beside the IV, less one byte of padding.                 *)
Capacity == BLOCK * ((MAX_FRAME_BYTES - 2 * BLOCK - 2) \div (2 * BLOCK)) - 1

(* A frame is sent for every record up to Capacity and for no longer one:    *)
(* with the real sizes, 95 characters.                                      *)
FitsUpToCapacity ==
  id.ascii => (device = "ended" <=> record > Capacity)

(* All readings of a device meet one fate until it ends: a bad device id     *)
(* shows at the first of them, and none is cut or dropped on the way when     *)
(* its numbers grow.                                                        *)
OneFate == \A f, g \in fates : f = g

(* device.py, run: "Connect to the gateway and stream readings, retrying      *)
(* forever."  With an id the gateway and the cloud accept, a device goes on. *)
StreamsForever ==
  id.ascii /\ id.separators = 0 /\ id.length \in 1..MAX_ID_LENGTH => device = "running"
=============================================================================
