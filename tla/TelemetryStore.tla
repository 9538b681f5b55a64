---------------------------- MODULE TelemetryStore ----------------------------
(***************************************************************************)
(* The cloud's store of readings (cloud_service/app.py): the bounded buffer  *)
(* both ingest paths append to, and the queries made of it.                 *)
(*                                                                         *)
(* _store stamps a reading with the time of reception before it takes the    *)
(* lock, so stamping and appending are two steps of a request thread.  The   *)
(* queries copy the buffer under the lock and compute on the copy: they are  *)
(* functions of one state.                                                  *)
(***************************************************************************)
EXTENDS Integers, Sequences, SequencesExt, FiniteSetsExt

CONSTANTS
  Workers,             \* request threads
  Devices,             \* device ids
  MAX_STORED_READINGS, \* size of the buffer
  MaxReadings,         \* bound: readings ever stored
  MaxClock,            \* bound: ticks of the clock
  None

ASSUME StoreAssumption ==
  /\ IsFiniteSet(Workers)
  /\ None \notin Devices
  /\ MAX_STORED_READINGS \in Nat \ {0}
  /\ MaxReadings \in Nat
  /\ MaxClock \in Nat

VARIABLES
  legacy_enabled, \* LEGACY_INGEST_ENABLED, read when the process starts
  clock,          \* the time
  work,           \* the record each request thread is about to append
  readings,       \* _readings
  arrived,        \* history: every record appended since the start
  refused         \* history: status codes of refused v1 requests

vars == <<legacy_enabled, clock, work, readings, arrived, refused>>

Channels == {"mlkem", "legacy"}
Record == [device_id: Devices, seq: Nat, received_at: Nat, channel: Channels]

Init ==
  /\ legacy_enabled \in BOOLEAN
  /\ clock = 0
  /\ work = [w \in Workers |-> None]
  /\ readings = <<>>
  /\ arrived = <<>>
  /\ refused = {}

Tick ==
  /\ clock < MaxClock
  /\ clock' = clock + 1
  /\ UNCHANGED <<legacy_enabled, work, readings, arrived, refused>>

-----------------------------------------------------------------------------
(* Storing.                                                                 *)

InWork == {w \in Workers : work[w] # None}

(* Wrong: the time the reading itself was sent.                              *)
StampAsSent(w, d, ch) ==
  /\ work[w] = None
  /\ Len(arrived) + Cardinality(InWork) < MaxReadings
  /\ \E sent \in 0..clock : work' = [work EXCEPT ![w] =
       [device_id |-> d, seq |-> Len(arrived) + Cardinality(InWork),
        received_at |-> sent, channel |-> ch]]
  /\ UNCHANGED <<legacy_enabled, clock, readings, arrived, refused>>

(* _store, up to the lock: the record takes the time of reception.  seq      *)
(* numbers the requests, which tells the records apart.                     *)
Stamp(w, d, ch) ==
  /\ work[w] = None
  /\ Len(arrived) + Cardinality(InWork) < MaxReadings
  /\ work' = [work EXCEPT ![w] =
       [device_id |-> d, seq |-> Len(arrived) + Cardinality(InWork),
        received_at |-> clock, channel |-> ch]]
  /\ UNCHANGED <<legacy_enabled, clock, readings, arrived, refused>>

(* v2: a sealed reading that was opened and is valid (SealedUplink,          *)
(* StoreReading).                                                           *)
IngestSealed(w, d) == Stamp(w, d, "mlkem")

(* Wrong: the retired path still takes readings.                            *)
IngestRegardless(w, d, token) == token /\ Stamp(w, d, "legacy")

(* v1: refused with 410 once the path is retired, with 401 without the token. *)
Ingest(w, d, token) ==
  IF legacy_enabled /\ token THEN Stamp(w, d, "legacy")
  ELSE /\ work[w] = None
       /\ refused' = refused \cup {IF legacy_enabled THEN 401 ELSE 410}
       /\ UNCHANGED <<legacy_enabled, clock, work, readings, arrived>>

(* Wrong: a full buffer refuses the newest record instead.                  *)
AppendIfRoom(s, x) == IF Len(s) < MAX_STORED_READINGS THEN Append(s, x) ELSE s

(* Wrong: one record more than the buffer has places.                       *)
AppendOneOver(s, x) ==
  Append(IF Len(s) <= MAX_STORED_READINGS THEN s ELSE Tail(s), x)

(* deque.append with maxlen: a full buffer lets go of its oldest record.    *)
AppendBounded(s, x) ==
  Append(IF Len(s) < MAX_STORED_READINGS THEN s ELSE Tail(s), x)

Store(w) ==
  /\ work[w] # None
  /\ readings' = AppendBounded(readings, work[w])
  /\ arrived' = Append(arrived, work[w])
  /\ work' = [work EXCEPT ![w] = None]
  /\ UNCHANGED <<legacy_enabled, clock, refused>>

-----------------------------------------------------------------------------
(* Queries.                                                                 *)

Least(a, b) == IF a < b THEN a ELSE b
Greatest(a, b) == IF a > b THEN a ELSE b

(* The filter, after n items.                                               *)
Kept(items, device) ==
  LET kept[n \in 0..Len(items)] ==
        IF n = 0 THEN <<>>
        ELSE IF items[n].device_id = device THEN Append(kept[n - 1], items[n])
        ELSE kept[n - 1]
  IN kept

Matching(items, device) ==
  IF device = None THEN items ELSE Kept(items, device)[Len(items)]

LastOf(s, n) == SubSeq(s, Greatest(1, Len(s) - n + 1), Len(s))

(* Wrong: the page is cut before it is filtered.                            *)
CutThenFilter(limit, device) ==
  Reverse(Matching(LastOf(readings, Greatest(1, Least(limit, MAX_STORED_READINGS))), device))

(* The readings of GET /api/v1/telemetry: clamp, copy, filter, cut, reverse. *)
list_readings(limit, device) ==
  Reverse(LastOf(Matching(readings, device),
                 Greatest(1, Least(limit, MAX_STORED_READINGS))))

(* One step of the loop in list_devices: count the reading, and let it       *)
(* overwrite what earlier ones left.                                        *)
Noted(devices, r) ==
  [d \in DOMAIN devices \cup {r.device_id} |->
     IF d = r.device_id
     THEN [readings |-> IF d \in DOMAIN devices THEN devices[d].readings + 1 ELSE 1,
           last_seq |-> r.seq, last_seen |-> r.received_at]
     ELSE devices[d]]

NoDevices == [d \in {} |-> None]

(* Wrong: newest first, so the oldest reading wins.                         *)
DevicesBackwards == FoldRight(LAMBDA r, devices : Noted(devices, r), readings, NoDevices)

(* The loop of list_devices, after n readings.                               *)
NotedUpTo ==
  LET devices[n \in 0..Len(readings)] ==
        IF n = 0 THEN NoDevices ELSE Noted(devices[n - 1], readings[n])
  IN devices

(* The devices of GET /api/v1/devices.                                      *)
list_devices == NotedUpTo[Len(readings)]

(* readings_by_channel of GET /health.                                      *)
readings_by_channel ==
  [ch \in Channels |-> Cardinality({i \in 1..Len(readings) : readings[i].channel = ch})]

-----------------------------------------------------------------------------
Next ==
  \/ Tick
  \/ \E w \in Workers :
       \/ \E d \in Devices :
            IngestSealed(w, d) \/ \E token \in BOOLEAN : Ingest(w, d, token)
       \/ Store(w)

Spec == Init /\ [][Next]_vars
-----------------------------------------------------------------------------
(* Properties.                                                              *)

(* The values each variable takes; the buffer is never over its size.        *)
TypeOK ==
  /\ legacy_enabled \in BOOLEAN
  /\ clock \in 0..MaxClock
  /\ work \in [Workers -> Record \cup {None}]
  /\ readings \in Seq(Record) /\ Len(readings) <= MAX_STORED_READINGS
  /\ arrived \in Seq(Record)
  /\ refused \subseteq {401, 410}

(* "Old readings are silently discarded once it is full": the buffer is the   *)
(* newest MAX_STORED_READINGS of all the records that arrived, in the order   *)
(* in which they arrived, whichever threads and paths brought them.         *)
KeepsNewest == readings = LastOf(arrived, MAX_STORED_READINGS)

(* list_readings returns, newest arrival first, the last readings of the     *)
(* device asked for, as many as asked for within the clamp, and none else:   *)
(* the k-th of the page is the k-th matching one counted from the end.      *)
PageIsNewestFirst ==
  \A device \in Devices \cup {None}, limit \in -1 .. MAX_STORED_READINGS + 1 :
    LET page == list_readings(limit, device)
        M == {i \in 1..Len(readings) : device \in {None, readings[i].device_id}}
    IN /\ Len(page) = Least(Cardinality(M), Greatest(1, limit))
       /\ \A k \in 1..Len(page) : \E i \in M :
            page[k] = readings[i] /\ Cardinality({j \in M : j >= i}) = k

(* list_devices agrees with list_readings: the devices with a reading in the  *)
(* buffer are listed, with as many readings as their pages hold and the       *)
(* values of the newest of them.  A device whose readings have all been       *)
(* pushed out of the buffer is not listed (EveryDeviceListed).               *)
DevicesAgreeWithPages ==
  /\ DOMAIN list_devices = {readings[i].device_id : i \in 1..Len(readings)}
  /\ \A d \in DOMAIN list_devices :
       LET page == list_readings(MAX_STORED_READINGS, d)
       IN list_devices[d] = [readings |-> Len(page), last_seq |-> page[1].seq,
                             last_seen |-> page[1].received_at]

(* list_devices: "Summarise every device seen since start-up."               *)
EveryDeviceListed ==
  DOMAIN list_devices = {arrived[i].device_id : i \in 1..Len(arrived)}

(* received_at is read before the lock is taken, so arrivals are not in the   *)
(* order of their times; but no more readings can arrive behind one that is   *)
(* newer than they are than there are other request threads.                 *)
Overtaken(i) == {j \in i + 1 .. Len(arrived) : arrived[j].received_at < arrived[i].received_at}

AlmostInTimeOrder ==
  \A i \in 1..Len(arrived) : Cardinality(Overtaken(i)) < Cardinality(Workers)

(* "When legacy ingest is off, every reading arrives over ML-KEM": the legacy *)
(* counter of /health stays at zero.                                        *)
LegacyRetired == ~legacy_enabled => readings_by_channel["legacy"] = 0
=============================================================================
