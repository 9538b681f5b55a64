# A formal model of the telemetry pipeline

TLA+ specifications of the legacy-device / edge-gateway / cloud pipeline in this
repository, the TLC configurations that check them and the TLAPS proofs about
them. Paths below are relative to the repository root.

## 1. The system

```
LegacyDevice --TCP frames--> DeviceHandler thread --PqcUplink--> FastAPI worker --> _readings
 (device.py)                  SequenceTracker        (gateway.py)  _sessions         list_readings
                              GatewayStats (gateway.py)            (app.py)          list_devices
```

| Component | State it keeps | Operations | Shared with / interacts by |
|---|---|---|---|
| Legacy device (`legacy_device/device.py`) | `seq`, socket | `run` (connect for ever), `_send_forever` (read, count, `sendall`) | TCP to the gateway; a reboot sets `seq` to 0 |
| Frame protocol (`legacy_device/protocol.py`) | none | `encrypt_frame`, `decrypt_frame`, `build_reading`, `parse_reading` | called by device and gateway |
| Gateway device side (`edge_gateway/gateway.py`) | `SequenceTracker._seen`, `GatewayStats` | `DeviceHandler.handle/_process/_forward`, `accept`, `bump`, `snapshot` | one thread per connection, all sharing tracker, counters and uplink |
| Sealed uplink (`PqcUplink`) | `_session` with `next_counter`, `expires_at`; `pinned` | `send`, `_next_message`, `_invalidate`, `_handshake` | one instance for all threads; HTTP to the cloud |
| Legacy uplink (`LegacyUplink`) | none | `send` (one POST) | HTTP v1 |
| Channel (`pqc_channel/channel.py`) | none | KEM, key schedule, confirmation, `seal`, `open_sealed` | called by both ends |
| Session table (`cloud_service/app.py`) | `_sessions`, each with `seen_counters` | `pqc_session`, `_prune_sessions`, `ingest_sealed` | worker threads of the cloud, `_sessions_lock` |
| Store and queries (`cloud_service/app.py`) | `_readings` (bounded deque) | `_store`, `ingest`, `list_readings`, `list_devices`, `health` | worker threads, `_lock` |
| Cloud key file (`cloud_service/app.py`) | key pair on disk | `_load_or_create_keypair` | read at process start |
| Dashboard (`cloud_service/static/dashboard.html`) | timer | `refresh` | HTTP polling |
| Baseline tool (`tools/baseline.py`) | counts of its polls | `measure_ingest_throughput`, other measurements | sends frames to the gateway, polls `/health` |

What is hard here, and what makes each part correct:

* **Uplink.** Many threads share one session and one counter; the lock is
  released between taking a counter and the answer of the cloud. Counters must
  never repeat under a key, a late 401 must not throw away a good session, a
  timeout must not turn into a second delivery, and the lock, which is held
  during the handshake, must always be released.
* **Session table.** It is pruned with a clock that was read before the lock was
  taken. A session found under one lock is used after it was
  released, while it may be evicted or expire. A counter must be used up only by
  its own authentic message, and the cap on counters must never refuse a fresh
  one, although each end keeps its own count.
* **Device side.** A device that reconnects has two handler threads for a while.
  The accepted numbers must still increase, a frame may be called stale only for
  a cause, and the counters must account for every line.
* **Store.** A bounded buffer fed by concurrent requests must keep the newest
  readings, and the queries, computed from a copy, must agree with each other.
* **Handshake.** Several requests, any of which may be damaged, late or refused,
  while either side restarts. Key agreement never fails by itself (implicit
  rejection): only the proof and the confirmation show that the two sides
  disagree. The pin is set before the confirmation, and the key file is written
  in place.
* **Clocks.** A session has a deadline on each side, counted from different
  moments. The margin between the two must cover everything a reading may wait
  for.
* **Device format.** The buffer of 256 bytes against records that grow with the
  device's numbers; padding and limits on both ends.
* **Views.** The dashboard and the measurement infer what the store does from
  answers that come late, fail, or are capped by the buffer.
* **Restarts.** Both processes keep all state in memory. A restart of either may
  fall between any two steps.

`PROJECT.json` lists the hazards with their source lines.

## 2. The modules

| Module | What it is |
|---|---|
| `ReadingDelivery` | abstract specification of the gateway-to-cloud hop: submit, store once, report |
| `SealedUplink` | `PqcUplink`, all handler threads, the cloud's session table and `ingest_sealed` |
| `Handshake` | `_do_handshake` against `pqc_session`, the channel's primitives, the key file |
| `SessionClock` | the two deadlines of a session on one clock |
| `DeviceLink` | devices, connections, handler threads, `SequenceTracker`, `GatewayStats` |
| `Pipeline` | `DeviceLink` joined to `ReadingDelivery` and to the order of the cloud's buffer |
| `LegacyFrame` | one reading after the other through the frame format |
| `TelemetryStore` | both ingest paths into the bounded buffer, and the queries |
| `CloudViews` | the dashboard's refresh loop and the throughput measurement |
| `SealedUplinkProofs` | theorems about `SealedUplink`; it implements `ReadingDelivery` |
| `HandshakeProofs`, `SessionClockProofs` | theorems about `Handshake` and `SessionClock` |
| `DeviceLinkProofs` | theorems about `DeviceLink` |
| `PipelineProofs` | theorems about `Pipeline`; it implements `ReadingDelivery` and `DeviceLink` |
| `TelemetryStoreProofs` | theorems about `TelemetryStore` |
| `LegacyFrameProofs`, `CloudViewsProofs` | theorems about `LegacyFrame` and `CloudViews` |
| `MC...` | symmetry sets, a stopping condition and the set of ids for TLC |

`ReadingDelivery` stands between the two halves. `SealedUplink` implements it
(`Delivers`), and `Pipeline` uses it for everything beyond the gateway's
`_forward`: that the device side, with its reconnections and reboots, obeys the
same abstract specification is `HopUsedOnce`, a refinement with
`INSTANCE ReadingDelivery WITH Readings <- Samples`. Both refinements are proved.

Operators commented "Wrong: ..." stand beside the definition they vary. They are
plausible slips in that code (a dropped guard, an off-by-one, a swapped order),
used by no behaviour; replacing the correct definition by one of them must make
TLC report the named property as violated, which shows that the property watches
that piece of code.

### SealedUplink

One action per lock-protected region; the network lies between actions.

| Code | Model |
|---|---|
| `_session`, `next_counter`, `expires_at` | `current`, `next_counter[s]`, `s \in due` |
| position of a thread inside `send`, `attempt` | `pc`, `attempt`, `job`, `msg`, `reply` |
| `with self._lock` around `_handshake` | `LockFree`: no thread is in "handshake" |
| `_next_message` | `NextMessage`, or `BeginHandshake` ... `FinishHandshake` / `FailHandshake` |
| 401 on the first attempt, `_invalidate` | `Rejected401`, `Invalidate` |
| other statuses of 400 and more; success | `RaiseRejected`; `Delivered` |
| `requests` exceptions, timeouts | `RaiseUnreachable` |
| `now = time.monotonic()` in `pqc_session`, before the lock | `ReadClock`: the sessions past their deadline are `noted` for this caller |
| `_prune_sessions(now)` and the insertion, under the lock | `InsertSession`, in `OpenSession` / `OpenForeignSession` |
| `ingest_sealed`, first lock | `Lookup`, `RefuseUnknown` |
| `open_sealed`, outside the lock | `RefuseTampered` (altered bytes never authenticate) |
| `ingest_sealed`, second lock | `RecordCounter`, `RefuseCounter` |
| validation, `_store` | `StoreReading`, `RefuseInvalid` |
| process restarts | `CloudRestart`, `GatewayRestart` |

Abstractions: session ids are numbered in the order of insertion and the number
stands for the key both ends derived; a sealed message is the record of session,
counter, reading and attempt; a reading is valid or not. The two deadlines of a
session, on the gateway's clock and on the cloud's, are unrelated, so that every
order of the two is explored. `Others` are the callers of `pqc_session` that this
gateway does not wait for: another gateway, and a handshake whose caller had given
up. `noted` makes the two steps of `pqc_session` visible: what expires between the
reading of the clock and the lock is still alive to `_prune_sessions`. History variables: `outcome` (what `_forward`
counts), `stored` (how many times a reading was appended) and `wire` (every
message posted).

### DeviceLink

`Connect`, `Send`, `SendFails`, `Reboot` are `run` and `_send_forever`;
`ReadLine`, `Reject`, `DropStale`, `Accept`, `Forward`, `Disconnect` are
`handle`, `_process` and `_forward` of one connection's thread; `LinkReset` and
`Restart` are the faults. A frame carries the boot of its device (history), its
number, and whether its bytes are whole, cut, or over `MAX_FRAME_BYTES`. `Reboot`
does not end the old connection: nobody tells the gateway. The uplink is reduced
to a send that succeeds or fails, which `SealedUplink` justifies
(`EverySendEnds`). `Restart` clears the histories, which speak of one life of
the gateway.

### Pipeline

`AcceptAndSubmit`, `ForwardAndReport` and `RestartAndFail` are `DeviceLink`'s
`Accept`, `Forward` and `Restart` with what they mean for the uplink.
`CloudStores` is `_store` of a reading that was handed over; it may happen after
the gateway has reported the reading as failed. A reading is known by its device,
boot and number. `arrived` is the order in which the cloud appended.

### Handshake

| Code | Model |
|---|---|
| `_load_or_create_keypair` at import | `StartCloud`, `FinishFile`; between them the file is `Torn` |
| process of the cloud dies | `CrashCloud` |
| `GET public-key` and the checks of its answer | `Received`, `AcceptKey`, `RejectKey` |
| `pqc_session` | `OpenSession`, `Opened` |
| answer, derivation, `verify_confirmation` | `GatewayKeys`, `FinishHandshake` |
| any exception inside `_do_handshake` | `FailHandshake` |
| 401 to a sealed reading | `Invalidate` |
| process of the gateway starts again | `GatewayRestart` |
| bytes that change on the way | `DamageRequest`, `DamageAnswer`, `AlteredKey` |

Cryptography is symbolic: a secret is the pair of key and ciphertext, a MAC or a
derived key the tuple of its inputs. `Decapsulate` of a ciphertext for another key
yields another secret and no error, as ML-KEM does. A damaged public key either
fails the checks of `encapsulate`, after the pin was set, or passes them. A
request that the gateway has given up on stays on `wire` and may still open a
session, whose answer nobody reads. One handshake runs at a time because
`_handshake` runs under `_lock`, which `SealedUplink` models.

### SessionClock

Every place inside `send` has a limit to the time a thread stays there: two
timeouts for a request (connecting, then reading), and a pause of the thread
itself. `Tick` waits for a thread that has reached its limit. The assumption
`2 * RequestTime + 2 * Pause <= RENEW_MARGIN_S` says what the margin must cover:
the answer of the handshake, the posting of the reading and the two pauses
between. With 60 s and 5 s it leaves threads pauses of 20 s. Without an assumption
on pauses the property is false for any margin.

### LegacyFrame

`Send` is one turn of `_send_forever` with `build_reading` and `encrypt_frame`,
`Receive` is `handle`, `_process` and the cloud's validation. Texts are lengths;
an id also has its number of separators and whether it is ASCII. `device` ends
when an exception passes `run`. Device and gateway have a limit each
(`MAX_FRAME_BYTES`, 256, and `GATEWAY_MAX_FRAME_BYTES`, 4096); that the second is
not below the first is an assumption.

### CloudViews

`Refresh`, `Answer`, `Render`, `ShowOffline` are `refresh()` and its requests: the
answers of one call come in any order and from different states of the store, and
one failure rejects all three. `Calls` gives room for two calls at a time, which
only the mutant needs. `Measure`, `Poll`, `StopMeasuring` are
`measure_ingest_throughput`; other devices may store readings meanwhile.

### TelemetryStore

Stamping a record and appending it are two steps because `_store` reads the clock
before it takes the lock. `list_readings`, `list_devices` and the channel counts
of `/health` are operators on one state, as in the code, which computes them on a
copy made under the lock. `seq` numbers the requests so that records differ. The
loops of the two queries are recursive functions of the number of readings done
(`Kept`, `NotedUpTo`), the form the proofs reason about. `AlmostInTimeOrder` takes
the cloud's clock never to be set back (`Tick`), which its wall clock does not
promise: with a clock that is, nothing relates the order of arrival to the times.

## 3. What TLC checks

| Run | Question | Properties |
|---|---|---|
| `uplink_outcomes` | outcomes under timeouts, altered messages, expiry, invalid readings, one restart of either process | `TypeOK`, `Delivers`, `EverySendEnds` |
| `uplink_sessions` | sharing, renewing and losing sessions | `NonceUnique`, `CapNeverRefuses`, `SessionReplacedOnlyWhenUseless` |
| `uplink_duplicates` | duplicated and altered messages while sessions expire and are evicted | `BurnedOnlyByItsMessage`, `StoredOncePerMessage`, `SessionsBounded`, `EvictsOnlyWhenFull` |
| `session_clock` | can a session expire under a reading, or be renewed too early | `NeverDiesInTransit`, `NotRenewedEarly` |
| `handshake` | authenticity and recovery under crashes, restarts and damage | `Authentic`, `ProofBindsRequest`, `ServedKeyPersists`, `RecoversWithKeyFile` |
| `pipeline` | a device that reconnects, reboots and breaks frames, from its frames to the buffer, with failing sends and a restart of the gateway | `AcceptedIncreasing`, `StaleOnlyWhenOvertaken`, `FramesAccounted`, `HopUsedOnce`, `CountsBracketStore`, `GoesBackOnlyAfterFailure`, `RebootedDeviceIsHeard` |
| `legacy_frame` | which frames fit, and what becomes of them | `FitsUpToCapacity`, `OneFate` |
| `telemetry_store` | buffer and queries under concurrent ingest over both paths | `TypeOK`, `KeepsNewest`, `PageIsNewestFirst`, `DevicesAgreeWithPages`, `LegacyRetired`, `AlmostInTimeOrder` |
| `cloud_views` | what dashboard and measurement make of the store | `DisplayNeverGoesBack`, `DisplayCatchesUp`, `StableMeansQuiet`, `MeasuredIsStored` |

Three more runs show disagreements between the code and its comments, section 5.

**What the runs show.** `uplink_duplicates`: a live session loses its place only
to a request that found the table full of live ones when it read the clock. By the
time it has the lock some may have expired, and those keep their place: section 5.
`handshake`: no crash, restart or damage gives the
gateway a session the cloud did not open with the pinned key, and with a key file
the gateway always comes to have a session again, except in two cases that only an
operator ends. A crash within `write_text` leaves a torn file, and the process
ends at every later start. A damaged key at first use stays pinned
(`gateway.py:365`) although its handshake fails, and shuts the genuine key out
until the gateway is restarted. `RecoversWithKeyFile` names both. `pipeline`:
`forwarded_ok` and the failed sends bracket what the cloud has; the cloud stores a
connection's readings in order, except a reading reported as failed whose request
arrives late. `list_devices`, which shows the last one stored, then shows an older
reading as the latest. `legacy_frame`: with the real sizes a record of up to 95
characters fits. `telemetry_store`: the page of the newest readings is in the order
of arrival, not of `received_at`; a reading may stand behind a newer one, but no
reading has as many older ones behind it as there are request threads.

**Bounds.** `uplink_outcomes`: two threads, two readings, one message per
session, three sessions, one crash. One message per session makes every attempt
end or start a session, and a retry needs two sessions for one reading; the third
is for the other thread. `uplink_sessions`: two messages per session and three
readings, so that a session is shared by two threads, is exhausted in mid-use,
and a thread holds a message of a session that another one has replaced.
`uplink_duplicates`: one gateway thread, one other caller and two workers, so that
a genuine message races a copy of itself, with a table of two sessions out of
three, the least in which an eviction can hit a live session or spare an expired
one. The runs in which the table matters less have no other caller.
`session_clock`: timeouts and pauses of one, a margin of exactly what the
assumption asks for, a lifetime just above it, and a clock long enough for a
session to be opened, used, renewed and expired. `handshake`: five faults
together, enough for a crash while the file is written, a restart of each side and
a damaged message in one run; what is not a fault (starting again, ordinary
requests) is not bounded.
`pipeline`: `DeviceLink` is checked where it works, joined to the uplink and the
buffer. One device, since readings of different devices share nothing but the
counters (the tracker keeps a mark per device; the theorems of `DeviceLinkProofs`
hold for every set of devices), with two connections, so that it can have two
threads at work. Three numbers per boot: a device changes its connection within a
boot only by breaking a frame, which uses up a number, so whole frames of one boot
wait on two connections with three numbers and not with two. One reboot, after
which it can come back below its mark and pass it; one restart. `legacy_frame`: base 2 and
blocks of 4 bytes let seq and uptime grow by several digits in a short run, and the
buffer is scaled so that the longest accepted id meets its limit; the id lengths
are 0, 1 and those around the cloud's limit. `telemetry_store`: five records
through a buffer of three, so that it wraps twice; limits from -1 to one above the
buffer. `cloud_views`: five readings through a buffer of three, so that the
measured length stops while readings still come.
`MaxOpened`, `MaxCrashes`, `MaxFaults`, `MaxConns`, `MaxSeq`, `MaxUptime`,
`MaxReboots`, `MaxRestarts`, `MaxReadings` and `MaxClock` are the bounds; they
appear only as guards.

**Deadlock.** The uplink runs check it: `MCSealedUplink` lets the system stop
only when every reading has its outcome and no request is in progress.
`telemetry_store` and `session_clock` check it too. The other runs do not: with
`MaxSeq` readings taken, `MaxConns` connections used or every fault spent, the
bounded model stops where the program would go on or wait; a measurement ends, and
so does a device of `LegacyFrame`. The runs of section 5 stop at the first violation or at
their small bounds.

**Fairness.** `SealedUplink!FairSpec`: a step of a handler thread, or of a
request thread of the cloud, that stays possible is taken. Nothing more is
assumed: not that the cloud answers nor that the network delivers. It is enough
because every HTTP request of the gateway has `timeout=CLOUD_TIMEOUT_S`, so that
giving up is always among the steps of a waiting thread (the runs with liveness
include the "timeout" fault), and a lock that is released is taken by a waiting
thread. The mutant of `EverySendEnds` is a handshake without timeout.
`Pipeline!PipelineFairSpec`: a device keeps connecting and sending (both loops of
`run` are infinite), handler threads keep running, because a send always ends
(`EverySendEnds`); nothing is assumed of the network or the cloud. `Handshake!FairSpec`: a cloud that died is started again and
its worker threads run; readings keep coming at the gateway, so that it tries
again after every failure. A request can fail without a fault only when the cloud
owes no answer, so a run has finitely many unforced failures.
`CloudViews!FairSpec`: the browser ends every request some day, and its timers
fire; nothing is assumed of the store or the measurement.

**A limit the model shows.** `Delivers` is checked and proved without duplicated
requests. The replay set lives in the session: a request that reaches the cloud
twice, with the session lost in between, lets the copy be stored, the original be
answered with 401, and the gateway send the reading again under a new session. No
document promises more, so this is no finding. What holds with duplicates is that
no copy is stored beside its original (`StoredOncePerMessage`: a reading is stored
at most as often as it was sealed) and that a counter is used up by its own message
only (`BurnedOnlyByItsMessage`). Likewise a restart of the gateway forgets the
marks of all devices, which the docstring of `SequenceTracker` says itself:
`AcceptedIncreasing` speaks of one life of the gateway.

## 4. What is proved

Every invariant and action property the passing runs check is proved, and both
refinements. The theorems hold for every number of threads, workers, devices,
connections, readings, sessions, messages, crashes and restarts, every size of
table, buffer and block and, but for `UplinkImplementsDelivery`, every set of
faults. They assume what the modules' `ASSUME`s say of their constants, no more:
that request threads are finitely many, that the gateway's threads are none of the
`Others`, that bounds and limits are numbers and sizes positive, that `None` is none
of the values it stands in for, and three conditions on sizes: the margin of
`SessionClock`, and for `LegacyFrame` that the shortest frame fits and that the
gateway's limit is not below the device's.

**SealedUplinkProofs.** `TypeOK` is not inductive: that a thread about to seal
has a reading, and that a request carries a posted message, must be known as
well. `TypeInv` adds both (`TypeCorrect`). `NonceUnique` needs that counters in
use lie below `next_counter` (`WireInv`) and that the session a handshake will
install has not been used (`HandshakeInv`, with mutual exclusion of handshakes,
which is the lock). `BudgetInv` bounds counters by `SESSION_MAX_MESSAGES`; with
the fact that a set of numbers below n that lacks one has fewer than n elements
it gives `CapNeverCostsAReading`. `TableBounded` and `OldestEvicted` rest on
lemmas about the newest k of a set (`NewestAreFew`, `OlderGoToo`); the second also
needs that what a caller has noted as expired has expired (`NotedInv`), so that a
live session that goes was among those the caller counted. `GoodSessionKept` is an
action property. It needs that the answer a thread holds belongs to the message
it holds (`AnswerInv`), that a session refused with 401 has left the table for
good (`GoneInv`, which uses that a full session never refuses a fresh counter),
and that a handshake runs only while no usable session exists.
`CountersBurnedFairly` needs that a recorded counter has been given out
(`RecordedInv`), so that no message sealed later finds its counter taken.
`CopiesStoredOnce` counts (`CopiesInv`): a reading has been stored, or is about to
be, at most as often as messages of it have had their counter recorded, because a
recorded counter is never recorded again.

`UplinkImplementsDelivery`: the variables `outcome` and
`stored` map to those of `ReadingDelivery`. The invariant `OnceInv` says that at
most one request thread carries a reading, only while it is not stored; that a
thread about to post has no request under way; and that 202 was answered exactly
for stored readings. A retry is safe because a 401 is answered before anything is
stored. This is where the absence of duplicates is used.

**SessionClockProofs.** `Timely` says of each place of a thread how much of the
session's life must be left, `Deadline` that the gateway's deadline is that of
the cloud less the margin, at most one request and one pause late, and
`Exclusive` that a handshake runs only without a usable session. `ClockAssumption`,
the margin of section 2, closes the sum (`KeysOutliveTransit`). `RenewalNotEarly` follows from `Deadline`
and `Exclusive`.

**HandshakeProofs.** A request under way is as the gateway made it or its proof
does not fit (`DamageShows`); a tag under way is that of an opened session or
fits nothing (`TagsAreMade`); the keys of a session name the key pair it was
opened with (`KeysNameTheirKey`), and the gateway's local is the pin (`PinHolds`).
A tag that fits therefore means equal keys, hence the pinned key
(`SessionsAreAuthentic`). `OneKeyServed` needs that what was served is what the
file holds, and that nothing was served while the file is being created. The
symbolic primitives are part of what is assumed.

**DeviceLinkProofs.** `NumbersIncrease` uses that the mark is at
least every number accepted (`MarkInv`). `EveryFrameAccounted` counts the threads
at work. `DroppedOnlyWhenOvertaken` needs the order of everything under way: a
device sends on its newest connection (`LinkInv`) numbers it has not used
(`SentInv`), frames of one boot wait in the order of their numbers within a
connection (`QueueInv`) and from older to newer ones (`ConnInv`), and behind the
accepted frames of their own and older connections (`PassedInv`). The mark is the
number of an accepted frame (`ReachedInv`); a frame that does not pass it was
overtaken by that one.

**PipelineProofs.** `PipelineImplementsDeviceLink`: the joined system takes only
steps of `DeviceLink`, whose theorems therefore hold of it.
`DeviceSideImplementsDelivery` (`HopUsedOnce`): a frame that
waits, or that a device has yet to send, was not submitted (`FreshInv`), since
frames of one boot are ordered on every connection and across them (`QueueInv`,
`ConnInv`); a reading being forwarded is being sent by one thread only
(`ForwardInv`). `StoredInOrder` (`GoesBackOnlyAfterFailure`) needs that an accepted
reading is being sent only while it is the last one of its connection
(`JudgedInv`): when a later one of the connection has been stored, an earlier one
not yet stored was reported, and not as delivered. `CountersBracketTheStore`
counts: each counter is the size of the set of readings with that outcome, and
as many readings are being sent as threads forward (`CountInv`).

**TelemetryStoreProofs.** `BufferKeepsNewest`: appending to a full buffer keeps
the last elements of the longer sequence (`AppendKeepsLast`). `RetiredPathBringsNothing`
needs the records in work beside the stored ones. The queries are loops, and their
theorems inductions over the readings done, which the library's induction rule
cannot give here (it takes an operator). `InductionUpTo` replaces it: a
non-empty set of numbers has a least one (`LeastNumber`, from the library's
theorem on the well-foundedness of strict subsets), so a set that contains 0 and
the successor of each of its numbers below n contains n. The loop invariants:
after n readings the filter holds the matching ones, the k-th from the end being
the one with k - 1 matching ones behind it (`Filtered`); after n readings the
table of devices has for each one the count and the last of its matching readings
(`Tallied`). `PagesAreNewestFirst` cuts and reverses the first;
`DevicesMatchTheirPages` compares the two. `ArrivalsAlmostInOrder` needs more than
it says: the readings that have arrived behind a newer one, and the threads that
still hold a stamp older than it, are together fewer than the threads
(`OrderInv`). When a reading is appended its own thread holds no stamp any more,
every later stamp is newer (`NotAhead`), and each older reading that arrives behind
it empties the hands of one of those threads.

**LegacyFrameProofs.** `FitsUpToCapacity` is its own induction but for arithmetic:
padding rounds up to a block, `Capacity` rounds down, and `TooLongBeyondCapacity`
shows the two meet at one length for every block and buffer (`RealCapacity`: 95
for 16 and 256 bytes). It assumes that the shortest frame fits the buffer, one
block beside the IV, 66 bytes of the 256. `OneFateForAll` uses that the frame under
way was made of a record that fits (`LineInv`), so that it is within the gateway's
limit too, and that every fate so far is the one the id decides.

**CloudViewsProofs.** `DisplayOnlyAdvances` rests on there being one chain of
calls: while a call runs no timer is set, and while one is set no call runs
(`OneCallInv`); an answer is then never older than what is shown (`FreshInv`).
`StableCountMeansQuiet` and `MeasurementIsExact` remember what had arrived at each
poll (`HistoryInv`) and how many of the last polls saw the same count
(`StableInv`); a length below the size of the buffer is the number that arrived.

Only model-checked: the four liveness properties, `EverySendEnds`,
`RecoversWithKeyFile`, `RebootedDeviceIsHeard` and `DisplayCatchesUp`, since
weak fairness speaks of `ENABLED`, which TLAPS does not treat; the absence of
deadlock, for the same reason; and the three violations of section 5, which are
counterexamples.

## 5. Disagreements with comments

| Run | The comment | The code |
|---|---|---|
| `failed_means_lost` | `gateway.py:497-499`: a failed reading is permanently lost | a request that timed out may still be stored |
| `streams_forever` | `device.py:134`: a device streams readings, retrying forever | `encrypt_frame` raises `ValueError` for a record over 95 characters and `run` catches `OSError` only: with an id of 64 characters, which the cloud accepts, a device ends once `seq` and `uptime_s` come to 14 digits, at one reading every two seconds after about 23 days |
| `devices_since_startup` | `app.py:543`: every device seen since start-up | a device whose readings have all been pushed out of the buffer is not listed |

One more is shown by no run, but by how `EvictsOnlyWhenFull` has to be stated.
`app.py:188` says of `_prune_sessions` "Drop expired sessions, then the oldest ones
if still over the cap". `pqc_session` reads the clock (`app.py:436`) before it
takes the lock: a session that expires in between keeps its place, and a live one
goes although fewer than `MAX_SESSIONS` are alive.

## 6. Not modelled

* The sensor's random walk, wording and layout, logging, the micro-benchmarks and
  the end-to-end measurement of the baseline tool, rendering in the dashboard.
* The two handshake counters of `GatewayStats`: no code reads them but the report.
  The mode of the key file (`app.py:158`).
* The token checks of v1. `LegacyUplink.send` is a single POST, of which
  `Pipeline` uses only what `ReadingDelivery` promises.
* A damaged frame that still parses (`protocol.py:135-139`): in `DeviceLink` a
  frame is whole, cut or too long.
* In `Handshake` the lifetime and the message limit of an answer, which the
  confirmation does not cover, arrive as sent; in `SessionClock` processes do not
  restart, and in `CloudViews` and `TelemetryStore` the cloud does not either,
  since a restart empties the store and starts these modules over.
* Numbers of `LegacyFrame` are scaled down; the real capacity follows from the
  formula (`Capacity`), which the run checks against the code's padding and limit
  and `LegacyFrameProofs` proves for every size.
