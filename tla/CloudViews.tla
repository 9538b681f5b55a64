------------------------------ MODULE CloudViews ------------------------------
(***************************************************************************)
(* What people learn about the cloud's store from outside: the dashboard     *)
(* page, which asks three endpoints again and again (cloud_service/static/   *)
(* dashboard.html), and the throughput measurement, which watches the        *)
(* stored count of /health (tools/baseline.py).                             *)
(*                                                                         *)
(* Of TelemetryStore only the number of readings that have arrived is kept,  *)
(* and an answer of the cloud is that number when it was computed.  The two  *)
(* observers do not act on each other: a run has one of them.               *)
(***************************************************************************)
EXTENDS Integers, Sequences

CONSTANTS
  Calls,               \* calls of refresh() that can run at a time
  MAX_STORED_READINGS, \* size of the buffer
  MaxReadings,         \* bound: readings ever stored
  None

ASSUME ViewsAssumption == MAX_STORED_READINGS \in Nat /\ MaxReadings \in Nat

VARIABLES
  arrived, \* readings stored since the cloud started
  (* The dashboard.                                                        *)
  page,    \* a browser has it open: otherwise the measurement runs
  timer,   \* the next refresh is scheduled
  answers, \* the answers each call has so far, None when it does not run
  shown,   \* what each part of the page shows
  live,    \* the page says "live", not "offline"
  (* measure_ingest_throughput.                                            *)
  phase,   \* "ready", "waiting" or "done"
  before, last, stable,
  arrivals \* history: arrived when it read before, and at the last polls

dashboardVars == <<page, timer, answers, shown, live>>
baselineVars == <<phase, before, last, stable, arrivals>>
vars == <<arrived, dashboardVars, baselineVars>>

Endpoints == {"health", "devices", "telemetry"}
Pending == -1
Failed == -2

Init ==
  /\ arrived = 0
  /\ page \in BOOLEAN
  /\ timer = page
  /\ answers = [k \in Calls |-> None]
  /\ shown = [e \in Endpoints |-> Pending]
  /\ live = FALSE
  /\ phase = IF page THEN "done" ELSE "ready"
  /\ before = 0 /\ last = -1 /\ stable = 0 /\ arrivals = <<>>

Least(a, b) == IF a < b THEN a ELSE b
Greatest(a, b) == IF a > b THEN a ELSE b

(* _store: the buffer lets go of the oldest reading when it is full.        *)
Store ==
  /\ arrived < MaxReadings
  /\ arrived' = arrived + 1
  /\ UNCHANGED <<dashboardVars, baselineVars>>

stored_readings == Least(arrived, MAX_STORED_READINGS)

-----------------------------------------------------------------------------
(* The dashboard.                                                           *)

(* Wrong: an interval that does not wait for the answers.                   *)
RefreshAtInterval(k) ==
  /\ page
  /\ answers[k] = None
  /\ answers' = [answers EXCEPT ![k] = [e \in Endpoints |-> Pending]]
  /\ UNCHANGED <<arrived, page, timer, shown, live, baselineVars>>

(* refresh() starts its three requests.                                     *)
Refresh(k) ==
  /\ timer
  /\ answers[k] = None
  /\ timer' = FALSE
  /\ answers' = [answers EXCEPT ![k] = [e \in Endpoints |-> Pending]]
  /\ UNCHANGED <<arrived, page, shown, live, baselineVars>>

(* getJson resolves, or throws for an error or a status that is not ok.     *)
Answer(k, e) ==
  /\ answers[k] # None
  /\ answers[k][e] = Pending
  /\ \E a \in {arrived, Failed} : answers' = [answers EXCEPT ![k][e] = a]
  /\ UNCHANGED <<arrived, page, timer, shown, live, baselineVars>>

Answered(k) == answers[k] # None /\ \A e \in Endpoints : answers[k][e] >= 0
Broken(k) == answers[k] # None /\ \E e \in Endpoints : answers[k][e] = Failed

(* Promise.all fulfils with the last answer: render all three.              *)
Render(k) ==
  /\ Answered(k)
  /\ shown' = answers[k]
  /\ live' = TRUE
  /\ timer' = TRUE
  /\ answers' = [answers EXCEPT ![k] = None]
  /\ UNCHANGED <<arrived, page, baselineVars>>

(* Wrong: only a success schedules the next refresh.                        *)
ShowOfflineAndStop(k) ==
  /\ Broken(k)
  /\ live' = FALSE
  /\ answers' = [answers EXCEPT ![k] = None]
  /\ UNCHANGED <<arrived, page, timer, shown, baselineVars>>

(* Promise.all rejects with the first failure; answers that come later       *)
(* belong to no one.                                                        *)
ShowOffline(k) ==
  /\ Broken(k)
  /\ live' = FALSE
  /\ timer' = TRUE
  /\ answers' = [answers EXCEPT ![k] = None]
  /\ UNCHANGED <<arrived, page, shown, baselineVars>>

-----------------------------------------------------------------------------
(* measure_ingest_throughput.                                               *)

(* Wrong: what was stored before is not looked at.                          *)
MeasureFromZero ==
  /\ phase = "ready"
  /\ phase' = "waiting"
  /\ arrivals' = <<arrived>>
  /\ UNCHANGED <<arrived, dashboardVars, before, last, stable>>

(* Read the stored count, then send every frame.                            *)
Measure ==
  /\ phase = "ready"
  /\ phase' = "waiting"
  /\ before' = stored_readings
  /\ arrivals' = <<arrived>>
  /\ UNCHANGED <<arrived, dashboardVars, last, stable>>

(* The number at the start and at the last three polls.                     *)
Recent == IF Len(arrivals) < 5 THEN arrivals ELSE <<arrivals[1]>> \o SubSeq(arrivals, 3, 5)

(* Wrong: polls need not be consecutive.                                    *)
PollWithoutReset ==
  /\ phase = "waiting"
  /\ stable < 3
  /\ stable' = IF stored_readings = last THEN stable + 1 ELSE stable
  /\ last' = stored_readings
  /\ arrivals' = Append(Recent, arrived)
  /\ UNCHANGED <<arrived, dashboardVars, phase, before>>

(* One turn of the loop: has the stored count moved since the last poll?    *)
Poll ==
  /\ phase = "waiting"
  /\ stable < 3
  /\ stable' = IF stored_readings = last THEN stable + 1 ELSE 0
  /\ last' = stored_readings
  /\ arrivals' = Append(Recent, arrived)
  /\ UNCHANGED <<arrived, dashboardVars, phase, before>>

(* Three polls without a move, or 60 s.                                     *)
StopMeasuring ==
  /\ phase = "waiting"
  /\ phase' = "done"
  /\ UNCHANGED <<arrived, dashboardVars, before, last, stable, arrivals>>

readings_stored == Greatest(0, last - before)

-----------------------------------------------------------------------------
DashboardStep(k) ==
  Refresh(k) \/ (\E e \in Endpoints : Answer(k, e)) \/ Render(k) \/ ShowOffline(k)

Next ==
  \/ Store
  \/ \E k \in Calls : DashboardStep(k)
  \/ Measure \/ Poll \/ StopMeasuring

Spec == Init /\ [][Next]_vars

(* The browser ends every request some day, and its timers fire.            *)
FairSpec == Spec /\ WF_vars(\E k \in Calls : DashboardStep(k))
-----------------------------------------------------------------------------
(* Properties.                                                              *)

(* Answers of an earlier refresh never replace those of a later one: no part *)
(* of the page goes back to an older state of the store.                    *)
DisplayNeverGoesBack ==
  [][\A e \in Endpoints : shown'[e] >= shown[e]]_vars

(* Every part of the page catches up with what has arrived, or another       *)
(* request fails: no sequence of failures stops the refreshing.             *)
DisplayCatchesUp ==
  \A n \in 0..MaxReadings :
    page /\ arrived = n ~>
      (\A e \in Endpoints : shown[e] >= n) \/ \E k \in Calls : Broken(k)

(* The loop waits "for the cloud's stored count to stop rising": when three  *)
(* polls in a row saw no move, nothing arrived between them, unless the      *)
(* buffer is full and its length says nothing.                              *)
StableMeansQuiet ==
  stable = 3 /\ last < MAX_STORED_READINGS =>
    arrivals[Len(arrivals) - 3] = arrivals[Len(arrivals)]

(* readings_stored is the number of readings that arrived from the first     *)
(* look to the last poll; the full buffer "caps" it and never inflates it.   *)
MeasuredIsStored ==
  last >= 0 =>
    LET new == arrivals[Len(arrivals)] - arrivals[1]
    IN /\ readings_stored <= new
       /\ last < MAX_STORED_READINGS => readings_stored = new
=============================================================================
