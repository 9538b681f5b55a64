--------------------------- MODULE CloudViewsProofs ---------------------------
(***************************************************************************)
(* Proofs about CloudViews, for every number of readings and of overlapping   *)
(* calls, every size of the buffer and however often requests fail.          *)
(***************************************************************************)
EXTENDS CloudViews, SequenceTheorems, TLAPS

(* The chain of refresh, answers and timer is one: a call runs or the next   *)
(* one is scheduled.                                                        *)
OneCallInv ==
  /\ timer => \A k \in Calls : answers[k] = None
  /\ \A k, l \in Calls : answers[k] # None /\ answers[l] # None => k = l

(* What is shown has arrived, and an answer is no older than what is shown.   *)
FreshInv ==
  /\ arrived \in Nat
  /\ shown \in [Endpoints -> Int]
  /\ \A e \in Endpoints : shown[e] <= arrived
  /\ answers \in [Calls -> [Endpoints -> Int] \cup {None}]
  /\ \A k \in Calls : answers[k] # None =>
       \A e \in Endpoints :
         \/ answers[k][e] \in {Pending, Failed}
         \/ shown[e] <= answers[k][e] /\ answers[k][e] <= arrived
  /\ \A e \in Endpoints : shown[e] >= Pending

DisplayInv == OneCallInv /\ FreshInv

(* The numbers remembered of the polls never fall.                           *)
HistoryInv ==
  /\ arrived \in Nat
  /\ arrivals \in Seq(Nat) /\ Len(arrivals) <= 5
  /\ \A i, j \in 1..Len(arrivals) : i <= j => arrivals[i] <= arrivals[j]
  /\ \A i \in 1..Len(arrivals) : arrivals[i] <= arrived

(* Where the measurement is, and that before and last are counts of the      *)
(* first look and of the last poll.                                         *)
CountInv ==
  /\ phase = "ready" => arrivals = <<>>
  /\ phase = "waiting" => arrivals # <<>>
  /\ arrivals # <<>> => before = Least(arrivals[1], MAX_STORED_READINGS)
  /\ last = -1 => Len(arrivals) <= 1 /\ stable = 0
  /\ last # -1 => Len(arrivals) >= 2

(* The last stable + 1 polls all saw the same count, last.                   *)
StableInv ==
  /\ stable \in 0..3
  /\ last # -1 =>
       /\ Len(arrivals) >= stable + 2
       /\ \A j \in 0..stable :
            last = Least(arrivals[Len(arrivals) - j], MAX_STORED_READINGS)

MeasureInv == HistoryInv /\ CountInv /\ StableInv
-----------------------------------------------------------------------------
(* The dashboard.                                                           *)

LEMMA InitDisplay == Init => DisplayInv
  <1> SUFFICES ASSUME Init
               PROVE  DisplayInv
    OBVIOUS
  <1>1. \A k \in Calls : answers[k] = None
    BY DEF Init
  <1>2. OneCallInv
    BY <1>1 DEF OneCallInv
  <1>3. FreshInv
    BY <1>1 DEF Init, FreshInv, Pending
  <1>4. QED
    BY <1>2, <1>3 DEF DisplayInv

(* A step of a call keeps the invariant, and shows nothing older.            *)
LEMMA CallDisplay ==
  ASSUME DisplayInv, NEW k \in Calls, DashboardStep(k)
  PROVE  DisplayInv' /\ \A e \in Endpoints : shown'[e] >= shown[e]
  <1>1. CASE Refresh(k)
    <2>1. /\ answers' = [answers EXCEPT ![k] = [e \in Endpoints |-> Pending]]
          /\ timer /\ timer' = FALSE /\ shown' = shown /\ arrived' = arrived
      BY <1>1 DEF Refresh
    <2>2. \A l \in Calls : answers[l] = None
      BY <2>1 DEF DisplayInv, OneCallInv
    <2>3. \A l \in Calls : l # k => answers'[l] = None
      BY <2>1, <2>2 DEF DisplayInv, FreshInv
    <2>4. answers'[k] = [e \in Endpoints |-> Pending]
      BY <2>1 DEF DisplayInv, FreshInv
    <2>5. OneCallInv'
      BY <2>1, <2>3 DEF OneCallInv
    <2>6. FreshInv'
      BY <2>1, <2>3, <2>4 DEF DisplayInv, FreshInv, Pending
    <2>7. QED
      BY <2>1, <2>5, <2>6 DEF DisplayInv, FreshInv
  <1>2. ASSUME NEW f \in Endpoints, Answer(k, f)
        PROVE  DisplayInv' /\ \A e \in Endpoints : shown'[e] >= shown[e]
    <2>1. PICK a \in {arrived, Failed} : answers' = [answers EXCEPT ![k][f] = a]
      BY <1>2 DEF Answer
    <2>2. /\ answers[k] # None /\ answers[k] \in [Endpoints -> Int]
          /\ timer' = timer /\ shown' = shown /\ arrived' = arrived
      BY <1>2 DEF Answer, DisplayInv, FreshInv
    <2>3. \A l \in Calls : l # k => answers'[l] = answers[l] /\ answers[l] = None
      BY <2>1, <2>2 DEF DisplayInv, FreshInv, OneCallInv
    <2>4. answers'[k] = [answers[k] EXCEPT ![f] = a]
      BY <2>1 DEF DisplayInv, FreshInv
    <2>5. a \in Int
      BY DEF DisplayInv, FreshInv, Failed
    <2>6. OneCallInv'
      BY <2>2, <2>3 DEF DisplayInv, OneCallInv
    <2>7. answers' \in [Calls -> [Endpoints -> Int] \cup {None}]
      BY <2>1, <2>2, <2>4, <2>5 DEF DisplayInv, FreshInv
    <2>8. \A e \in Endpoints :
            \/ answers'[k][e] \in {Pending, Failed}
            \/ shown[e] <= answers'[k][e] /\ answers'[k][e] <= arrived
      BY <2>2, <2>4, <2>5 DEF DisplayInv, FreshInv
    <2>9. FreshInv'
      BY <2>2, <2>3, <2>7, <2>8 DEF DisplayInv, FreshInv
    <2>10. QED
      BY <2>2, <2>6, <2>9 DEF DisplayInv, FreshInv
  <1>3. CASE Render(k)
    <2>1. /\ answers[k] # None /\ answers[k] \in [Endpoints -> Int]
          /\ \A e \in Endpoints : answers[k][e] >= 0
          /\ shown' = answers[k] /\ arrived' = arrived
          /\ answers' = [answers EXCEPT ![k] = None]
      BY <1>3 DEF Render, Answered, DisplayInv, FreshInv
    <2>2. \A l \in Calls : answers'[l] = None
      BY <2>1 DEF DisplayInv, OneCallInv, FreshInv
    <2>3. \A e \in Endpoints : shown[e] <= shown'[e] /\ shown'[e] <= arrived
      BY <2>1 DEF DisplayInv, FreshInv, Pending, Failed
    <2>4. OneCallInv'
      BY <2>2 DEF OneCallInv
    <2>5. FreshInv'
      BY <2>1, <2>2, <2>3 DEF DisplayInv, FreshInv, Pending
    <2>6. QED
      BY <2>1, <2>3, <2>4, <2>5 DEF DisplayInv, FreshInv
  <1>4. CASE ShowOffline(k)
    <2>1. /\ answers[k] # None /\ shown' = shown /\ arrived' = arrived
          /\ answers' = [answers EXCEPT ![k] = None]
      BY <1>4 DEF ShowOffline, Broken
    <2>2. \A l \in Calls : answers'[l] = None
      BY <2>1 DEF DisplayInv, OneCallInv, FreshInv
    <2>3. OneCallInv'
      BY <2>2 DEF OneCallInv
    <2>4. FreshInv'
      BY <2>1, <2>2 DEF DisplayInv, FreshInv
    <2>5. QED
      BY <2>1, <2>3, <2>4 DEF DisplayInv, FreshInv
  <1>5. QED
    BY <1>1, <1>2, <1>3, <1>4 DEF DashboardStep

LEMMA NextDisplay ==
  ASSUME DisplayInv, [Next]_vars
  PROVE  DisplayInv' /\ \A e \in Endpoints : shown'[e] >= shown[e]
  <1>1. CASE Store
    BY <1>1 DEF Store, dashboardVars, DisplayInv, OneCallInv, FreshInv
  <1>2. CASE \E k \in Calls : DashboardStep(k)
    BY <1>2, CallDisplay
  <1>3. CASE Measure \/ Poll \/ StopMeasuring \/ UNCHANGED vars
    <2>1. UNCHANGED <<arrived, dashboardVars>>
      BY <1>3 DEF Measure, Poll, StopMeasuring, vars
    <2>2. QED
      BY <2>1 DEF dashboardVars, DisplayInv, OneCallInv, FreshInv
  <1>4. QED
    BY <1>1, <1>2, <1>3 DEF Next-----------------------------------------------------------------------------
(* The measurement.                                                         *)

LEMMA InitMeasure == Init => MeasureInv
  <1> SUFFICES ASSUME Init
               PROVE  MeasureInv
    OBVIOUS
  <1>1. arrivals = <<>> /\ arrivals \in Seq(Nat) /\ Len(arrivals) = 0
    BY EmptySeq DEF Init
  <1>2. HistoryInv
    BY <1>1 DEF Init, HistoryInv
  <1>3. CountInv
    BY <1>1 DEF Init, CountInv
  <1>4. StableInv
    BY DEF Init, StableInv
  <1>5. QED
    BY <1>2, <1>3, <1>4 DEF MeasureInv

LEMMA ArrivalsLength ==
  ASSUME HistoryInv
  PROVE  \E n \in 0..5 :
           /\ n = Len(arrivals)
           /\ \A i \in 1..n : arrivals[i] \in Nat
           /\ arrivals # <<>> => n >= 1
  <1>1. arrivals \in Seq(Nat) /\ Len(arrivals) <= 5
    BY DEF HistoryInv
  <1>2. PICK n \in Nat : n = Len(arrivals)
    BY <1>1
  <1>3. \A i \in 1..n : arrivals[i] \in Nat
    BY <1>1, <1>2
  <1>4. arrivals # <<>> => n # 0
    <2>1. \A s \in Seq(Nat) : s # <<>> => Len(s) \in Nat \ {0}
      BY EmptySeq
    <2>2. QED
      BY <2>1, <1>1, <1>2
  <1>5. n \in 0..5
    <2>1. n <= 5
      BY <1>1, <1>2
    <2>2. QED
      BY <2>1
  <1>6. arrivals # <<>> => n >= 1
    BY <1>4, <1>5
  <1>7. QED
    BY <1>2, <1>3, <1>5, <1>6

(* What Recent keeps: the first number, and the last three of a full list.    *)
LEMMA RecentKeeps ==
  ASSUME HistoryInv, NEW n \in 1..5, n = Len(arrivals),
         NEW p \in 1..4, p = IF n < 5 THEN n ELSE 4
  PROVE  /\ Recent \in Seq(Nat)
         /\ Len(Recent) = p
         /\ \A i \in 1..p : Recent[i] = arrivals[IF n < 5 \/ i = 1 THEN i ELSE i + 1]
  <1>1. arrivals \in Seq(Nat) /\ \A i \in 1..n : arrivals[i] \in Nat
    BY ArrivalsLength DEF HistoryInv
  <1>2. CASE n < 5
    BY <1>1, <1>2 DEF Recent
  <1>3. CASE n = 5
    <2> DEFINE a == <<arrivals[1]>>
               b == SubSeq(arrivals, 3, 5)
    <2>1. arrivals[1] \in Nat /\ \A i \in 3..5 : arrivals[i] \in Nat
      BY <1>1, <1>3
    <2>2. a \in Seq(Nat) /\ Len(a) = 1 /\ a[1] = arrivals[1]
      BY <2>1
    <2>3. /\ b \in Seq(Nat)
          /\ Len(b) = 3
          /\ \A i \in 1..3 : b[i] = arrivals[3 + i - 1]
      BY <2>1, SubSeqProperties
    <2>4. Recent = a \o b
      BY <1>3 DEF Recent
    <2> HIDE DEF a, b
    <2>5. /\ a \o b \in Seq(Nat)
          /\ Len(a \o b) = Len(a) + Len(b)
          /\ \A i \in 1 .. Len(a) + Len(b) :
               (a \o b)[i] = IF i <= Len(a) THEN a[i] ELSE b[i - Len(a)]
      BY <2>2, <2>3, ConcatProperties
    <2>6. Len(a) + Len(b) = 4
      BY <2>2, <2>3
    <2>7. \A i \in 1..4 : Recent[i] = IF i <= 1 THEN a[i] ELSE b[i - 1]
      BY <2>2, <2>4, <2>5, <2>6
    <2>8. ASSUME NEW i \in 1..4
          PROVE  Recent[i] = arrivals[IF i = 1 THEN i ELSE i + 1]
      <3>1. CASE i = 1
        BY <3>1, <2>2, <2>7
      <3>2. CASE i # 1
        <4>1. i - 1 \in 1..3 /\ 3 + (i - 1) - 1 = i + 1
          BY <3>2
        <4>2. b[i - 1] = arrivals[i + 1]
          BY <4>1, <2>3
        <4>3. QED
          BY <3>2, <4>2, <2>7
      <3>3. QED
        BY <3>1, <3>2
    <2>9. p = 4
      BY <1>3
    <2>10. \A i \in 1..p : Recent[i] = arrivals[IF n < 5 \/ i = 1 THEN i ELSE i + 1]
      BY <1>3, <2>8, <2>9
    <2>11. QED
      BY <2>4, <2>5, <2>6, <2>9, <2>10
  <1>4. QED
    BY <1>2, <1>3

LEMMA PollMeasure ==
  ASSUME MeasureInv, Poll
  PROVE  MeasureInv'
  <1>1. arrivals # <<>> /\ arrived \in Nat
    BY DEF MeasureInv, CountInv, HistoryInv, Poll
  <1>2. PICK b : b = Append(Recent, arrived)
    OBVIOUS
  <1>3. arrivals' = b /\ last' = stored_readings /\ arrived' = arrived
    BY <1>2 DEF Poll
  <1>4. PICK n \in 1..5 : n = Len(arrivals)
    BY <1>1, ArrivalsLength DEF MeasureInv
  <1>5. PICK m \in 2..5 : m = IF n < 5 THEN n + 1 ELSE 5
    OBVIOUS
  <1>6. /\ b \in Seq(Nat)
        /\ Len(b) = m
        /\ b[1] = arrivals[1] /\ b[m] = arrived
        /\ \A i \in 1 .. m - 1 :
             b[i] = arrivals[IF n < 5 \/ i = 1 THEN i ELSE i + 1]
    <2>1. HistoryInv /\ m - 1 = IF n < 5 THEN n ELSE 4
      BY <1>5 DEF MeasureInv
    <2>2. PICK p \in 1..4 : p = m - 1
      OBVIOUS
    <2>3. /\ Recent \in Seq(Nat)
          /\ Len(Recent) = p
          /\ \A i \in 1..p : Recent[i] = arrivals[IF n < 5 \/ i = 1 THEN i ELSE i + 1]
      BY <1>4, <2>1, <2>2, RecentKeeps
    <2>4. /\ b \in Seq(Nat)
          /\ Len(b) = Len(Recent) + 1
          /\ \A i \in 1..Len(Recent) : b[i] = Recent[i]
          /\ b[Len(Recent) + 1] = arrived
      BY <1>1, <1>2, <2>3, AppendProperties
    <2>5. m = p + 1
      BY <2>2
    <2>6. QED
      BY <2>2, <2>3, <2>4, <2>5
  <1>7. b # <<>>
    BY <1>6
  <1>8. \A i \in 1..n : arrivals[i] \in Nat /\ arrivals[i] <= arrived
    BY <1>4 DEF MeasureInv, HistoryInv
  <1>9. \A i, j \in 1..n : i <= j => arrivals[i] <= arrivals[j]
    BY <1>4 DEF MeasureInv, HistoryInv
  <1>10. HistoryInv'
    <2>1. ASSUME NEW i \in 1..m
          PROVE  b[i] <= arrived
      <3>1. CASE i = m
        BY <1>1, <1>6, <3>1
      <3>2. CASE i # m
        <4>1. i \in 1 .. m - 1
          BY <3>2
        <4>2. PICK p \in 1..n : p = IF n < 5 \/ i = 1 THEN i ELSE i + 1
          BY <4>1, <1>5
        <4>3. b[i] = arrivals[p]
          BY <4>1, <4>2, <1>6
        <4>4. QED
          BY <4>3, <1>8
      <3>3. QED
        BY <3>1, <3>2
    <2>2. ASSUME NEW i \in 1..m, NEW j \in 1..m, i <= j
          PROVE  b[i] <= b[j]
      <3>1. CASE j = m
        BY <2>1, <3>1, <1>6
      <3>2. CASE j # m
        <4>1. i \in 1 .. m - 1 /\ j \in 1 .. m - 1
          BY <2>2, <3>2
        <4>2. PICK p \in 1..n : p = IF n < 5 \/ i = 1 THEN i ELSE i + 1
          BY <4>1, <1>5
        <4>3. PICK q \in 1..n : q = IF n < 5 \/ j = 1 THEN j ELSE j + 1
          BY <4>1, <1>5
        <4>4. p <= q
          BY <2>2, <4>1, <4>2, <4>3
        <4>5. b[i] = arrivals[p] /\ b[j] = arrivals[q]
          BY <4>1, <4>2, <4>3, <1>6
        <4>6. QED
          BY <4>4, <4>5, <1>9
      <3>3. QED
        BY <3>1, <3>2
    <2>3. QED
      BY <1>1, <1>3, <1>6, <1>5, <2>1, <2>2 DEF HistoryInv
  <1>11. stored_readings = Least(arrived, MAX_STORED_READINGS) /\ stored_readings # -1
    BY <1>1, ViewsAssumption DEF stored_readings, Least
  <1>12. CountInv'
    <2>1. phase' = "waiting" /\ before' = before
      BY DEF Poll
    <2>2. before = Least(b[1], MAX_STORED_READINGS)
      BY <1>1, <1>6 DEF MeasureInv, CountInv
    <2>3. Len(b) >= 2 /\ last' # -1
      BY <1>3, <1>11, <1>5, <1>6
    <2>4. QED
      BY <2>1, <2>2, <2>3, <1>3, <1>7 DEF CountInv
  <1>13. StableInv'
    <2>1. CASE stored_readings = last
      <3>1. stable' = stable + 1 /\ stable \in 0..2 /\ n >= stable + 2
        BY <2>1, <1>11, <1>4 DEF Poll, MeasureInv, StableInv
      <3>2. \A j \in 0..stable : last = Least(arrivals[n - j], MAX_STORED_READINGS)
        BY <2>1, <1>11, <1>4 DEF MeasureInv, StableInv
      <3>3. ASSUME NEW j \in 1 .. stable + 1
            PROVE  last = Least(b[m - j], MAX_STORED_READINGS)
        <4>1. m - j \in 1 .. m - 1 /\ j - 1 \in 0..stable
          BY <3>1, <1>5, <1>6
        <4>2. b[m - j] = arrivals[n - (j - 1)]
          BY <4>1, <3>1, <1>6, <1>5
        <4>3. QED
          BY <4>1, <4>2, <3>2
      <3>4. last = Least(b[m - 0], MAX_STORED_READINGS)
        BY <2>1, <1>6, <1>11
      <3>5. \A j \in 0 .. stable + 1 : last = Least(b[m - j], MAX_STORED_READINGS)
        BY <3>1, <3>3, <3>4
      <3>6. m >= stable + 1 + 2
        BY <3>1, <1>5, <1>6
      <3>7. stable + 1 \in 0..3
        BY <3>1
      <3>8. QED
        BY <3>1, <3>5, <3>6, <3>7, <2>1, <1>3, <1>5, <1>6 DEF StableInv
    <2>2. CASE stored_readings # last
      <3>1. stable' = 0
        BY <2>2 DEF Poll
      <3>2. last' = Least(b[m - 0], MAX_STORED_READINGS)
        BY <1>3, <1>6, <1>11
      <3>3. \A j \in 0..0 : last' = Least(b[m - j], MAX_STORED_READINGS)
        BY <3>2
      <3>4. QED
        BY <3>1, <3>3, <1>3, <1>5, <1>6 DEF StableInv
    <2>3. QED
      BY <2>1, <2>2
  <1>14. QED
    BY <1>10, <1>12, <1>13 DEF MeasureInv

LEMMA NextMeasure == MeasureInv /\ [Next]_vars => MeasureInv'
  <1> SUFFICES ASSUME MeasureInv, [Next]_vars
               PROVE  MeasureInv'
    OBVIOUS
  <1>1. CASE Store
    <2>1. arrived' = arrived + 1 /\ UNCHANGED baselineVars
      BY <1>1 DEF Store
    <2>2. \A i \in 1..Len(arrivals) : arrivals[i] \in Nat
      BY DEF MeasureInv, HistoryInv
    <2>3. HistoryInv'
      BY <2>1, <2>2 DEF baselineVars, MeasureInv, HistoryInv
    <2>4. QED
      BY <2>1, <2>3 DEF baselineVars, MeasureInv, CountInv, StableInv
  <1>2. CASE Measure
    <2>1. PICK b : b = <<arrived>>
      OBVIOUS
    <2>2. /\ arrivals' = b /\ phase' = "waiting" /\ before' = stored_readings
          /\ arrived' = arrived /\ last' = last /\ stable' = stable
          /\ arrivals = <<>> /\ arrived \in Nat
      BY <1>2, <2>1 DEF Measure, MeasureInv, CountInv, HistoryInv
    <2>3. b \in Seq(Nat) /\ Len(b) = 1 /\ b[1] = arrived /\ b # <<>>
      BY <2>1, <2>2
    <2>4. last = -1 /\ stable = 0
      BY <2>2, EmptySeq DEF MeasureInv, CountInv
    <2>5. HistoryInv'
      BY <2>2, <2>3 DEF HistoryInv
    <2>6. CountInv'
      BY <2>2, <2>3, <2>4 DEF CountInv, stored_readings
    <2>7. StableInv'
      BY <2>2, <2>4 DEF StableInv
    <2>8. QED
      BY <2>5, <2>6, <2>7 DEF MeasureInv
  <1>3. CASE Poll
    BY <1>3, PollMeasure
  <1>4. CASE StopMeasuring
    BY <1>4 DEF StopMeasuring, MeasureInv, HistoryInv, CountInv, StableInv
  <1>5. CASE (\E k \in Calls : DashboardStep(k)) \/ UNCHANGED vars
    <2>1. UNCHANGED <<arrived, baselineVars>>
      BY <1>5 DEF DashboardStep, Refresh, Answer, Render, ShowOffline, vars
    <2>2. QED
      BY <2>1 DEF baselineVars, MeasureInv, HistoryInv, CountInv, StableInv
  <1>6. QED
    BY <1>1, <1>2, <1>3, <1>4, <1>5 DEF Next
-----------------------------------------------------------------------------
(* refresh schedules the next call only when it has rendered or failed, so no  *)
(* late answer of an earlier call is rendered over a newer one, for any number *)
(* of calls.                                                                *)
THEOREM DisplayOnlyAdvances == Spec => DisplayNeverGoesBack
  <1>1. Spec => []DisplayInv
    <2>1. DisplayInv /\ [Next]_vars => DisplayInv'
      BY NextDisplay
    <2>2. QED
      BY InitDisplay, <2>1, PTL DEF Spec
  <1>2. DisplayInv /\ [Next]_vars => [\A e \in Endpoints : shown'[e] >= shown[e]]_vars
    BY NextDisplay
  <1>3. QED
    BY <1>1, <1>2, PTL DEF Spec, DisplayNeverGoesBack

LEMMA MeasureInvariance == Spec => []MeasureInv
  BY InitMeasure, NextMeasure, PTL DEF Spec

(* A run of three equal polls below the size of the buffer means that nothing *)
(* arrived in between: the count cannot move and come back.                  *)
THEOREM StableCountMeansQuiet == Spec => []StableMeansQuiet
  <1>1. ASSUME MeasureInv, stable = 3, last < MAX_STORED_READINGS
        PROVE  arrivals[Len(arrivals) - 3] = arrivals[Len(arrivals)]
    <2>0. PICK n \in 0..5 : n = Len(arrivals)
      BY <1>1, ArrivalsLength DEF MeasureInv
    <2>1. last # -1 /\ n = 5
      BY <1>1, <2>0 DEF MeasureInv, CountInv, StableInv
    <2>2. arrivals[2] \in Nat /\ arrivals[5] \in Nat
      BY <1>1, <2>0, <2>1, ArrivalsLength DEF MeasureInv
    <2>3. \A j \in 0..3 : last = Least(arrivals[Len(arrivals) - j], MAX_STORED_READINGS)
      BY <1>1, <2>1 DEF MeasureInv, StableInv
    <2>4. /\ last = Least(arrivals[5], MAX_STORED_READINGS)
          /\ last = Least(arrivals[2], MAX_STORED_READINGS)
      BY <2>0, <2>1, <2>3
    <2>5. arrivals[2] = last /\ arrivals[5] = last
      BY <1>1, <2>2, <2>4, ViewsAssumption DEF Least
    <2>6. QED
      BY <2>0, <2>1, <2>5
  <1>2. MeasureInv => StableMeansQuiet
    BY <1>1 DEF StableMeansQuiet
  <1>3. QED
    BY <1>2, MeasureInvariance, PTL

(* The reported number of stored readings is exact below the size of the      *)
(* buffer, and never more than what arrived.                                *)
THEOREM MeasurementIsExact == Spec => []MeasuredIsStored
  <1>1. ASSUME MeasureInv, last >= 0
        PROVE  LET new == arrivals[Len(arrivals)] - arrivals[1]
               IN /\ readings_stored <= new
                  /\ last < MAX_STORED_READINGS => readings_stored = new
    <2>1. last # -1
      BY <1>1
    <2>2. PICK n \in 2..5 : n = Len(arrivals) /\ arrivals # <<>>
      <3>1. PICK n \in 0..5 : n = Len(arrivals)
        BY <1>1, ArrivalsLength DEF MeasureInv
      <3>2. n >= 2 /\ arrivals \in Seq(Nat)
        BY <1>1, <2>1, <3>1 DEF MeasureInv, HistoryInv, CountInv
      <3>3. QED
        BY <3>1, <3>2
    <2> DEFINE a == arrivals[1]
               z == arrivals[Len(arrivals)]
    <2>3. a \in Nat /\ z \in Nat /\ a <= z
      BY <1>1, <2>2 DEF MeasureInv, HistoryInv
    <2>4. before = Least(a, MAX_STORED_READINGS)
      BY <1>1, <2>2 DEF MeasureInv, CountInv
    <2>5. last = Least(z, MAX_STORED_READINGS)
      <3>1. 0 \in 0..stable /\ Len(arrivals) - 0 = Len(arrivals)
        BY <1>1, <2>2 DEF MeasureInv, StableInv
      <3>2. QED
        BY <1>1, <2>1, <3>1 DEF MeasureInv, StableInv
    <2> HIDE DEF a, z
    <2>6. /\ readings_stored <= z - a
          /\ last < MAX_STORED_READINGS => readings_stored = z - a
      BY <2>3, <2>4, <2>5, ViewsAssumption DEF readings_stored, Greatest, Least
    <2>7. QED
      BY <2>6 DEF a, z
  <1>2. MeasureInv => MeasuredIsStored
    BY <1>1 DEF MeasuredIsStored
  <1>3. QED
    BY <1>2, MeasureInvariance, PTL
=============================================================================
