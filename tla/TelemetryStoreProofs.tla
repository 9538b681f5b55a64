------------------------- MODULE TelemetryStoreProofs -------------------------
(***************************************************************************)
(* Proofs about TelemetryStore, for every number of request threads and      *)
(* devices and every size of the buffer.                                    *)
(***************************************************************************)
EXTENDS TelemetryStore, FiniteSetTheorems, SequenceTheorems, WellFoundedInduction, TLAPS

(* The records that are stored, or about to be.                              *)
Present == {readings[i] : i \in 1..Len(readings)} \cup {work[w] : w \in InWork}

(* A retired path has brought nothing.                                      *)
RetiredInv == ~legacy_enabled => \A r \in Present : r.channel # "legacy"

IInv == TypeOK /\ KeepsNewest
-----------------------------------------------------------------------------
(* The buffer.                                                              *)

(* The last n elements of a sequence.                                       *)
LEMMA LastOfProperties ==
  ASSUME NEW S, NEW s \in Seq(S), NEW n \in Nat
  PROVE  /\ LastOf(s, n) \in Seq(S)
         /\ Len(LastOf(s, n)) = Least(n, Len(s))
         /\ \A i \in 1..Least(n, Len(s)) :
              LastOf(s, n)[i] = s[Greatest(0, Len(s) - n) + i]
  <1> DEFINE a == Greatest(1, Len(s) - n + 1)
  <1>1. Len(s) \in Nat /\ a \in 1 .. Len(s) + 1 /\ a = Greatest(0, Len(s) - n) + 1
    BY DEF Greatest
  <1>2. Len(s) + 1 - a = Least(n, Len(s))
    <2>1. a = IF 1 > Len(s) - n + 1 THEN 1 ELSE Len(s) - n + 1
      BY DEF Greatest
    <2> HIDE DEF a
    <2>2. CASE n < Len(s)
      BY <1>1, <2>1, <2>2 DEF Least
    <2>3. CASE ~(n < Len(s))
      BY <1>1, <2>1, <2>3 DEF Least
    <2>4. QED
      BY <2>2, <2>3
  <1> HIDE DEF a
  <1>3. /\ SubSeq(s, a, Len(s)) \in Seq(S)
        /\ Len(SubSeq(s, a, Len(s))) = Len(s) + 1 - a
        /\ \A i \in 1 .. Len(s) + 1 - a : SubSeq(s, a, Len(s))[i] = s[a + i - 1]
    BY <1>1, SubSeqProperties
  <1>4. LastOf(s, n) = SubSeq(s, a, Len(s))
    BY DEF LastOf, a
  <1>5. \A i \in 1..Least(n, Len(s)) : a + i - 1 = Greatest(0, Len(s) - n) + i
    <2>1. Greatest(0, Len(s) - n) \in Nat
      BY <1>1 DEF Greatest
    <2>2. QED
      BY <1>1, <2>1, <1>2
  <1>6. QED
    BY <1>2, <1>3, <1>4, <1>5

(* Appending to a full buffer keeps the last elements of the longer sequence. *)
LEMMA AppendKeepsLast ==
  ASSUME NEW S, NEW s \in Seq(S), NEW x \in S
  PROVE  AppendBounded(LastOf(s, MAX_STORED_READINGS), x) = LastOf(Append(s, x), MAX_STORED_READINGS)
  <1> DEFINE n == MAX_STORED_READINGS
             b == LastOf(s, n)
             t == Append(s, x)
             c == LastOf(t, n)
  <1>1. n \in Nat \ {0} /\ Len(s) \in Nat
    BY StoreAssumption
  <1>2. /\ t \in Seq(S) /\ Len(t) = Len(s) + 1 /\ t[Len(s) + 1] = x
        /\ \A i \in 1..Len(s) : t[i] = s[i]
    OBVIOUS
  <1> HIDE DEF t, n
  <1>3. /\ b \in Seq(S) /\ Len(b) = Least(n, Len(s))
        /\ \A i \in 1..Least(n, Len(s)) : b[i] = s[Greatest(0, Len(s) - n) + i]
    BY <1>1, LastOfProperties
  <1>4. /\ c \in Seq(S) /\ Len(c) = Least(n, Len(t))
        /\ \A i \in 1..Least(n, Len(t)) : c[i] = t[Greatest(0, Len(t) - n) + i]
    <2>1. t \in Seq(S)
      BY <1>2
    <2>2. QED
      BY <1>1, <2>1, LastOfProperties
  <1> HIDE DEF b, c
  <1>5. CASE Len(s) < n
    <2>1. Len(b) = Len(s) /\ Len(c) = Len(s) + 1 /\ Greatest(0, Len(s) - n) = 0
          /\ Greatest(0, Len(t) - n) = 0
      BY <1>1, <1>2, <1>3, <1>4, <1>5 DEF Least, Greatest
    <2>2. Append(b, x) \in Seq(S) /\ Len(Append(b, x)) = Len(s) + 1
          /\ Append(b, x)[Len(s) + 1] = x
          /\ \A i \in 1..Len(s) : Append(b, x)[i] = b[i]
      BY <1>3, <2>1
    <2>3. \A i \in 1..Len(s) + 1 : Append(b, x)[i] = c[i]
      BY <1>1, <1>2, <1>3, <1>4, <1>5, <2>1, <2>2 DEF Least
    <2>4. Append(b, x) = c
      BY <1>4, <2>1, <2>2, <2>3, SeqEqual
    <2>5. QED
      BY <1>5, <2>1, <2>4 DEF AppendBounded, b, c, t, n
  <1>6. CASE Len(s) >= n
    <2>1. /\ Len(b) = n /\ Len(c) = n
          /\ Greatest(0, Len(s) - n) = Len(s) - n
          /\ Greatest(0, Len(t) - n) = Len(s) + 1 - n
      BY <1>1, <1>2, <1>3, <1>4, <1>6 DEF Least, Greatest
    <2>2. /\ Tail(b) \in Seq(S) /\ Len(Tail(b)) = n - 1
          /\ \A i \in 1 .. n - 1 : Tail(b)[i] = b[i + 1]
      <3>1. b # <<>>
        BY <1>1, <1>3, <2>1
      <3>2. QED
        BY <1>1, <1>3, <2>1, <3>1, HeadTailProperties
    <2> DEFINE e == Append(Tail(b), x)
    <2>3. /\ e \in Seq(S) /\ Len(e) = n /\ e[n] = x
          /\ \A i \in 1 .. n - 1 : e[i] = b[i + 1]
      <3>1. Len(Tail(b)) + 1 = n
        BY <1>1, <2>2
      <3>2. /\ e \in Seq(S) /\ Len(e) = Len(Tail(b)) + 1 /\ e[Len(Tail(b)) + 1] = x
            /\ \A i \in 1..Len(Tail(b)) : e[i] = Tail(b)[i]
        BY <2>2, AppendProperties
      <3> HIDE DEF e
      <3>3. QED
        BY <2>2, <3>1, <3>2
    <2> HIDE DEF e
    <2>4. \A i \in 1..n : e[i] = c[i]
      <3>1. c[n] = x
        <4>1. n \in 1..Least(n, Len(t))
          BY <1>1, <1>2, <1>6 DEF Least
        <4>2. c[n] = t[Len(s) + 1 - n + n]
          BY <1>4, <2>1, <4>1
        <4>3. Len(s) + 1 - n + n = Len(s) + 1
          BY <1>1
        <4>4. QED
          BY <1>2, <4>2, <4>3
      <3>2. ASSUME NEW i \in 1 .. n - 1 PROVE e[i] = c[i]
        <4>1. e[i] = s[Len(s) - n + i + 1]
          <5>1. i + 1 \in 1..Least(n, Len(s))
            BY <1>1, <1>6 DEF Least
          <5>2. b[i + 1] = s[Len(s) - n + (i + 1)]
            BY <1>3, <2>1, <5>1
          <5>3. QED
            BY <1>1, <2>3, <5>2
        <4>2. c[i] = t[Len(s) + 1 - n + i]
          <5>1. i \in 1..Least(n, Len(t))
            BY <1>1, <1>2, <1>6 DEF Least
          <5>2. QED
            BY <1>4, <2>1, <5>1
        <4>3. Len(s) - n + i + 1 \in 1..Len(s) /\ Len(s) - n + i + 1 = Len(s) + 1 - n + i
          BY <1>1, <1>6
        <4>4. QED
          BY <1>2, <4>1, <4>2, <4>3
      <3>3. \A i \in 1..n : i = n \/ i \in 1 .. n - 1
        BY <1>1
      <3>4. QED
        BY <2>3, <3>1, <3>2, <3>3
    <2>5. e = c
      BY <1>4, <2>1, <2>3, <2>4, SeqEqual
    <2>6. ~(Len(b) < n)
      BY <1>1, <2>1
    <2>7. QED
      BY <2>5, <2>6 DEF AppendBounded, b, c, e, t, n
  <1>7. QED
    BY <1>1, <1>5, <1>6

(* The last elements of the history fit into the buffer.                    *)
LEMMA LastOfFits ==
  ASSUME NEW a \in Seq(Record)
  PROVE  /\ LastOf(a, MAX_STORED_READINGS) \in Seq(Record)
         /\ Len(LastOf(a, MAX_STORED_READINGS)) <= MAX_STORED_READINGS
  <1>1. MAX_STORED_READINGS \in Nat /\ Len(a) \in Nat
    BY StoreAssumption
  <1>2. Len(LastOf(a, MAX_STORED_READINGS)) = Least(MAX_STORED_READINGS, Len(a))
    BY <1>1, LastOfProperties
  <1>3. QED
    BY <1>1, <1>2, LastOfProperties DEF Least
-----------------------------------------------------------------------------
(* Type correctness, and the buffer against the whole history.              *)

(* A stamped record has the form of one.                                    *)
LEMMA StampType ==
  ASSUME TypeOK, NEW w \in Workers, NEW d \in Devices, NEW ch \in Channels, Stamp(w, d, ch)
  PROVE  /\ work' \in [Workers -> Record \cup {None}]
         /\ UNCHANGED <<legacy_enabled, clock, readings, arrived, refused>>
  <1>1. Len(arrived) \in Nat /\ clock \in Nat
    BY StoreAssumption DEF TypeOK
  <1>2. IsFiniteSet(InWork)
    BY StoreAssumption, FS_Subset DEF InWork
  <1>3. Len(arrived) + Cardinality(InWork) \in Nat
    BY <1>1, <1>2, FS_CardinalityType
  <1>4. QED
    BY <1>1, <1>3 DEF Stamp, TypeOK, Record

(* Every step keeps the types, and the buffer is the end of the history.     *)
LEMMA InvStep == IInv /\ [Next]_vars => IInv'
  <1> SUFFICES ASSUME IInv, [Next]_vars PROVE IInv'
    OBVIOUS
  <1> USE DEF IInv
  <1>1. ASSUME NEW w \in Workers, NEW d \in Devices, NEW ch \in Channels, Stamp(w, d, ch)
        PROVE  IInv'
    <2>1. /\ work' \in [Workers -> Record \cup {None}]
          /\ UNCHANGED <<legacy_enabled, clock, readings, arrived, refused>>
      BY <1>1, StampType
    <2>2. TypeOK'
      BY <2>1 DEF TypeOK
    <2>3. KeepsNewest'
      BY <2>1 DEF KeepsNewest
    <2>4. QED
      BY <2>2, <2>3
  <1>2. CASE Tick
    BY <1>2, StoreAssumption DEF Tick, TypeOK, KeepsNewest
  <1>3. CASE \E w \in Workers, d \in Devices : IngestSealed(w, d)
    BY <1>1, <1>3 DEF IngestSealed, Channels
  <1>4. CASE \E w \in Workers, d \in Devices, token \in BOOLEAN : Ingest(w, d, token)
    <2>1. PICK w \in Workers, d \in Devices, token \in BOOLEAN : Ingest(w, d, token)
      BY <1>4
    <2>2. CASE legacy_enabled /\ token
      BY <1>1, <2>1, <2>2 DEF Ingest, Channels
    <2>3. CASE ~(legacy_enabled /\ token)
      <3>1. /\ refused' = refused \cup {IF legacy_enabled THEN 401 ELSE 410}
            /\ UNCHANGED <<legacy_enabled, clock, work, readings, arrived>>
        BY <2>1, <2>3 DEF Ingest
      <3>2. refused' \subseteq {401, 410}
        BY <3>1 DEF TypeOK
      <3>3. TypeOK' /\ KeepsNewest'
        BY <3>1, <3>2 DEF TypeOK, KeepsNewest
      <3>4. QED
        BY <3>3
    <2>4. QED
      BY <2>2, <2>3
  <1>5. CASE \E w \in Workers : Store(w)
    <2>1. PICK w \in Workers : Store(w)
      BY <1>5
    <2>2. work[w] \in Record /\ arrived \in Seq(Record)
      BY <2>1 DEF Store, TypeOK
    <2>3. /\ arrived' = Append(arrived, work[w])
          /\ readings' = AppendBounded(readings, work[w])
      BY <2>1 DEF Store
    <2>4. arrived' \in Seq(Record)
      BY <2>2, <2>3
    <2>5. KeepsNewest'
      BY <2>2, <2>3, AppendKeepsLast DEF KeepsNewest
    <2>6. readings' \in Seq(Record) /\ Len(readings') <= MAX_STORED_READINGS
      <3>1. readings' = LastOf(arrived', MAX_STORED_READINGS)
        BY <2>5 DEF KeepsNewest
      <3>2. QED
        BY <2>4, <3>1, LastOfFits
    <2>7. QED
      BY <2>1, <2>4, <2>5, <2>6 DEF Store, TypeOK
  <1>6. CASE UNCHANGED vars
    BY <1>6 DEF vars, TypeOK, KeepsNewest
  <1>7. QED
    BY <1>2, <1>3, <1>4, <1>5, <1>6 DEF Next

(* At the start nothing is stored.                                          *)
LEMMA InvInit == Init => IInv
  <1> SUFFICES ASSUME Init PROVE IInv
    OBVIOUS
  <1>1. arrived = <<>> /\ arrived \in Seq(Record) /\ readings = <<>>
    BY DEF Init
  <1>2. LastOf(<<>>, MAX_STORED_READINGS) \in Seq(Record)
        /\ Len(LastOf(<<>>, MAX_STORED_READINGS)) = Least(MAX_STORED_READINGS, 0)
    <2>1. <<>> \in Seq(Record) /\ Len(<<>>) = 0
      OBVIOUS
    <2>2. MAX_STORED_READINGS \in Nat
      BY StoreAssumption
    <2>3. QED
      BY <2>1, <2>2, LastOfProperties
  <1>3. KeepsNewest
    <2>1. Len(LastOf(<<>>, MAX_STORED_READINGS)) = 0
      BY <1>2, StoreAssumption DEF Least
    <2>2. LastOf(<<>>, MAX_STORED_READINGS) = <<>>
      BY <1>2, <2>1, EmptySeq
    <2>3. QED
      BY <1>1, <2>2 DEF KeepsNewest
  <1>4. QED
    BY <1>1, <1>3, StoreAssumption DEF Init, IInv, TypeOK

(* The inductive invariant holds in every reachable state.                  *)
LEMMA InvHolds == Spec => []IInv
  BY InvInit, InvStep, PTL DEF Spec

(* Every variable keeps to its set, and the buffer to its size.              *)
THEOREM TypeCorrect == Spec => []TypeOK
  <1>1. IInv => TypeOK
    BY DEF IInv
  <1>2. QED
    BY <1>1, InvHolds, PTL

(* The buffer is the newest part of everything that arrived, in the order of  *)
(* arrival, for every size of the buffer and any number of request threads.  *)
THEOREM BufferKeepsNewest == Spec => []KeepsNewest
  <1>1. IInv => KeepsNewest
    BY DEF IInv
  <1>2. QED
    BY <1>1, InvHolds, PTL
-----------------------------------------------------------------------------
(* The retired path.                                                        *)

(* A retired path brings nothing, step by step.                             *)
LEMMA RetiredStep == IInv /\ RetiredInv /\ [Next]_vars => RetiredInv'
  <1> SUFFICES ASSUME IInv, RetiredInv, [Next]_vars, ~legacy_enabled,
                      NEW r \in Present'
               PROVE  r.channel # "legacy"
    BY DEF RetiredInv, Next, vars, Tick, IngestSealed, Ingest, Stamp, Store
  <1>1. CASE r \in Present
    BY <1>1 DEF RetiredInv
  <1>2. CASE UNCHANGED <<readings, work>>
    BY <1>2 DEF Present, InWork, RetiredInv
  <1>3. CASE \E w \in Workers, d \in Devices : IngestSealed(w, d)
    <2>1. PICK w \in Workers, d \in Devices : Stamp(w, d, "mlkem")
      BY <1>3 DEF IngestSealed
    <2>2. r \in Present \/ r = work'[w]
      BY <2>1 DEF Stamp, Present, InWork, IInv, TypeOK
    <2>3. work'[w].channel = "mlkem"
      BY <2>1 DEF Stamp, IInv, TypeOK
    <2>4. QED
      BY <2>2, <2>3 DEF RetiredInv
  <1>4. CASE \E w \in Workers : Store(w)
    <2>1. PICK w \in Workers : Store(w)
      BY <1>4
    <2>2. readings \in Seq(Record) /\ work[w] \in Record
      BY <2>1 DEF Store, IInv, TypeOK
    <2>3. \A i \in 1..Len(readings') :
            readings'[i] = work[w] \/ \E j \in 1..Len(readings) : readings'[i] = readings[j]
      <3> SUFFICES ASSUME NEW i \in 1..Len(readings')
                   PROVE  readings'[i] = work[w] \/ \E j \in 1..Len(readings) : readings'[i] = readings[j]
        OBVIOUS
      <3>1. readings' = AppendBounded(readings, work[w])
        BY <2>1 DEF Store
      <3>2. CASE Len(readings) < MAX_STORED_READINGS
        <4>1. readings' = Append(readings, work[w])
          BY <3>1, <3>2 DEF AppendBounded
        <4>2. QED
          BY <2>2, <4>1
      <3>3. CASE ~(Len(readings) < MAX_STORED_READINGS)
        <4>1. readings' = Append(Tail(readings), work[w]) /\ readings # <<>>
          BY <3>1, <3>3, StoreAssumption DEF AppendBounded
        <4>2. /\ Tail(readings) \in Seq(Record) /\ Len(Tail(readings)) = Len(readings) - 1
              /\ \A j \in 1..Len(Tail(readings)) : Tail(readings)[j] = readings[j + 1]
          BY <2>2, <4>1, HeadTailProperties
        <4>3. /\ Len(readings') = Len(Tail(readings)) + 1
              /\ readings'[Len(Tail(readings)) + 1] = work[w]
              /\ \A j \in 1..Len(Tail(readings)) : readings'[j] = Tail(readings)[j]
          BY <2>2, <4>1, <4>2, AppendProperties
        <4>4. Len(readings) \in Nat
          BY <2>2
        <4>5. i = Len(readings) \/ i + 1 \in 1..Len(readings)
          <5>1. Len(readings') = Len(readings) /\ i \in 1..Len(readings')
            BY <4>2, <4>3, <4>4
          <5>2. QED
            BY <4>4, <5>1
        <4>6. CASE i = Len(readings)
          BY <4>2, <4>3, <4>4, <4>6
        <4>7. CASE i + 1 \in 1..Len(readings)
          <5>1. i \in 1..Len(Tail(readings))
            BY <4>2, <4>4, <4>7
          <5>2. readings'[i] = readings[i + 1]
            BY <4>2, <4>3, <5>1
          <5>3. QED
            BY <4>7, <5>2
        <4>8. QED
          BY <4>5, <4>6, <4>7
      <3>4. QED
        BY <3>2, <3>3
    <2>4. \A v \in Workers : v # w => work'[v] = work[v]
      BY <2>1 DEF Store
    <2>5. w \in InWork /\ work'[w] = None
      BY <2>1 DEF Store, InWork, IInv, TypeOK
    <2>6. r \in Present
      <3>1. CASE \E i \in 1..Len(readings') : r = readings'[i]
        BY <2>3, <2>5, <3>1 DEF Present
      <3>2. CASE \E v \in Workers : work'[v] # None /\ r = work'[v]
        BY <2>4, <2>5, <3>2 DEF Present, InWork
      <3>3. QED
        BY <3>1, <3>2 DEF Present, InWork
    <2>7. QED
      BY <1>1, <2>6
  <1>5. QED
    BY <1>2, <1>3, <1>4 DEF Next, vars, Tick, Ingest

(* Once the legacy path is off, no legacy reading is ever counted, whatever   *)
(* other request threads do.                                                *)
THEOREM RetiredPathBringsNothing == Spec => []LegacyRetired
  <1>1. Init => RetiredInv
    BY DEF Init, RetiredInv, Present, InWork
  <1>2. RetiredInv => LegacyRetired
    <2> SUFFICES ASSUME RetiredInv, ~legacy_enabled
                 PROVE  readings_by_channel["legacy"] = 0
      BY DEF LegacyRetired
    <2>1. {i \in 1..Len(readings) : readings[i].channel = "legacy"} = {}
      BY DEF RetiredInv, Present
    <2>2. QED
      BY <2>1, FS_EmptySet DEF readings_by_channel, Channels
  <1>3. QED
    BY <1>1, <1>2, RetiredStep, InvHolds, PTL DEF Spec
-----------------------------------------------------------------------------
(* Loops.                                                                   *)

(* Every set of numbers that is not empty has a least one.                   *)
LEMMA LeastNumber ==
  ASSUME NEW T \in SUBSET Nat, T # {}
  PROVE  \E m \in T : \A k \in T : m <= k
  <1> DEFINE U == {1..n : n \in T}
             R == StrictSubsetOrdering(Nat)
  <1>1. IsWellFoundedOn(R, FiniteSubsetsOf(Nat))
    BY FS_StrictSubsetOrderingWellFounded
  <1>2. U \subseteq FiniteSubsetsOf(Nat)
    <2>1. \A n \in T : IsFiniteSet(1..n)
      BY FS_Interval
    <2>2. QED
      BY <2>1 DEF FiniteSubsetsOf
  <1>3. U # {}
    OBVIOUS
  <1>4. \E x \in U : \A y \in U : <<y, x>> \notin R
    <2> HIDE DEF R, U
    <2>1. QED
      BY <1>1, <1>2, <1>3, WFMin
  <1>5. PICK m \in T : \A y \in U : <<y, 1..m>> \notin R
    BY <1>4
  <1>6. ASSUME NEW k \in T, k < m
        PROVE  FALSE
    <2>1. 1..k \in SUBSET Nat /\ 1..m \in SUBSET Nat
      OBVIOUS
    <2>2. 1..k \subseteq 1..m
      BY <1>6
    <2>3. m \in 1..m /\ m \notin 1..k
      BY <1>6
    <2>4. <<1..k, 1..m>> \in R
      BY <2>1, <2>2, <2>3 DEF StrictSubsetOrdering
    <2>5. QED
      BY <2>4, <1>5
  <1>7. QED
    BY <1>6

(* Induction up to n, with the numbers for which it holds as a set.          *)
LEMMA InductionUpTo ==
  ASSUME NEW n \in Nat, NEW P, 0 \in P,
         \A i \in 1..n : i - 1 \in P => i \in P
  PROVE  \A i \in 0..n : i \in P
  <1> DEFINE T == {i \in 0..n : i \notin P}
  <1>1. SUFFICES ASSUME T # {}
                 PROVE  FALSE
    OBVIOUS
  <1>2. T \in SUBSET Nat
    OBVIOUS
  <1> HIDE DEF T
  <1>3. PICK m \in T : \A k \in T : m <= k
    BY <1>1, <1>2, LeastNumber
  <1>4. m \in 0..n /\ m \notin P
    BY DEF T
  <1>5. m \in 1..n
    BY <1>4
  <1>6. m - 1 \notin T
    BY <1>3, <1>5
  <1>7. m - 1 \in P
    BY <1>5, <1>6 DEF T
  <1>8. QED
    BY <1>4, <1>5, <1>7

(* The values a variable has before a loop of n turns and after each of them. *)
Histories(S, start, n, turn) ==
  {g \in [0..n -> S] : g[0] = start /\ \A i \in 1..n : g[i] = turn[i][g[i - 1]]}

LEMMA LoopDefined ==
  ASSUME NEW S, NEW start \in S, NEW n \in Nat, NEW turn \in [1..n -> [S -> S]]
  PROVE  Histories(S, start, n, turn) # {}
  <1> DEFINE Done(k, g) == /\ g[0] = start
                           /\ \A i \in 1..k : g[i] = turn[i][g[i - 1]]
             P == {k \in 0..n : \E g \in [0..k -> S] : Done(k, g)}
  <1>1. 0 \in P
    <2>1. PICK g : g = [i \in 0..0 |-> start]
      OBVIOUS
    <2>2. g \in [0..0 -> S] /\ Done(0, g)
      BY <2>1
    <2>3. 0 \in 0..n
      OBVIOUS
    <2> HIDE DEF Done
    <2>4. QED
      BY <2>2, <2>3
  <1>2. ASSUME NEW m \in 1..n, m - 1 \in P
        PROVE  m \in P
    <2>1. PICK g \in [0 .. m - 1 -> S] : Done(m - 1, g)
      BY <1>2
    <2>2. g[m - 1] \in S /\ turn[m][g[m - 1]] \in S
      OBVIOUS
    <2> DEFINE h == [i \in 0..m |-> IF i = m THEN turn[m][g[m - 1]] ELSE g[i]]
    <2>3. h \in [0..m -> S]
      BY <2>2
    <2>4. \A i \in 0 .. m - 1 : h[i] = g[i]
      OBVIOUS
    <2>5. h[m] = turn[m][g[m - 1]]
      OBVIOUS
    <2> HIDE DEF h
    <2>6. h[0] = start
      BY <2>1, <2>4
    <2>7. ASSUME NEW i \in 1..m
          PROVE  h[i] = turn[i][h[i - 1]]
      <3>1. h[i - 1] = g[i - 1]
        BY <2>4
      <3>2. CASE i = m
        BY <3>1, <3>2, <2>5
      <3>3. CASE i # m
        <4>1. i \in 1 .. m - 1
          BY <3>3
        <4>2. QED
          BY <4>1, <3>1, <2>1, <2>4
      <3>4. QED
        BY <3>2, <3>3
    <2>8. Done(m, h)
      BY <2>6, <2>7
    <2>9. m \in 0..n
      OBVIOUS
    <2> HIDE DEF Done
    <2>10. QED
      BY <2>3, <2>8, <2>9
  <1>3. \A i \in 1..n : i - 1 \in P => i \in P
    BY <1>2
  <1> HIDE DEF P
  <1>4. n \in P
    <2>1. \A i \in 0..n : i \in P
      BY <1>1, <1>3, InductionUpTo
    <2>2. n \in 0..n
      OBVIOUS
    <2>3. QED
      BY <2>1, <2>2
  <1>5. PICK g \in [0..n -> S] : Done(n, g)
    BY <1>4 DEF P
  <1>6. QED
    BY <1>5 DEF Histories
-----------------------------------------------------------------------------
(* list_readings.                                                           *)

(* Kept obeys the equations of the filter.                                   *)
LEMMA KeptDefined ==
  ASSUME NEW s \in Seq(Record), NEW d, NEW n \in Nat, n = Len(s)
  PROVE  /\ Kept(s, d) \in [0..n -> Seq(Record)]
         /\ Kept(s, d)[0] = <<>>
         /\ \A i \in 1..n : s[i].device_id = d =>
              Kept(s, d)[i] = Append(Kept(s, d)[i - 1], s[i])
         /\ \A i \in 1..n : s[i].device_id # d => Kept(s, d)[i] = Kept(s, d)[i - 1]
  <1> DEFINE turn == [i \in 1..n |-> [q \in Seq(Record) |->
                        IF s[i].device_id = d THEN Append(q, s[i]) ELSE q]]
             Body(g) == [i \in 0..n |->
                           IF i = 0 THEN <<>>
                           ELSE IF s[i].device_id = d THEN Append(g[i - 1], s[i])
                           ELSE g[i - 1]]
  <1>1. \A i \in 1..n : s[i] \in Record
    OBVIOUS
  <1>2. turn \in [1..n -> [Seq(Record) -> Seq(Record)]]
    BY <1>1
  <1>3. PICK g \in [0..n -> Seq(Record)] :
          /\ g[0] = <<>>
          /\ \A i \in 1..n : g[i] = turn[i][g[i - 1]]
    <2>1. PICK start \in Seq(Record) : start = <<>>
      BY EmptySeq
    <2> HIDE DEF turn
    <2>2. Histories(Seq(Record), start, n, turn) # {}
      BY <1>2, LoopDefined
    <2>3. QED
      BY <2>1, <2>2 DEF Histories
  <1>4. \A i \in 1..n : g[i] = IF s[i].device_id = d THEN Append(g[i - 1], s[i]) ELSE g[i - 1]
    <2>1. \A i \in 1..n : g[i - 1] \in Seq(Record)
      OBVIOUS
    <2>2. QED
      BY <1>3, <2>1
  <1>5. g = Body(g)
    <2>1. PICK b : b = Body(g)
      OBVIOUS
    <2>2. DOMAIN b = 0..n /\ b[0] = <<>>
      BY <2>1
    <2>3. \A i \in 1..n : b[i] = IF s[i].device_id = d THEN Append(g[i - 1], s[i]) ELSE g[i - 1]
      BY <2>1
    <2>4. \A i \in 1..n : b[i] = g[i]
      BY <1>4, <2>3
    <2>5. b[0] = g[0]
      BY <1>3, <2>2
    <2>6. \A i \in 0..n : i = 0 \/ i \in 1..n
      OBVIOUS
    <2>7. \A i \in 0..n : b[i] = g[i]
      BY <2>4, <2>5, <2>6
    <2>8. b = [i \in 0..n |-> b[i]] /\ g = [i \in 0..n |-> g[i]]
      BY <2>1
    <2> HIDE DEF Body
    <2>9. QED
      BY <2>1, <2>7, <2>8
  <1>6. Kept(s, d) = CHOOSE f : f = Body(f)
    BY DEF Kept
  <1> DEFINE k == Kept(s, d)
  <1>7. k = Body(k)
    <2> HIDE DEF Body
    <2>1. QED
      BY <1>5, <1>6
  <1> HIDE DEF k
  <1>8. /\ DOMAIN k = 0..n
        /\ k[0] = <<>>
        /\ \A i \in 1..n : k[i] = IF s[i].device_id = d THEN Append(k[i - 1], s[i]) ELSE k[i - 1]
    <2>1. \A h : h = Body(k) =>
            /\ DOMAIN h = 0..n
            /\ h[0] = <<>>
            /\ \A i \in 1..n :
                 h[i] = IF s[i].device_id = d THEN Append(k[i - 1], s[i]) ELSE k[i - 1]
      OBVIOUS
    <2> HIDE DEF Body
    <2>2. QED
      BY <2>1, <1>7
  <1> DEFINE P == {i \in 0..n : k[i] \in Seq(Record)}
  <1>9. \A i \in 0..n : i \in P
    <2>1. 0 \in P
      <3>1. <<>> \in Seq(Record)
        BY EmptySeq
      <3>2. 0 \in 0..n
        OBVIOUS
      <3>3. QED
        BY <1>8, <3>1, <3>2
    <2>2. ASSUME NEW i \in 1..n, i - 1 \in P
          PROVE  i \in P
      <3>1. k[i - 1] \in Seq(Record) /\ s[i] \in Record
        BY <2>2, <1>1
      <3>2. Append(k[i - 1], s[i]) \in Seq(Record)
        BY <3>1, AppendProperties
      <3>3. k[i] \in Seq(Record)
        BY <3>1, <3>2, <1>8
      <3>4. i \in 0..n
        OBVIOUS
      <3>5. QED
        BY <3>3, <3>4
    <2> HIDE DEF P
    <2>3. QED
      BY <2>1, <2>2, InductionUpTo
  <1>10. k \in [0..n -> Seq(Record)]
    <2>1. k = [i \in 0..n |-> k[i]]
      <3>1. \A h : Body(h) = [i \in 0..n |-> Body(h)[i]]
        OBVIOUS
      <3> HIDE DEF Body
      <3>2. QED
        BY <3>1, <1>7
    <2>2. QED
      BY <2>1, <1>9
  <1>11. QED
    BY <1>8, <1>10 DEF k

(* The positions up to i that a query for d asks for.                        *)
Wanted(s, d, i) == {j \in 1..i : d \in {None, s[j].device_id}}

(* One more position is one more or none.                                    *)
LEMMA WantedGrows ==
  ASSUME NEW s, NEW d, NEW i \in Nat
  PROVE  /\ IsFiniteSet(Wanted(s, d, i)) /\ Cardinality(Wanted(s, d, i)) \in Nat
         /\ Cardinality(Wanted(s, d, i)) <= i
         /\ Wanted(s, d, 0) = {} /\ Cardinality(Wanted(s, d, 0)) = 0
         /\ d \in {None, s[i + 1].device_id} =>
              Cardinality(Wanted(s, d, i + 1)) = Cardinality(Wanted(s, d, i)) + 1
         /\ d \notin {None, s[i + 1].device_id} => Wanted(s, d, i + 1) = Wanted(s, d, i)
  <1> DEFINE W == Wanted(s, d, i)
  <1>1. IsFiniteSet(1..i) /\ Cardinality(1..i) = i
    BY FS_Interval
  <1>2. W \subseteq 1..i
    BY DEF Wanted
  <1>3. IsFiniteSet(W) /\ Cardinality(W) <= i
    BY <1>1, <1>2, FS_Subset
  <1>4. Cardinality(W) \in Nat
    BY <1>3, FS_CardinalityType
  <1>5. Wanted(s, d, 0) = {}
    BY DEF Wanted
  <1>6. Cardinality({}) = 0
    BY FS_EmptySet
  <1>7. i + 1 \notin W
    BY <1>2
  <1>8. ASSUME d \in {None, s[i + 1].device_id}
        PROVE  Cardinality(Wanted(s, d, i + 1)) = Cardinality(W) + 1
    <2>1. Wanted(s, d, i + 1) = W \cup {i + 1}
      BY <1>8 DEF Wanted
    <2>2. Cardinality(W \cup {i + 1}) = Cardinality(W) + 1
      BY <1>3, <1>7, FS_AddElement
    <2>3. QED
      BY <2>1, <2>2
  <1>9. ASSUME d \notin {None, s[i + 1].device_id}
        PROVE  Wanted(s, d, i + 1) = W
    BY <1>9 DEF Wanted
  <1> HIDE DEF W
  <1>10. QED
    BY <1>3, <1>4, <1>5, <1>6, <1>8, <1>9 DEF W

(* Counted from the end, a position is where it should be.                   *)
LEMMA CountFromEnd ==
  ASSUME NEW s, NEW d, NEW n \in Nat, NEW i \in Wanted(s, d, n)
  PROVE  Cardinality({j \in Wanted(s, d, n) : j >= i}) =
           Cardinality(Wanted(s, d, n)) - Cardinality(Wanted(s, d, i)) + 1
  <1> DEFINE M == Wanted(s, d, n)
             A == {j \in M : j >= i}
             B == Wanted(s, d, i)
  <1>1. i \in 1..n /\ i \in M
    BY DEF Wanted
  <1>2. A \cup B = M /\ A \cap B = {i} /\ A \subseteq M /\ B \subseteq M
    BY <1>1 DEF Wanted
  <1>3. IsFiniteSet(M)
    BY WantedGrows
  <1> HIDE DEF A, B, M
  <1>4. IsFiniteSet(A) /\ IsFiniteSet(B)
    BY <1>2, <1>3, FS_Subset
  <1>5. Cardinality(A \cup B) = Cardinality(A) + Cardinality(B) - Cardinality(A \cap B)
    BY <1>4, FS_Union
  <1>6. Cardinality(A) \in Nat /\ Cardinality(B) \in Nat /\ Cardinality(M) \in Nat
    BY <1>3, <1>4, FS_CardinalityType
  <1>7. Cardinality({i}) = 1
    BY FS_Singleton
  <1>8. Cardinality(A) = Cardinality(M) - Cardinality(B) + 1
    <2>1. Cardinality(M) = Cardinality(A) + Cardinality(B) - 1
      BY <1>2, <1>5, <1>7
    <2>2. QED
      BY <1>6, <2>1
  <1>9. QED
    BY <1>8 DEF A, B, M

(* The filter keeps what is wanted, each at its place among the wanted.       *)
Filtered(k, s, d, n) ==
  /\ k \in Seq(Record)
  /\ Len(k) = Cardinality(Wanted(s, d, n))
  /\ \A p \in 1..Len(k) :
       \E i \in Wanted(s, d, n) : k[p] = s[i] /\ Cardinality(Wanted(s, d, i)) = p

LEMMA KeptFiltered ==
  ASSUME NEW s \in Seq(Record), NEW d, d # None, NEW n \in Nat, n = Len(s)
  PROVE  Filtered(Kept(s, d)[n], s, d, n)
  <1> DEFINE K == Kept(s, d)
             P == {i \in 0..n : Filtered(K[i], s, d, i)}
  <1>1. /\ K \in [0..n -> Seq(Record)]
        /\ K[0] = <<>>
        /\ \A i \in 1..n : s[i].device_id = d => K[i] = Append(K[i - 1], s[i])
        /\ \A i \in 1..n : s[i].device_id # d => K[i] = K[i - 1]
    BY KeptDefined
  <1> HIDE DEF K
  <1>2. 0 \in P
    <2>1. K[0] \in Seq(Record) /\ Len(K[0]) = 0
      BY <1>1, EmptySeq
    <2>2. Filtered(K[0], s, d, 0)
      BY <2>1, WantedGrows DEF Filtered
    <2>3. QED
      BY <2>2
  <1>3. ASSUME NEW i \in 1..n, i - 1 \in P
        PROVE  i \in P
    <2>1. PICK m \in Nat : m = i - 1
      OBVIOUS
    <2>2. PICK a \in Seq(Record) : a = K[m]
      BY <1>1, <2>1
    <2>3. Filtered(a, s, d, m)
      BY <1>3, <2>1, <2>2
    <2>4. PICK b : b = K[i]
      OBVIOUS
    <2>5. s[i] \in Record /\ m + 1 = i
      BY <2>1
    <2>6. Wanted(s, d, m) \subseteq Wanted(s, d, i)
      BY <2>5 DEF Wanted
    <2>7. Cardinality(Wanted(s, d, m)) \in Nat /\ Len(a) \in Nat
      BY WantedGrows
    <2>8. Filtered(b, s, d, i)
      <3>1. CASE s[i].device_id = d
        <4>1. b = Append(a, s[i])
          BY <1>1, <2>1, <2>2, <2>4, <3>1
        <4>2. /\ b \in Seq(Record) /\ Len(b) = Len(a) + 1 /\ b[Len(a) + 1] = s[i]
              /\ \A p \in 1..Len(a) : b[p] = a[p]
          BY <4>1, <2>5, AppendProperties
        <4>3. Cardinality(Wanted(s, d, i)) = Cardinality(Wanted(s, d, m)) + 1
          BY <3>1, <2>5, WantedGrows
        <4>4. i \in Wanted(s, d, i)
          BY <3>1 DEF Wanted
        <4>5. ASSUME NEW p \in 1..Len(b)
              PROVE  \E j \in Wanted(s, d, i) : b[p] = s[j] /\ Cardinality(Wanted(s, d, j)) = p
          <5>1. CASE p = Len(a) + 1
            BY <5>1, <4>2, <4>3, <4>4, <2>3, <2>7 DEF Filtered
          <5>2. CASE p # Len(a) + 1
            <6>1. p \in 1..Len(a)
              BY <5>2, <4>2, <2>7
            <6>2. PICK j \in Wanted(s, d, m) : a[p] = s[j] /\ Cardinality(Wanted(s, d, j)) = p
              BY <6>1, <2>3 DEF Filtered
            <6>3. QED
              BY <6>1, <6>2, <4>2, <2>6
          <5>3. QED
            BY <5>1, <5>2
        <4>6. Len(b) = Cardinality(Wanted(s, d, i))
          BY <4>2, <4>3, <2>3 DEF Filtered
        <4>7. QED
          BY <4>2, <4>5, <4>6 DEF Filtered
      <3>2. CASE s[i].device_id # d
        <4>1. b = a
          BY <1>1, <2>1, <2>2, <2>4, <3>2
        <4>2. Wanted(s, d, i) = Wanted(s, d, m)
          BY <3>2, <2>5, WantedGrows
        <4>3. QED
          BY <4>1, <4>2, <2>3 DEF Filtered
      <3>3. QED
        BY <3>1, <3>2
    <2>9. QED
      BY <2>4, <2>8
  <1> HIDE DEF P
  <1>4. \A i \in 0..n : i \in P
    BY <1>2, <1>3, InductionUpTo
  <1>5. n \in 0..n
    OBVIOUS
  <1>6. QED
    BY <1>4, <1>5 DEF P, K

LEMMA MatchingFiltered ==
  ASSUME NEW s \in Seq(Record), NEW d, NEW n \in Nat, n = Len(s)
  PROVE  Filtered(Matching(s, d), s, d, n)
  <1>1. CASE d = None
    <2>1. \A i \in 0..n : Wanted(s, d, i) = 1..i
      BY <1>1 DEF Wanted
    <2>2. \A i \in 0..n : Cardinality(1..i) = i
      BY FS_Interval
    <2>3. Matching(s, d) = s
      BY <1>1 DEF Matching
    <2>4. n \in 0..n /\ \A i \in 1..n : i \in 0..n
      OBVIOUS
    <2>5. Len(s) = Cardinality(Wanted(s, d, n)) /\ Wanted(s, d, n) = 1..n
      BY <2>1, <2>2, <2>4
    <2>6. \A p \in 1..n : Cardinality(Wanted(s, d, p)) = p
      BY <2>1, <2>2, <2>4
    <2>7. QED
      BY <2>3, <2>5, <2>6 DEF Filtered
  <1>2. CASE d # None
    BY <1>2, KeptFiltered DEF Matching
  <1>3. QED
    BY <1>1, <1>2

(* The page of a query: its length, and where each of its readings comes      *)
(* from.                                                                    *)
IsPage(page, limit, d, n) ==
  /\ Len(page) = Least(Cardinality(Wanted(readings, d, n)), Greatest(1, limit))
  /\ \A k \in 1..Len(page) : \E i \in Wanted(readings, d, n) :
       /\ page[k] = readings[i]
       /\ Cardinality({j \in Wanted(readings, d, n) : j >= i}) = k

LEMMA PageProperties ==
  ASSUME readings \in Seq(Record), Len(readings) <= MAX_STORED_READINGS,
         NEW d, NEW limit \in Int,
         NEW n \in Nat, n = Len(readings)
  PROVE  IsPage(list_readings(limit, d), limit, d, n)
  <1> DEFINE page == list_readings(limit, d)
             M == Wanted(readings, d, n)
             m == Matching(readings, d)
             c == Greatest(1, Least(limit, MAX_STORED_READINGS))
             t == LastOf(m, c)
  <1>1. PICK size \in Nat : size = MAX_STORED_READINGS /\ size >= 1 /\ n <= size
    BY StoreAssumption
  <1>2. c \in Nat /\ c = IF limit > size THEN size ELSE IF limit > 1 THEN limit ELSE 1
    BY <1>1 DEF Greatest, Least
  <1>3. PICK cut \in Nat : cut = c
    BY <1>2
  <1>4. m \in Seq(Record) /\ Len(m) = Cardinality(M)
        /\ \A p \in 1..Len(m) :
             \E i \in M : m[p] = readings[i] /\ Cardinality(Wanted(readings, d, i)) = p
    BY MatchingFiltered DEF Filtered
  <1>5. PICK wanted \in Nat : wanted = Cardinality(M) /\ wanted <= n
    BY WantedGrows
  <1>6. Len(m) = wanted
    BY <1>4, <1>5
  <1> DEFINE len == IF cut < wanted THEN cut ELSE wanted
             skip == wanted - len
  <1>7. len \in Nat /\ skip \in Nat /\ Least(cut, wanted) = len /\ Greatest(0, wanted - cut) = skip
    BY DEF Least, Greatest
  <1> HIDE DEF page, m, c, M, t
  <1>8. t \in Seq(Record) /\ Len(t) = len /\ \A i \in 1..len : t[i] = m[skip + i]
    <2> HIDE DEF len, skip
    <2>1. /\ LastOf(m, cut) \in Seq(Record)
          /\ Len(LastOf(m, cut)) = Least(cut, Len(m))
          /\ \A i \in 1..Least(cut, Len(m)) : LastOf(m, cut)[i] = m[Greatest(0, Len(m) - cut) + i]
      <3>1. m \in Seq(Record)
        BY <1>4
      <3>2. QED
        BY <3>1, LastOfProperties
    <2>2. t = LastOf(m, cut)
      BY <1>3 DEF t
    <2>3. QED
      BY <2>1, <2>2, <1>6, <1>7
  <1>9. page = [k \in 1..len |-> t[len - k + 1]]
    <2>1. page = Reverse(t)
      BY DEF page, list_readings, t, c, m
    <2> HIDE DEF len
    <2>2. QED
      BY <2>1, <1>8 DEF Reverse
  <1>10. len = Least(wanted, Greatest(1, limit))
    BY <1>1, <1>2, <1>3, <1>5 DEF Least, Greatest
  <1>11. ASSUME NEW k \in 1..len
         PROVE  \E i \in M : page[k] = readings[i] /\ Cardinality({j \in M : j >= i}) = k
    <2>1. len - k + 1 \in 1..len /\ skip + (len - k + 1) = wanted - k + 1
      BY <1>7
    <2>2. page[k] = t[len - k + 1]
      BY <1>9
    <2>3. PICK p \in 1..wanted : p = wanted - k + 1
      BY <2>1, <1>7
    <2>4. page[k] = m[p]
      BY <2>1, <2>2, <2>3, <1>8
    <2>5. PICK i \in M : m[p] = readings[i] /\ Cardinality(Wanted(readings, d, i)) = p
      BY <1>4, <1>6
    <2>6. Cardinality({j \in M : j >= i}) = Cardinality(M) - p + 1
      BY <2>5, CountFromEnd DEF M
    <2>7. Cardinality({j \in M : j >= i}) = k
      BY <2>3, <2>6, <1>5
    <2>8. QED
      BY <2>4, <2>5, <2>7
  <1>12. Len(page) = len
    <2> HIDE DEF len
    <2>1. page \in [1..len -> Record]
      <3>1. \A k \in 1..len : len - k + 1 \in 1..len
        BY <1>7
      <3>2. QED
        BY <3>1, <1>7, <1>8, <1>9
    <2>2. QED
      BY <2>1, <1>7, IsASeq
  <1>13. QED
    BY <1>5, <1>10, <1>11, <1>12 DEF M, page, IsPage

(* Every page is the newest of the readings asked for, newest first.         *)
LEMMA PagesFollow == TypeOK => PageIsNewestFirst
  <1> SUFFICES ASSUME TypeOK, NEW d \in Devices \cup {None},
                      NEW limit \in -1 .. MAX_STORED_READINGS + 1
               PROVE  LET page == list_readings(limit, d)
                          M == {i \in 1..Len(readings) : d \in {None, readings[i].device_id}}
                      IN /\ Len(page) = Least(Cardinality(M), Greatest(1, limit))
                         /\ \A k \in 1..Len(page) : \E i \in M :
                              page[k] = readings[i] /\ Cardinality({j \in M : j >= i}) = k
    BY DEF PageIsNewestFirst
  <1>1. readings \in Seq(Record) /\ Len(readings) <= MAX_STORED_READINGS
    BY DEF TypeOK
  <1>2. PICK n \in Nat : n = Len(readings)
    BY <1>1
  <1>3. PICK page : page = list_readings(limit, d)
    OBVIOUS
  <1>4. limit \in Int
    BY StoreAssumption
  <1>5. IsPage(page, limit, d, n)
    BY <1>1, <1>2, <1>3, <1>4, PageProperties
  <1>6. Wanted(readings, d, n) = {i \in 1..Len(readings) : d \in {None, readings[i].device_id}}
    BY <1>2 DEF Wanted
  <1>7. QED
    BY <1>3, <1>5, <1>6 DEF IsPage
-----------------------------------------------------------------------------
(* list_devices.                                                            *)

Entry == [readings: Nat, last_seq: Nat, last_seen: Nat]

(* The devices' tables the loop passes through.                              *)
Tables == UNION {[D -> Entry] : D \in SUBSET Devices}

LEMMA NotedType ==
  ASSUME NEW t \in Tables, NEW r \in Record
  PROVE  /\ Noted(t, r) \in Tables
         /\ DOMAIN Noted(t, r) = DOMAIN t \cup {r.device_id}
         /\ \A d \in DOMAIN t : d # r.device_id => Noted(t, r)[d] = t[d]
         /\ Noted(t, r)[r.device_id] =
              [readings |-> IF r.device_id \in DOMAIN t THEN t[r.device_id].readings + 1 ELSE 1,
               last_seq |-> r.seq, last_seen |-> r.received_at]
  <1>1. PICK D \in SUBSET Devices : t \in [D -> Entry]
    BY DEF Tables
  <1>2. /\ r.device_id \in Devices /\ r.seq \in Nat /\ r.received_at \in Nat
        /\ DOMAIN t = D
    BY <1>1 DEF Record
  <1> DEFINE E == D \cup {r.device_id}
             new == [readings |-> IF r.device_id \in D THEN t[r.device_id].readings + 1 ELSE 1,
                     last_seq |-> r.seq, last_seen |-> r.received_at]
  <1>3. new \in Entry
    <2>1. r.device_id \in D => t[r.device_id].readings \in Nat
      BY <1>1 DEF Entry
    <2>2. QED
      BY <1>2, <2>1 DEF Entry
  <1>4. Noted(t, r) = [d \in E |-> IF d = r.device_id THEN new ELSE t[d]]
    BY <1>2 DEF Noted
  <1> HIDE DEF new
  <1>5. Noted(t, r) \in [E -> Entry]
    BY <1>1, <1>3, <1>4
  <1>6. E \in SUBSET Devices
    BY <1>2
  <1>7. Noted(t, r) \in Tables
    <2> HIDE DEF E
    <2>1. QED
      BY <1>5, <1>6 DEF Tables
  <1>8. QED
    BY <1>2, <1>4, <1>7 DEF new

(* NotedUpTo obeys the equations of the loop.                                *)
LEMMA NotedDefined ==
  ASSUME readings \in Seq(Record), NEW n \in Nat, n = Len(readings)
  PROVE  /\ NotedUpTo \in [0..n -> Tables]
         /\ NotedUpTo[0] = NoDevices
         /\ \A i \in 1..n : NotedUpTo[i] = Noted(NotedUpTo[i - 1], readings[i])
  <1> DEFINE turn == [i \in 1..n |-> [t \in Tables |-> Noted(t, readings[i])]]
             Body(g) == [i \in 0..n |->
                           IF i = 0 THEN NoDevices ELSE Noted(g[i - 1], readings[i])]
  <1>1. \A i \in 1..n : readings[i] \in Record
    OBVIOUS
  <1>2. turn \in [1..n -> [Tables -> Tables]]
    BY <1>1, NotedType
  <1>3. NoDevices \in Tables
    <2>1. NoDevices \in [{} -> Entry] /\ {} \in SUBSET Devices
      BY DEF NoDevices
    <2>2. QED
      BY <2>1 DEF Tables
  <1>4. PICK g \in [0..n -> Tables] :
          /\ g[0] = NoDevices
          /\ \A i \in 1..n : g[i] = turn[i][g[i - 1]]
    <2> HIDE DEF turn
    <2>1. Histories(Tables, NoDevices, n, turn) # {}
      BY <1>2, <1>3, LoopDefined
    <2>2. QED
      BY <2>1 DEF Histories
  <1>5. \A i \in 1..n : g[i] = Noted(g[i - 1], readings[i])
    <2>1. \A i \in 1..n : g[i - 1] \in Tables
      OBVIOUS
    <2>2. QED
      BY <1>4, <2>1
  <1>6. g = Body(g)
    <2>1. PICK b : b = Body(g)
      OBVIOUS
    <2>2. DOMAIN b = 0..n /\ b[0] = NoDevices
      BY <2>1
    <2>3. \A i \in 1..n : b[i] = Noted(g[i - 1], readings[i])
      BY <2>1
    <2>4. \A i \in 0..n : b[i] = g[i]
      BY <1>4, <1>5, <2>2, <2>3
    <2>5. b = [i \in 0..n |-> b[i]] /\ g = [i \in 0..n |-> g[i]]
      BY <2>1
    <2> HIDE DEF Body
    <2>6. QED
      BY <2>1, <2>4, <2>5
  <1>7. NotedUpTo = CHOOSE f : f = Body(f)
    BY DEF NotedUpTo
  <1> DEFINE k == NotedUpTo
  <1>8. k = Body(k)
    <2> HIDE DEF Body
    <2>1. QED
      BY <1>6, <1>7
  <1> HIDE DEF k
  <1>9. /\ DOMAIN k = 0..n
        /\ k[0] = NoDevices
        /\ \A i \in 1..n : k[i] = Noted(k[i - 1], readings[i])
    <2>1. \A h : h = Body(k) =>
            /\ DOMAIN h = 0..n
            /\ h[0] = NoDevices
            /\ \A i \in 1..n : h[i] = Noted(k[i - 1], readings[i])
      OBVIOUS
    <2> HIDE DEF Body
    <2>2. QED
      BY <2>1, <1>8
  <1> DEFINE P == {i \in 0..n : k[i] \in Tables}
  <1>10. \A i \in 0..n : i \in P
    <2>1. 0 \in P
      BY <1>3, <1>9
    <2>2. ASSUME NEW i \in 1..n, i - 1 \in P
          PROVE  i \in P
      <3>1. Noted(k[i - 1], readings[i]) \in Tables
        BY <2>2, <1>1, NotedType
      <3>2. QED
        BY <3>1, <1>9
    <2> HIDE DEF P
    <2>3. QED
      BY <2>1, <2>2, InductionUpTo
  <1>11. k \in [0..n -> Tables]
    <2>1. k = [i \in 0..n |-> k[i]]
      <3>1. \A h : Body(h) = [i \in 0..n |-> Body(h)[i]]
        OBVIOUS
      <3> HIDE DEF Body
      <3>2. QED
        BY <3>1, <1>8
    <2>2. QED
      BY <2>1, <1>10
  <1>12. QED
    BY <1>9, <1>11 DEF k

(* After n turns the devices seen so far are listed, each with the number of  *)
(* its readings and the values of the last of them.                          *)
Tallied(t, n) ==
  /\ DOMAIN t = {readings[i].device_id : i \in 1..n}
  /\ \A d \in DOMAIN t : \E i \in Wanted(readings, d, n) :
       /\ \A j \in Wanted(readings, d, n) : j <= i
       /\ t[d] = [readings |-> Cardinality(Wanted(readings, d, n)),
                  last_seq |-> readings[i].seq, last_seen |-> readings[i].received_at]

LEMMA TalliedStep ==
  ASSUME readings \in Seq(Record), NEW m \in Nat, m + 1 <= Len(readings),
         NEW t \in Tables, Tallied(t, m)
  PROVE  Tallied(Noted(t, readings[m + 1]), m + 1)
  <1>1. PICK r \in Record : r = readings[m + 1]
    <2>1. PICK n \in Nat : n = Len(readings)
      OBVIOUS
    <2>2. m + 1 \in 1..n
      BY <2>1
    <2>3. QED
      BY <2>1, <2>2
  <1>2. PICK u : u = Noted(t, r)
    OBVIOUS
  <1>3. /\ u \in Tables
        /\ DOMAIN u = DOMAIN t \cup {r.device_id}
        /\ \A d \in DOMAIN t : d # r.device_id => u[d] = t[d]
        /\ u[r.device_id] =
              [readings |-> IF r.device_id \in DOMAIN t THEN t[r.device_id].readings + 1 ELSE 1,
               last_seq |-> r.seq, last_seen |-> r.received_at]
    BY <1>2, NotedType
  <1>4. r.device_id \in Devices /\ \A d \in DOMAIN t : d # None
    <2>1. \A d \in DOMAIN t : d \in Devices
      BY DEF Tables
    <2>2. QED
      BY <2>1, StoreAssumption DEF Record
  <1>5. DOMAIN u = {readings[i].device_id : i \in 1 .. m + 1}
    <2>1. 1 .. m + 1 = (1..m) \cup {m + 1}
      OBVIOUS
    <2>2. DOMAIN t = {readings[i].device_id : i \in 1..m}
      BY DEF Tallied
    <2>3. QED
      BY <1>1, <1>3, <2>1, <2>2
  <1>6. ASSUME NEW d \in DOMAIN t, d # r.device_id
        PROVE  \E i \in Wanted(readings, d, m + 1) :
                 /\ \A j \in Wanted(readings, d, m + 1) : j <= i
                 /\ u[d] = [readings |-> Cardinality(Wanted(readings, d, m + 1)),
                            last_seq |-> readings[i].seq,
                            last_seen |-> readings[i].received_at]
    <2>1. Wanted(readings, d, m + 1) = Wanted(readings, d, m)
      BY <1>1, <1>4, <1>6, WantedGrows
    <2>2. QED
      BY <2>1, <1>3, <1>6 DEF Tallied
  <1>7. \E i \in Wanted(readings, r.device_id, m + 1) :
           /\ \A j \in Wanted(readings, r.device_id, m + 1) : j <= i
           /\ u[r.device_id] = [readings |-> Cardinality(Wanted(readings, r.device_id, m + 1)),
                                last_seq |-> readings[i].seq,
                                last_seen |-> readings[i].received_at]
    <2> DEFINE W(k) == Wanted(readings, r.device_id, k)
    <2>1. m + 1 \in W(m + 1) /\ \A j \in W(m + 1) : j <= m + 1
      BY <1>1 DEF Wanted
    <2>2. Cardinality(W(m + 1)) = Cardinality(W(m)) + 1
      BY <1>1, WantedGrows
    <2>3. CASE r.device_id \in DOMAIN t
      <3>1. t[r.device_id].readings = Cardinality(W(m))
        <4>1. PICK i : t[r.device_id] = [readings |-> Cardinality(W(m)),
                                         last_seq |-> readings[i].seq,
                                         last_seen |-> readings[i].received_at]
          BY <2>3 DEF Tallied
        <4>2. QED
          BY <4>1
      <3>2. QED
        BY <1>1, <1>3, <2>1, <2>2, <2>3, <3>1
    <2>4. CASE r.device_id \notin DOMAIN t
      <3>1. W(m) = {}
        BY <1>4, <2>4, StoreAssumption DEF Tallied, Wanted
      <3>2. Cardinality(W(m)) = 0
        BY <3>1, FS_EmptySet
      <3>3. Cardinality(W(m + 1)) = 1
        BY <2>2, <3>2
      <3>4. QED
        BY <1>1, <1>3, <2>1, <2>4, <3>3
    <2>5. QED
      BY <2>3, <2>4
  <1>8. Tallied(u, m + 1)
    <2>1. ASSUME NEW d \in DOMAIN u
          PROVE  \E i \in Wanted(readings, d, m + 1) :
                   /\ \A j \in Wanted(readings, d, m + 1) : j <= i
                   /\ u[d] = [readings |-> Cardinality(Wanted(readings, d, m + 1)),
                              last_seq |-> readings[i].seq,
                              last_seen |-> readings[i].received_at]
      <3>1. CASE d = r.device_id
        BY <3>1, <1>7
      <3>2. CASE d # r.device_id
        BY <3>2, <1>3, <1>6
      <3>3. QED
        BY <3>1, <3>2
    <2>2. QED
      BY <2>1, <1>5 DEF Tallied
  <1>9. QED
    BY <1>1, <1>2, <1>8

LEMMA AllTallied ==
  ASSUME readings \in Seq(Record), NEW n \in Nat, n = Len(readings)
  PROVE  Tallied(list_devices, n)
  <1> DEFINE P == {i \in 0..n : Tallied(NotedUpTo[i], i)}
  <1>1. 0 \in P
    <2>1. DOMAIN NotedUpTo[0] = {}
      BY NotedDefined DEF NoDevices
    <2>2. Tallied(NotedUpTo[0], 0)
      BY <2>1 DEF Tallied
    <2>3. QED
      BY <2>2
  <1>2. ASSUME NEW i \in 1..n, i - 1 \in P
        PROVE  i \in P
    <2>1. PICK m \in Nat : m = i - 1
      OBVIOUS
    <2>2. PICK t \in Tables : t = NotedUpTo[m]
      BY <2>1, NotedDefined
    <2>3. Tallied(t, m) /\ m + 1 = i /\ m + 1 <= Len(readings)
      BY <1>2, <2>1, <2>2
    <2>4. Tallied(Noted(t, readings[m + 1]), m + 1)
      BY <2>3, TalliedStep
    <2>5. NotedUpTo[i] = Noted(t, readings[m + 1])
      BY <2>1, <2>2, <2>3, NotedDefined
    <2>6. Tallied(NotedUpTo[i], i)
      BY <2>3, <2>4, <2>5
    <2>7. QED
      BY <2>6
  <1> HIDE DEF P
  <1>3. \A i \in 0..n : i \in P
    BY <1>1, <1>2, InductionUpTo
  <1>4. n \in P
    BY <1>3
  <1>5. QED
    BY <1>4 DEF P, list_devices

(* The devices and the pages tell the same.                                  *)
LEMMA DevicesFollow == TypeOK => DevicesAgreeWithPages
  <1> SUFFICES ASSUME TypeOK
               PROVE  DevicesAgreeWithPages
    OBVIOUS
  <1>1. readings \in Seq(Record) /\ Len(readings) <= MAX_STORED_READINGS
    BY DEF TypeOK
  <1>2. PICK n \in Nat : n = Len(readings)
    BY <1>1
  <1>3. Tallied(list_devices, n)
    BY <1>1, <1>2, AllTallied
  <1>4. DOMAIN list_devices = {readings[i].device_id : i \in 1..Len(readings)}
    BY <1>2, <1>3 DEF Tallied
  <1>5. ASSUME NEW d \in DOMAIN list_devices,
               NEW page, page = list_readings(MAX_STORED_READINGS, d)
        PROVE  list_devices[d] = [readings |-> Len(page), last_seq |-> page[1].seq,
                                  last_seen |-> page[1].received_at]
    <2> DEFINE W == Wanted(readings, d, n)
    <2>1. PICK i \in W :
            /\ \A j \in W : j <= i
            /\ list_devices[d] = [readings |-> Cardinality(W), last_seq |-> readings[i].seq,
                                  last_seen |-> readings[i].received_at]
      BY <1>3 DEF Tallied
    <2>2. IsPage(page, MAX_STORED_READINGS, d, n)
      BY <1>1, <1>2, <1>5, PageProperties, StoreAssumption
    <2>3. Cardinality(W) \in Nat /\ Cardinality(W) <= n /\ IsFiniteSet(W)
      BY WantedGrows
    <2>4. Cardinality(W) # 0
      BY <2>1, <2>3, FS_EmptySet
    <2>5. Len(page) = Cardinality(W)
      <3>1. PICK size \in Nat : size = MAX_STORED_READINGS /\ size >= 1 /\ n <= size
        BY <1>1, <1>2, StoreAssumption
      <3>2. Greatest(1, size) = size /\ Least(Cardinality(W), size) = Cardinality(W)
        BY <2>3, <3>1 DEF Greatest, Least
      <3>3. QED
        BY <2>2, <3>1, <3>2 DEF IsPage
    <2>6. PICK p \in W : page[1] = readings[p] /\ Cardinality({j \in W : j >= p}) = 1
      <3>1. 1 \in 1..Len(page)
        BY <2>3, <2>4, <2>5
      <3>2. QED
        BY <2>2, <3>1 DEF IsPage
    <2>7. p = i
      <3>1. p \in {j \in W : j >= p} /\ i \in {j \in W : j >= p}
        BY <2>1, <2>6 DEF Wanted
      <3>2. IsFiniteSet({j \in W : j >= p})
        BY <2>3, FS_Subset
      <3>3. PICK x : {j \in W : j >= p} = {x}
        BY <2>6, <3>2, FS_Singleton
      <3>4. QED
        BY <3>1, <3>3
    <2>8. QED
      BY <2>1, <2>5, <2>6, <2>7
  <1>6. QED
    BY <1>4, <1>5 DEF DevicesAgreeWithPages
-----------------------------------------------------------------------------
(* GET /api/v1/telemetry returns the newest readings asked for, newest first,  *)
(* after any number of readings and for any size of the buffer: it filters     *)
(* before it cuts.                                                          *)
THEOREM PagesAreNewestFirst == Spec => []PageIsNewestFirst
  <1>1. IInv => PageIsNewestFirst
    BY PagesFollow DEF IInv
  <1>2. QED
    BY <1>1, InvHolds, PTL

(* GET /api/v1/devices agrees with the pages of GET /api/v1/telemetry, after   *)
(* any number of readings and for any size of the buffer.                    *)
THEOREM DevicesMatchTheirPages == Spec => []DevicesAgreeWithPages
  <1>1. IInv => DevicesAgreeWithPages
    BY DevicesFollow DEF IInv
  <1>2. QED
    BY <1>1, InvHolds, PTL
-----------------------------------------------------------------------------
(* The order of arrival.  A reading can only be overtaken by what is already  *)
(* on its way: the requests holding an older stamp are its debt, and each     *)
(* arrival behind it pays one of them off.                                  *)

(* The records of s behind the i-th that are older than it is.               *)
Behind(s, i) == {j \in i + 1 .. Len(s) : s[j].received_at < s[i].received_at}

(* The threads that hold, in v, a record from before t.                      *)
Slower(v, t) == {w \in Workers : v[w] # None /\ v[w].received_at < t}

(* No stamp is from the future.                                             *)
NotAhead ==
  /\ \A i \in 1..Len(arrived) : arrived[i].received_at <= clock
  /\ \A w \in InWork : work[w].received_at <= clock

(* What has overtaken the i-th record of s, and what still may given v, are   *)
(* together fewer than the threads.                                         *)
Bounded(s, v, i) ==
  Cardinality(Behind(s, i)) + Cardinality(Slower(v, s[i].received_at)) < Cardinality(Workers)

OrderInv == NotAhead /\ \A i \in 1..Len(arrived) : Bounded(arrived, work, i)

(* The sets that are counted are finite.                                    *)
LEMMA BehindFinite ==
  ASSUME NEW s \in Seq(Record), NEW i \in Nat
  PROVE  IsFiniteSet(Behind(s, i)) /\ Cardinality(Behind(s, i)) \in Nat
  <1>1. Len(s) \in Nat /\ i + 1 \in Nat
    OBVIOUS
  <1>2. IsFiniteSet(i + 1 .. Len(s))
    BY <1>1, FS_Interval
  <1>3. IsFiniteSet(Behind(s, i))
    BY <1>2, FS_Subset DEF Behind
  <1>4. QED
    BY <1>3, FS_CardinalityType

LEMMA SlowerFinite ==
  ASSUME NEW v, NEW t
  PROVE  IsFiniteSet(Slower(v, t)) /\ Cardinality(Slower(v, t)) \in Nat
  <1>1. IsFiniteSet(Slower(v, t))
    BY StoreAssumption, FS_Subset DEF Slower
  <1>2. QED
    BY <1>1, FS_CardinalityType

(* A stamp taken now is not older than any record that arrived.              *)
LEMMA StampOrder ==
  ASSUME IInv, OrderInv, NEW w \in Workers, NEW d \in Devices, NEW ch \in Channels,
         Stamp(w, d, ch)
  PROVE  OrderInv'
  <1>1. clock \in Nat /\ arrived \in Seq(Record) /\ work \in [Workers -> Record \cup {None}]
    BY StoreAssumption DEF IInv, TypeOK
  <1>2. /\ clock' = clock /\ arrived' = arrived /\ work[w] = None
        /\ \A x \in Workers \ {w} : work'[x] = work[x]
        /\ work'[w].received_at = clock
    BY <1>1 DEF Stamp
  <1>3. NotAhead'
    <2>1. \A i \in 1..Len(arrived') : arrived'[i].received_at <= clock'
      BY <1>2 DEF OrderInv, NotAhead
    <2>2. \A x \in Workers : work'[x] # None => work'[x].received_at <= clock'
      BY <1>1, <1>2 DEF OrderInv, NotAhead, InWork
    <2>3. QED
      BY <2>1, <2>2 DEF NotAhead, InWork
  <1>4. ASSUME NEW i \in 1..Len(arrived) PROVE Bounded(arrived', work', i)
    <2>1. arrived[i].received_at \in Nat /\ arrived[i].received_at <= clock
      <3>1. arrived[i] \in Record
        BY <1>1
      <3>2. QED
        BY <3>1 DEF Record, OrderInv, NotAhead
    <2>2. Slower(work', arrived[i].received_at) = Slower(work, arrived[i].received_at)
      BY <1>1, <1>2, <2>1 DEF Slower
    <2>3. QED
      BY <1>2, <2>2 DEF OrderInv, Bounded
  <1>5. QED
    BY <1>2, <1>3, <1>4 DEF OrderInv

(* A record that arrives behind older ones leaves the threads that owe them.  *)
LEMMA StoreOrder ==
  ASSUME IInv, OrderInv, NEW w \in Workers, Store(w)
  PROVE  OrderInv'
  <1> DEFINE n == Len(arrived)
             r == work[w]
  <1>1. /\ clock \in Nat /\ arrived \in Seq(Record) /\ n \in Nat
        /\ work \in [Workers -> Record \cup {None}]
    BY StoreAssumption DEF IInv, TypeOK
  <1>2. r \in Record /\ r # None /\ w \in InWork /\ r.received_at \in Nat
    BY <1>1 DEF Store, Record, InWork
  <1>3. /\ clock' = clock /\ work'[w] = None
        /\ \A x \in Workers \ {w} : work'[x] = work[x]
    BY <1>1 DEF Store
  <1>4. /\ arrived' \in Seq(Record) /\ Len(arrived') = n + 1 /\ arrived'[n + 1] = r
        /\ \A i \in 1..n : arrived'[i] = arrived[i]
    BY <1>1, <1>2 DEF Store
  <1>5. \A i \in 1..n : arrived[i].received_at \in Nat
    <2>1. \A i \in 1..n : arrived[i] \in Record
      BY <1>1
    <2>2. QED
      BY <2>1 DEF Record
  <1> HIDE DEF n, r
  <1>6. NotAhead'
    <2>1. r.received_at <= clock
      BY <1>2 DEF OrderInv, NotAhead, r
    <2>2. \A i \in 1..n : arrived[i].received_at <= clock
      BY DEF OrderInv, NotAhead, n
    <2>3. \A i \in 1 .. n + 1 : arrived'[i].received_at <= clock
      BY <1>1, <1>4, <2>1, <2>2
    <2>4. \A x \in Workers : work'[x] # None => work'[x].received_at <= clock
      BY <1>3 DEF OrderInv, NotAhead, InWork
    <2>5. QED
      BY <1>3, <1>4, <2>3, <2>4 DEF NotAhead, InWork
  <1>7. ASSUME NEW i \in 1..n PROVE Bounded(arrived', work', i)
    <2> DEFINE t == arrived[i].received_at
    <2>1. i \in Nat /\ t \in Nat /\ arrived'[i].received_at = t
      BY <1>1, <1>4, <1>5
    <2>2. /\ IsFiniteSet(Behind(arrived, i)) /\ Cardinality(Behind(arrived, i)) \in Nat
          /\ IsFiniteSet(Slower(work, t)) /\ Cardinality(Slower(work, t)) \in Nat
      BY <1>1, <2>1, BehindFinite, SlowerFinite
    <2>3. Cardinality(Behind(arrived, i)) + Cardinality(Slower(work, t)) < Cardinality(Workers)
      BY DEF OrderInv, Bounded, n
    <2>4. Behind(arrived, i) = {j \in i + 1 .. n : arrived[j].received_at < t}
      BY DEF Behind, n
    <2>5. Behind(arrived', i) = {j \in i + 1 .. n + 1 : arrived'[j].received_at < t}
      BY <1>4, <2>1 DEF Behind
    <2> HIDE DEF t
    <2>6. CASE r.received_at < t
      <3>1. Behind(arrived', i) = Behind(arrived, i) \cup {n + 1} /\ n + 1 \notin Behind(arrived, i)
        BY <1>1, <1>4, <2>1, <2>4, <2>5, <2>6
      <3>2. Slower(work', t) = Slower(work, t) \ {w} /\ w \in Slower(work, t)
        BY <1>2, <1>3, <2>6 DEF Slower, r
      <3>3. Cardinality(Behind(arrived', i)) = Cardinality(Behind(arrived, i)) + 1
        BY <2>2, <3>1, FS_AddElement
      <3>4. Cardinality(Slower(work', t)) = Cardinality(Slower(work, t)) - 1
        BY <2>2, <3>2, FS_RemoveElement
      <3>5. QED
        BY <2>1, <2>2, <2>3, <3>3, <3>4 DEF Bounded
    <2>7. CASE ~(r.received_at < t)
      <3>1. Behind(arrived', i) = Behind(arrived, i)
        BY <1>1, <1>4, <2>1, <2>4, <2>5, <2>7
      <3>2. Slower(work', t) = Slower(work, t)
        BY <1>2, <1>3, <2>7 DEF Slower, r
      <3>3. QED
        BY <2>1, <2>3, <3>1, <3>2 DEF Bounded
    <2>8. QED
      BY <2>6, <2>7
  <1>8. Bounded(arrived', work', n + 1)
    <2>1. Behind(arrived', n + 1) = {}
      BY <1>1, <1>4 DEF Behind
    <2>2. Cardinality(Behind(arrived', n + 1)) = 0
      BY <2>1, FS_EmptySet
    <2>3. Slower(work', arrived'[n + 1].received_at) \subseteq Workers \ {w}
      BY <1>3 DEF Slower
    <2>4. /\ IsFiniteSet(Workers \ {w})
          /\ Cardinality(Workers \ {w}) = Cardinality(Workers) - 1
      BY StoreAssumption, FS_RemoveElement
    <2>5. Cardinality(Slower(work', arrived'[n + 1].received_at)) <= Cardinality(Workers \ {w})
      BY <2>3, <2>4, FS_Subset
    <2>6. /\ Cardinality(Workers) \in Nat
          /\ Cardinality(Slower(work', arrived'[n + 1].received_at)) \in Nat
      BY StoreAssumption, FS_CardinalityType, SlowerFinite
    <2>7. QED
      BY <2>2, <2>4, <2>5, <2>6 DEF Bounded
  <1>9. \A i \in 1..Len(arrived') : Bounded(arrived', work', i)
    BY <1>1, <1>4, <1>7, <1>8
  <1>10. QED
    BY <1>6, <1>9 DEF OrderInv

(* Every step keeps the debt within the number of threads.                   *)
LEMMA OrderStep == IInv /\ OrderInv /\ [Next]_vars => OrderInv'
  <1> SUFFICES ASSUME IInv, OrderInv, [Next]_vars PROVE OrderInv'
    OBVIOUS
  <1>1. ASSUME UNCHANGED <<clock, work, arrived>> PROVE OrderInv'
    BY <1>1 DEF OrderInv, NotAhead, Bounded, InWork
  <1>2. CASE Tick
    <2>1. clock \in Nat /\ clock' = clock + 1 /\ UNCHANGED <<work, arrived>>
      BY <1>2, StoreAssumption DEF Tick, IInv, TypeOK
    <2>2. /\ \A i \in 1..Len(arrived) : arrived[i].received_at \in Nat
          /\ \A w \in InWork : work[w].received_at \in Nat
      <3>1. /\ \A i \in 1..Len(arrived) : arrived[i] \in Record
            /\ \A w \in InWork : work[w] \in Record
        BY DEF IInv, TypeOK, InWork
      <3>2. QED
        BY <3>1 DEF Record
    <2>3. NotAhead'
      BY <2>1, <2>2 DEF OrderInv, NotAhead, InWork
    <2>4. QED
      BY <2>1, <2>3 DEF OrderInv, Bounded
  <1>3. CASE \E w \in Workers, d \in Devices : IngestSealed(w, d)
    BY <1>3, StampOrder DEF IngestSealed, Channels
  <1>4. CASE \E w \in Workers, d \in Devices, token \in BOOLEAN : Ingest(w, d, token)
    <2>1. PICK w \in Workers, d \in Devices, token \in BOOLEAN : Ingest(w, d, token)
      BY <1>4
    <2>2. CASE legacy_enabled /\ token
      BY <2>1, <2>2, StampOrder DEF Ingest, Channels
    <2>3. CASE ~(legacy_enabled /\ token)
      BY <1>1, <2>1, <2>3 DEF Ingest
    <2>4. QED
      BY <2>2, <2>3
  <1>5. CASE \E w \in Workers : Store(w)
    BY <1>5, StoreOrder
  <1>6. CASE UNCHANGED vars
    BY <1>1, <1>6 DEF vars
  <1>7. QED
    BY <1>2, <1>3, <1>4, <1>5, <1>6 DEF Next

(* Readings arrive almost in the order of their times, although the time is   *)
(* taken before the lock: with any number of request threads, fewer readings  *)
(* than there are threads ever arrive behind a newer one.                    *)
THEOREM ArrivalsAlmostInOrder == Spec => []AlmostInTimeOrder
  <1>1. Init => OrderInv
    <2> SUFFICES ASSUME Init PROVE OrderInv
      OBVIOUS
    <2>1. arrived = <<>> /\ work = [w \in Workers |-> None]
      BY DEF Init
    <2>2. Len(arrived) = 0 /\ InWork = {}
      BY <2>1 DEF InWork
    <2>3. QED
      BY <2>2 DEF OrderInv, NotAhead
  <1>2. IInv /\ OrderInv => AlmostInTimeOrder
    <2> SUFFICES ASSUME IInv, OrderInv, NEW i \in 1..Len(arrived)
                 PROVE  Cardinality(Overtaken(i)) < Cardinality(Workers)
      BY DEF AlmostInTimeOrder
    <2>1. arrived \in Seq(Record)
      BY DEF IInv, TypeOK
    <2>2. i \in Nat
      BY <2>1
    <2>3. Cardinality(Behind(arrived, i)) \in Nat /\ Overtaken(i) = Behind(arrived, i)
      BY <2>1, <2>2, BehindFinite DEF Behind, Overtaken
    <2>4. /\ Cardinality(Slower(work, arrived[i].received_at)) \in Nat
          /\ Cardinality(Workers) \in Nat
      BY SlowerFinite, StoreAssumption, FS_CardinalityType
    <2>5. Cardinality(Behind(arrived, i)) + Cardinality(Slower(work, arrived[i].received_at))
            < Cardinality(Workers)
      BY DEF OrderInv, Bounded
    <2>6. QED
      BY <2>3, <2>4, <2>5
  <1>3. QED
    BY <1>1, <1>2, OrderStep, InvHolds, PTL DEF Spec
=============================================================================
