-------------------------- MODULE LegacyFrameProofs --------------------------
(***************************************************************************)
(* Proofs about LegacyFrame, for every block size, buffer size and device    *)
(* id and however long a device runs.                                       *)
(***************************************************************************)
EXTENDS LegacyFrame, FiniteSetTheorems, TLAPS

(* The fate of every frame of the device.                                   *)
FateOfId ==
  IF id.separators # 0 \/ id.length = 0 THEN "rejected"
  ELSE IF id.length > MAX_ID_LENGTH THEN "refused" ELSE "stored"

TypeInv ==
  /\ id \in Ids
  /\ seq \in Nat /\ uptime \in Nat
  /\ device \in {"running", "ended"}
  /\ record \in Nat

(* The frame under way was made of a record that fits.                       *)
LineInv == line # None => \E length \in Nat : ~TooLong(length) /\ line = Frame(length)

IInv == TypeInv /\ LineInv /\ FitsUpToCapacity /\ fates \subseteq {FateOfId}
-----------------------------------------------------------------------------
(* Lengths.                                                                 *)

(* Rounding down to a multiple of b.                                        *)
LEMMA DivBounds ==
  ASSUME NEW a \in Nat, NEW b \in Nat \ {0}
  PROVE  a \div b \in Nat /\ b * (a \div b) <= a /\ a < b * (a \div b) + b
  OBVIOUS

(* Multiplication by b respects the order, and a step is worth b.            *)
LEMMA TimesMonotone ==
  ASSUME NEW b \in Nat, NEW x \in Nat, NEW y \in Nat, x < y
  PROVE  b * x + b <= b * y
  <1>1. y - x - 1 \in Nat
    OBVIOUS
  <1>2. b * (y - x - 1) \in Nat
    BY <1>1
  <1>3. b * (y - x - 1) = b * y - b * x - b
    OBVIOUS
  <1>4. b * x \in Nat /\ b * y \in Nat
    OBVIOUS
  <1>5. QED
    BY <1>2, <1>3, <1>4

(* Rounding down and comparing with a multiple.                              *)
LEMMA DivAtLeast ==
  ASSUME NEW a \in Nat, NEW b \in Nat \ {0}, NEW m \in Nat
  PROVE  a \div b >= m <=> a >= b * m
  <1> DEFINE q == a \div b
  <1>1. q \in Nat /\ b * q <= a /\ a < b * q + b
    BY DivBounds
  <1> HIDE DEF q
  <1>2. b * q \in Nat /\ b * m \in Nat
    BY <1>1
  <1>3. CASE q < m
    <2>1. b * q + b <= b * m
      BY <1>1, <1>3, TimesMonotone
    <2>2. QED
      BY <1>1, <1>2, <1>3, <2>1 DEF q
  <1>4. CASE q = m
    BY <1>1, <1>4 DEF q
  <1>5. CASE m < q
    <2>1. b * m + b <= b * q
      BY <1>1, <1>5, TimesMonotone
    <2>2. QED
      BY <1>1, <1>2, <1>5, <2>1 DEF q
  <1>6. QED
    BY <1>1, <1>3, <1>4, <1>5

(* A frame is too long exactly when its record is longer than Capacity, which *)
(* is not negative.                                                         *)
LEMMA TooLongBeyondCapacity ==
  ASSUME NEW n \in Nat
  PROVE  /\ TooLong(n) <=> n > Capacity
         /\ 0 <= Capacity
  <1> DEFINE room == MAX_FRAME_BYTES - 2 * BLOCK - 2
             m == room \div (2 * BLOCK)
             q == n \div BLOCK
  <1>1. /\ BLOCK \in Nat \ {0}
        /\ 2 * BLOCK \in Nat \ {0}
        /\ MAX_FRAME_BYTES \in Nat
        /\ room \in Nat
        /\ room >= 2 * BLOCK * 1
    BY FrameAssumption
  <1>2. m \in Nat /\ m >= 1
    BY <1>1, DivBounds, DivAtLeast
  <1>3. q \in Nat
    BY <1>1, DivBounds
  <1>4. q + 1 \in Nat /\ m \in Nat
    BY <1>2, <1>3
  <1>5. room \div (2 * BLOCK) >= q + 1 <=> room >= 2 * BLOCK * (q + 1)
    BY <1>1, <1>3, DivAtLeast
  <1>6. n \div BLOCK >= m <=> n >= BLOCK * m
    BY <1>1, <1>2, DivAtLeast
  <1>7. FrameLength(n) = 2 * BLOCK + 2 + 2 * BLOCK * (q + 1)
    <2>1. Padded(n) = BLOCK * (q + 1)
      BY DEF Padded
    <2>2. 2 * (BLOCK * (q + 1)) = 2 * BLOCK * (q + 1)
      BY <1>1, <1>4
    <2>3. BLOCK * (q + 1) \in Nat
      BY <1>1, <1>4
    <2> HIDE DEF q
    <2>4. QED
      BY <1>1, <2>1, <2>2, <2>3 DEF FrameLength
  <1>8. Capacity = BLOCK * m - 1
    BY DEF Capacity
  <1>9. BLOCK * m \in Nat /\ BLOCK * m >= 1 /\ 2 * BLOCK * (q + 1) \in Nat
    <2> HIDE DEF m, q
    <2>1. BLOCK * m >= BLOCK * 1
      <3>1. CASE m = 1
        BY <3>1, <1>1
      <3>2. CASE 1 < m
        <4>1. BLOCK * 1 + BLOCK <= BLOCK * m
          BY <1>1, <1>2, <3>2, TimesMonotone
        <4>2. QED
          BY <4>1, <1>1, <1>2
      <3>3. QED
        BY <3>1, <3>2, <1>2
    <2>2. QED
      BY <2>1, <1>1, <1>2, <1>4
  <1>10. TooLong(n) <=> ~(m >= q + 1)
    <2>1. TooLong(n) <=> 2 * BLOCK * (q + 1) > room
      <3> DEFINE z == 2 * BLOCK * (q + 1)
      <3>1. z \in Nat
        BY <1>9
      <3> HIDE DEF z, q
      <3>2. FrameLength(n) = 2 * BLOCK + 2 + z
        BY <1>7 DEF z
      <3>3. QED
        BY <3>1, <3>2, <1>1 DEF TooLong, z
    <2>2. QED
      BY <2>1, <1>1, <1>5, <1>9
  <1> HIDE DEF m, q
  <1>11. QED
    BY <1>2, <1>3, <1>6, <1>8, <1>9, <1>10 DEF q

(* The sizes of protocol.py let records of 95 characters through.            *)
COROLLARY RealCapacity ==
  ASSUME MAX_FRAME_BYTES = 256, BLOCK = 16
  PROVE  Capacity = 95
  BY DEF Capacity

(* A number is written with at least one digit.                              *)
LEMMA DigitsType ==
  ASSUME NEW n \in Nat
  PROVE  Digits(n) \in Nat \ {0}
  <1> DEFINE P == {k \in 1..n : Base ^ k <= n}
  <1>1. IsFiniteSet(1..n)
    BY FS_Interval
  <1>2. P \subseteq 1..n
    OBVIOUS
  <1>3. Digits(n) = 1 + Cardinality(P)
    BY DEF Digits
  <1> HIDE DEF P
  <1>4. IsFiniteSet(P)
    BY <1>1, <1>2, FS_Subset
  <1>5. Cardinality(P) \in Nat
    BY <1>4, FS_CardinalityType
  <1>6. QED
    BY <1>3, <1>5

LEMMA BuiltType ==
  ASSUME TypeInv, NEW sensors \in SensorText
  PROVE  Built(seq + 1, sensors) \in Nat
  <1>1. id.length \in Nat
    BY FrameAssumption DEF TypeInv
  <1>2. sensors \in Nat
    BY DEF SensorText
  <1>3. Digits(seq + 1) \in Nat
    <2>1. seq + 1 \in Nat
      BY DEF TypeInv
    <2>2. QED
      BY <2>1, DigitsType
  <1>4. Digits(uptime) \in Nat
    <2>1. uptime \in Nat
      BY DEF TypeInv
    <2>2. QED
      BY <2>1, DigitsType
  <1>5. QED
    BY <1>1, <1>2, <1>3, <1>4 DEF Built
-----------------------------------------------------------------------------
(* The invariant.                                                           *)

LEMMA InitIInv == Init => IInv
  <1> SUFFICES ASSUME Init
               PROVE  IInv
    OBVIOUS
  <1>1. 0 <= Capacity
    BY TooLongBeyondCapacity
  <1>2. Capacity \in Int
    BY FrameAssumption, DivBounds, <1>1, TooLongBeyondCapacity DEF Capacity
  <1>3. ~(0 > Capacity)
    BY <1>1, <1>2
  <1>4. TypeInv
    BY DEF Init, TypeInv
  <1>5. FitsUpToCapacity
    BY <1>3 DEF Init, FitsUpToCapacity
  <1>6. QED
    BY <1>4, <1>5 DEF Init, IInv, LineInv

(* What a frame that was sent meets.                                         *)
LEMMA FateIsThatOfId ==
  ASSUME TypeInv, LineInv, line # None
  PROVE  Fate = FateOfId
  <1>1. PICK n \in Nat : ~TooLong(n) /\ line = Frame(n)
    BY DEF LineInv
  <1>2. line.bytes = FrameLength(n) /\ line.fields = 6 + id.separators
    BY <1>1 DEF Frame
  <1>3. ~(line.bytes > GATEWAY_MAX_FRAME_BYTES)
    <2>1. FrameLength(n) \in Int
      BY FrameAssumption, DivBounds DEF FrameLength, Padded
    <2>2. ~(FrameLength(n) > MAX_FRAME_BYTES)
      BY <1>1 DEF TooLong
    <2>3. QED
      BY <1>2, <2>1, <2>2, FrameAssumption
  <1>4. Parses <=> id.separators = 0 /\ id.length # 0
    BY <1>2, FrameAssumption DEF Parses, TypeInv
  <1>5. QED
    BY <1>3, <1>4 DEF Fate, FateOfId

(* Each step keeps the invariant.                                           *)
LEMMA NextIInv == IInv /\ [Next]_vars => IInv'
  <1> SUFFICES ASSUME IInv, [Next]_vars
               PROVE  IInv'
    OBVIOUS
  <1>1. CASE Tick
    BY <1>1 DEF Tick, IInv, TypeInv, LineInv, FitsUpToCapacity, FateOfId,
                Frame, Capacity
  <1>2. ASSUME NEW sensors \in SensorText, Send(sensors)
        PROVE  IInv'
    <2>1. PICK n \in Nat : n = Built(seq + 1, sensors)
      BY BuiltType DEF IInv
    <2>2. /\ seq' = seq + 1 /\ record' = n /\ device = "running" /\ line = None
          /\ id' = id /\ uptime' = uptime /\ fates' = fates
      BY <1>2, <2>1 DEF Send
    <2>3. TooLong(n) <=> n > Capacity
      BY TooLongBeyondCapacity
    <2>4. CASE ~id.ascii \/ TooLong(n)
      <3>1. device' = "ended" /\ line' = line
        BY <1>2, <2>1, <2>4 DEF Send
      <3>2. QED
        BY <2>2, <2>3, <2>4, <3>1
           DEF IInv, TypeInv, LineInv, FitsUpToCapacity, FateOfId, Capacity
    <2>5. CASE id.ascii /\ ~TooLong(n)
      <3>1. device' = device /\ line' = Frame(n)
        BY <1>2, <2>1, <2>5 DEF Send
      <3>2. LineInv'
        <4>1. line' = Frame(n)'
          BY <3>1, <2>2 DEF Frame
        <4>2. QED
          BY <4>1, <2>5 DEF LineInv, TooLong, FrameLength, Padded
      <3>3. QED
        BY <2>2, <2>3, <2>5, <3>1, <3>2
           DEF IInv, TypeInv, FitsUpToCapacity, FateOfId, Capacity
    <2>6. QED
      BY <2>4, <2>5, <1>2, <2>2 DEF IInv, TypeInv
  <1>3. CASE Receive
    <2>1. Fate = FateOfId
      BY <1>3, FateIsThatOfId DEF Receive, IInv
    <2>2. QED
      BY <1>3, <2>1 DEF Receive, IInv, TypeInv, LineInv, FitsUpToCapacity, FateOfId, Capacity
  <1>4. CASE UNCHANGED vars
    BY <1>4 DEF vars, IInv, TypeInv, LineInv, FitsUpToCapacity, FateOfId, Frame, Capacity
  <1>5. QED
    BY <1>1, <1>2, <1>3, <1>4 DEF Next
-----------------------------------------------------------------------------
LEMMA Invariance == Spec => []IInv
  BY InitIInv, NextIInv, PTL DEF Spec

(* encrypt_frame refuses exactly the records longer than Capacity, whatever   *)
(* the block and the buffer measure: a device ends at the first of them.     *)
THEOREM RecordsFitUpToCapacity == Spec => []FitsUpToCapacity
  <1>1. IInv => FitsUpToCapacity
    BY DEF IInv
  <1>2. QED
    BY <1>1, Invariance, PTL

(* All readings of a device meet one fate, the one its id decides, however   *)
(* long the device runs: no frame that encrypt_frame lets through is over the *)
(* gateway's limit or parses otherwise than the first.                      *)
THEOREM OneFateForAll == Spec => []OneFate
  <1>1. IInv => OneFate
    BY DEF IInv, OneFate
  <1>2. QED
    BY <1>1, Invariance, PTL
=============================================================================
