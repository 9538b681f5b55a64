------------------------- MODULE SealedUplinkProofs -------------------------
(***************************************************************************)
(* Proofs about SealedUplink, for every number of threads, workers,          *)
(* readings, sessions and messages and for every set of faults.             *)
(***************************************************************************)
EXTENDS SealedUplink, FiniteSetTheorems, WellFoundedInduction, TLAPS

(* What each program counter says of the thread's other variables.          *)
ThreadInv ==
  /\ \A t \in Threads : pc[t] # "idle" => job[t] \in Readings
  /\ \A t \in Threads : pc[t] \in {"posted", "waiting", "invalidate"} => msg[t] \in wire
  /\ \A t \in Threads : pc[t] = "invalidate" => attempt[t] = 1

(* Requests in progress carry messages that were posted.                    *)
RequestInv == \A w \in Workers : req[w] # Idle => req[w].msg \in wire

TypeInv == TypeOK /\ ThreadInv /\ RequestInv

(* Every counter in use lies below next_counter.                            *)
WireInv == \A m \in wire : m.ctr < next_counter[m.sid]

(* One thread at a time performs a handshake, and the session it is offered  *)
(* has not been used.                                                       *)
HandshakeInv ==
  /\ \A t, u \in Threads : pc[t] = "handshake" /\ pc[u] = "handshake" => t = u
  /\ \A t \in Threads : hs[t] # None =>
       /\ pc[t] = "handshake"
       /\ hs[t] # current
       /\ hs[t] <= opened
       /\ next_counter[hs[t]] = 0
  /\ current # None => current <= opened
  /\ \A s \in SID : s > opened => next_counter[s] = 0

(* No session carries more messages than its budget.                        *)
BudgetInv ==
  /\ \A s \in SID : next_counter[s] <= SESSION_MAX_MESSAGES
  /\ \A s \in SID : \A c \in seen[s] : c < SESSION_MAX_MESSAGES

UplinkInv == NonceUnique /\ WireInv /\ HandshakeInv /\ BudgetInv

IInv == TypeInv /\ UplinkInv
-----------------------------------------------------------------------------
(* Type correctness: each action leaves every variable in its set.          *)

(* The initial state satisfies the type invariant.                          *)
LEMMA TypeInit == Init => TypeInv
  BY ConstantsAssumption, NoneAssumption
  DEF Init, TypeInv, TypeOK, ThreadInv, RequestInv, SID, Idle

(* A step that leaves every variable unchanged keeps the type invariant.    *)
LEMMA TypeStutter == TypeInv /\ UNCHANGED vars => TypeInv'
  BY DEF TypeInv, TypeOK, ThreadInv, RequestInv, vars, uplinkVars, threadVars, cloudVars

(* Steps of a handler thread inside send().                                *)
LEMMA TypeGateway ==
  ASSUME TypeInv, NEW t \in Threads, GatewayStep(t)
  PROVE  TypeInv'
  <1> USE NoneAssumption DEF TypeInv, ThreadInv, RequestInv, uplinkVars, threadVars, cloudVars
  <1>1. CASE NextMessage(t)
    BY <1>1 DEF TypeOK, NextMessage, Usable, SealAndPost, Message
  <1>2. CASE BeginHandshake(t)
    BY <1>2 DEF TypeOK, BeginHandshake
  <1>3. CASE FinishHandshake(t)
    BY <1>3 DEF TypeOK, FinishHandshake, SealAndPost, Message
  <1>4. CASE FailHandshake(t)
    BY <1>4 DEF TypeOK, FailHandshake, EndSend, Callers
  <1>5. CASE Rejected401(t)
    BY <1>5 DEF TypeOK, Rejected401
  <1>6. CASE Invalidate(t)
    BY <1>6 DEF TypeOK, Invalidate, Message
  <1>7. CASE RaiseRejected(t)
    BY <1>7 DEF TypeOK, RaiseRejected, EndSend
  <1>8. CASE Delivered(t)
    BY <1>8 DEF TypeOK, Delivered, EndSend
  <1>9. CASE RaiseUnreachable(t)
    BY <1>9 DEF TypeOK, RaiseUnreachable, EndSend, Hangup, ConnectionLost, Request, Idle
  <1>10. QED
    BY <1>1, <1>2, <1>3, <1>4, <1>5, <1>6, <1>7, <1>8, <1>9 DEF GatewayStep

(* Steps of a request thread of the cloud.                                  *)
LEMMA TypeCloud ==
  ASSUME TypeInv, NEW w \in Workers, CloudStep(w)
  PROVE  TypeInv'
  <1> USE DEF TypeInv, ThreadInv, RequestInv, uplinkVars, threadVars, cloudVars
  <1>1. CASE Lookup(w)
    BY <1>1 DEF TypeOK, Lookup, Request, Idle
  <1>2. CASE RefuseUnknown(w)
    BY <1>2 DEF TypeOK, RefuseUnknown, Answer, Status
  <1>3. CASE RefuseTampered(w)
    BY <1>3 DEF TypeOK, RefuseTampered, Answer, Status
  <1>4. CASE RefuseCounter(w)
    <2>1. \E status \in Status : Answer(w, status) /\ UNCHANGED <<seen, stored>>
      BY <1>4 DEF RefuseCounter, Status
    <2>2. QED
      BY <2>1 DEF TypeOK, Answer
  <1>5. CASE RecordCounter(w)
    BY <1>5 DEF TypeOK, RecordCounter, Authentic, Request, Idle, Message
  <1>6. CASE StoreReading(w)
    BY <1>6 DEF TypeOK, StoreReading, Answer, Status, Request, Message
  <1>7. CASE RefuseInvalid(w)
    BY <1>7 DEF TypeOK, RefuseInvalid, Answer, Status
  <1>8. QED
    BY <1>1, <1>2, <1>3, <1>4, <1>5, <1>6, <1>7 DEF CloudStep

(* The new session has the next number, and the ones kept are among the old. *)
LEMMA InsertType ==
  ASSUME TypeOK, NEW c \in Callers, InsertSession(c)
  PROVE  /\ opened' = opened + 1
         /\ opened + 1 \in SID
         /\ opened' \in 0..MaxOpened
         /\ sessions' \subseteq 1..opened'
         /\ 1..opened \subseteq 1..opened'
         /\ noted' \in [Callers -> (SUBSET SID) \cup {None}]
  <1>1. opened \in Nat /\ opened < MaxOpened /\ opened' = opened + 1 /\ MaxOpened \in Nat
    BY ConstantsAssumption DEF TypeOK, InsertSession, AddSession
  <1>2. sessions' \subseteq sessions \cup {opened + 1}
    BY DEF InsertSession, AddSession, Newest
  <1>3. sessions \subseteq 1..opened
    BY DEF TypeOK
  <1>4. noted' \in [Callers -> (SUBSET SID) \cup {None}]
    BY DEF TypeOK, InsertSession, AddSession
  <1>5. QED
    BY <1>1, <1>2, <1>3, <1>4 DEF SID

(* Calls of send() and the sessions they open.                              *)
LEMMA TypeCall ==
  ASSUME TypeInv, NEW t \in Threads,
         (\E r \in Readings : Submit(t, r)) \/ OpenSession(t)
  PROVE  TypeInv'
  <1> USE DEF TypeInv, ThreadInv, RequestInv, uplinkVars, threadVars, cloudVars
  <1>1. CASE \E r \in Readings : Submit(t, r)
    BY <1>1 DEF TypeOK, Submit
  <1>2. CASE OpenSession(t)
    BY <1>2, InsertType DEF TypeOK, OpenSession, Callers
  <1>3. QED
    BY <1>1, <1>2

(* Messages that reach a request thread.                                    *)
LEMMA TypeArrival ==
  ASSUME TypeInv, NEW w \in Workers, NEW intact \in BOOLEAN,
         (\E t \in Threads : Deliver(t, w, intact)) \/ (\E m \in wire : Redeliver(m, w, intact))
  PROVE  TypeInv'
  <1> USE DEF TypeInv, ThreadInv, RequestInv, uplinkVars, threadVars, cloudVars
  <1>1. CASE \E t \in Threads : Deliver(t, w, intact)
    BY <1>1 DEF TypeOK, Deliver, Request, Message
  <1>2. CASE \E m \in wire : Redeliver(m, w, intact)
    BY <1>2 DEF TypeOK, Redeliver, Request, Message
  <1>3. QED
    BY <1>1, <1>2

(* Clocks, restarts and sessions of others.                                 *)
LEMMA TypeEnvironment ==
  ASSUME TypeInv, Environment
  PROVE  TypeInv'
  <1> USE DEF TypeInv, ThreadInv, RequestInv, uplinkVars, threadVars, cloudVars
  <1>1. CASE \E s \in SID : RenewalDue(s)
    BY <1>1 DEF TypeOK, RenewalDue
  <1>2. CASE \E s \in SID : SessionExpires(s)
    BY <1>2 DEF TypeOK, SessionExpires
  <1>3. CASE \E c \in Others : OpenForeignSession(c)
    BY <1>3, InsertType DEF TypeOK, OpenForeignSession, Callers
  <1>4. CASE CloudRestart
    BY <1>4, ConstantsAssumption DEF TypeOK, CloudRestart
  <1>5. CASE GatewayRestart
    BY <1>5, ConstantsAssumption DEF TypeOK, GatewayRestart, Hangup, Request, Idle
  <1>6. CASE \E c \in Callers : ReadClock(c)
    <2>1. PICK c \in Callers : ReadClock(c)
      BY <1>6
    <2>2. sessions \cap expired \in SUBSET SID
      BY ConstantsAssumption DEF TypeOK, SID
    <2>3. QED
      BY <2>1, <2>2 DEF TypeOK, ReadClock
  <1>7. QED
    BY <1>1, <1>2, <1>3, <1>4, <1>5, <1>6 DEF Environment

(* Every step of the system falls under one of the four lemmas above.       *)
LEMMA TypeStep == TypeInv /\ [Next]_vars => TypeInv'
  <1> SUFFICES ASSUME TypeInv, [Next]_vars PROVE TypeInv'
    OBVIOUS
  <1>1. CASE \E t \in Threads : GatewayStep(t)
    BY <1>1, TypeGateway
  <1>2. CASE \E w \in Workers : CloudStep(w)
    BY <1>2, TypeCloud
  <1>3. CASE \E t \in Threads : (\E r \in Readings : Submit(t, r)) \/ OpenSession(t)
    BY <1>3, TypeCall
  <1>4. CASE \E w \in Workers, intact \in BOOLEAN :
               (\E t \in Threads : Deliver(t, w, intact)) \/ (\E m \in wire : Redeliver(m, w, intact))
    BY <1>4, TypeArrival
  <1>5. CASE Environment
    BY <1>5, TypeEnvironment
  <1>6. CASE UNCHANGED vars
    BY <1>6, TypeStutter
  <1>7. QED
    BY <1>1, <1>2, <1>3, <1>4, <1>5, <1>6 DEF Next

(* Type correctness: each variable keeps to its set, every thread that is in *)
(* send() holds a reading and a posted message, and every request in         *)
(* progress carries a message that was posted.                              *)
THEOREM TypeCorrect == Spec => []TypeOK
  <1>1. TypeInv => TypeOK
    BY DEF TypeInv
  <1>2. QED
    BY <1>1, TypeInit, TypeStep, PTL DEF Spec
-----------------------------------------------------------------------------
(* Counters: no message is sealed under a counter in use, and no session     *)
(* carries more messages than its budget.                                   *)

(* The uplink's invariant holds at the start.                               *)
LEMMA UplinkInit == Init => UplinkInv
  BY ConstantsAssumption, NoneAssumption
  DEF Init, UplinkInv, NonceUnique, WireInv, HandshakeInv, BudgetInv, SID

(* A step that only ends handshakes and leaves counters, sessions and        *)
(* messages alone keeps the uplink's invariant.                             *)
LEMMA UplinkUntouched ==
  ASSUME IInv,
         UNCHANGED <<next_counter, opened, wire, seen>>,
         current' \in {current, None},
         \A t \in Threads : hs'[t] \in {hs[t], None},
         \A t \in Threads : pc'[t] = "handshake" => pc[t] = "handshake",
         \A t \in Threads : hs'[t] # None => pc'[t] = pc[t]
  PROVE  UplinkInv'
  BY DEF IInv, UplinkInv, NonceUnique, WireInv, HandshakeInv, BudgetInv

(* Steps of a handler thread: a message takes the next counter, of a session *)
(* with budget left or of a session nobody has used.                        *)
LEMMA UplinkGateway ==
  ASSUME IInv, NEW t \in Threads, GatewayStep(t)
  PROVE  UplinkInv'
  <1> USE NoneAssumption DEF IInv, TypeInv
  <1>1. CASE NextMessage(t)
    <2>1. /\ current \in SID /\ wire \subseteq Message
          /\ next_counter \in [SID -> Nat] /\ pc[t] = "next"
          /\ pc' = [pc EXCEPT ![t] = "posted"] /\ DOMAIN pc = Threads
          /\ SESSION_MAX_MESSAGES \in Nat /\ opened \in Nat
      BY <1>1, ConstantsAssumption DEF TypeOK, NextMessage, Usable, SealAndPost
    <2>2. QED
      BY <1>1, <2>1
      DEF UplinkInv, NonceUnique, WireInv, HandshakeInv, BudgetInv, NextMessage, Usable,
          LockFree, SealAndPost, Message, SID, cloudVars
  <1>2. CASE BeginHandshake(t)
    BY <1>2
    DEF UplinkInv, NonceUnique, WireInv, HandshakeInv, BudgetInv, TypeOK, BeginHandshake, LockFree,
        uplinkVars, cloudVars
  <1>3. CASE FinishHandshake(t)
    BY <1>3, ConstantsAssumption
    DEF UplinkInv, NonceUnique, WireInv, HandshakeInv, BudgetInv, TypeOK, FinishHandshake,
        SealAndPost, Message, SID, cloudVars
  <1>4. CASE FailHandshake(t)
    BY <1>4, UplinkUntouched DEF TypeOK, FailHandshake, EndSend, uplinkVars, cloudVars
  <1>5. CASE Rejected401(t)
    BY <1>5, UplinkUntouched DEF TypeOK, HandshakeInv, UplinkInv, Rejected401, uplinkVars, cloudVars
  <1>6. CASE Invalidate(t)
    BY <1>6, UplinkUntouched DEF TypeOK, HandshakeInv, UplinkInv, Invalidate, cloudVars
  <1>7. CASE RaiseRejected(t)
    BY <1>7, UplinkUntouched DEF TypeOK, RaiseRejected, EndSend, uplinkVars, cloudVars
  <1>8. CASE Delivered(t)
    BY <1>8, UplinkUntouched DEF TypeOK, Delivered, EndSend, uplinkVars, cloudVars
  <1>9. CASE RaiseUnreachable(t)
    BY <1>9, UplinkUntouched DEF TypeOK, RaiseUnreachable, EndSend, uplinkVars
  <1>10. QED
    BY <1>1, <1>2, <1>3, <1>4, <1>5, <1>6, <1>7, <1>8, <1>9 DEF GatewayStep

(* Steps of a request thread: only counters of posted messages are recorded. *)
LEMMA UplinkCloud ==
  ASSUME IInv, NEW w \in Workers, CloudStep(w)
  PROVE  UplinkInv'
  <1> USE DEF IInv, TypeInv, uplinkVars, threadVars
  <1>1. CASE RecordCounter(w)
    <2>1. req[w].msg \in Message /\ req[w].msg.ctr < SESSION_MAX_MESSAGES
      BY <1>1, ConstantsAssumption
      DEF UplinkInv, WireInv, BudgetInv, RequestInv, RecordCounter, Authentic, TypeOK, Message, SID
    <2>2. QED
      BY <1>1, <2>1
      DEF UplinkInv, NonceUnique, WireInv, HandshakeInv, BudgetInv, RecordCounter, TypeOK, Message
  <1>2. CASE Lookup(w)
    BY <1>2, UplinkUntouched DEF Lookup
  <1>3. CASE RefuseUnknown(w) \/ RefuseTampered(w) \/ RefuseCounter(w)
    BY <1>3, UplinkUntouched DEF RefuseUnknown, RefuseTampered, RefuseCounter, Answer
  <1>4. CASE StoreReading(w) \/ RefuseInvalid(w)
    BY <1>4, UplinkUntouched DEF StoreReading, RefuseInvalid, Answer
  <1>5. QED
    BY <1>1, <1>2, <1>3, <1>4 DEF CloudStep

(* Calls, arrivals, clocks and restarts: a new session has not been used.    *)
LEMMA UplinkOther ==
  ASSUME IInv,
         \/ \E t \in Threads : (\E r \in Readings : Submit(t, r)) \/ OpenSession(t)
         \/ \E w \in Workers, intact \in BOOLEAN :
               (\E t \in Threads : Deliver(t, w, intact)) \/ (\E m \in wire : Redeliver(m, w, intact))
         \/ Environment
  PROVE  UplinkInv'
  <1> USE NoneAssumption DEF IInv, TypeInv, uplinkVars, threadVars, cloudVars
  <1>1. CASE \E t \in Threads, r \in Readings : Submit(t, r)
    BY <1>1, UplinkUntouched DEF TypeOK, UplinkInv, HandshakeInv, Submit
  <1>2. CASE \E t \in Threads : OpenSession(t)
    BY <1>2, InsertType
    DEF TypeOK, UplinkInv, NonceUnique, WireInv, HandshakeInv, BudgetInv, OpenSession, SID, Callers
  <1>3. CASE \E t \in Threads, w \in Workers, intact \in BOOLEAN : Deliver(t, w, intact)
    BY <1>3, UplinkUntouched DEF TypeOK, UplinkInv, HandshakeInv, Deliver
  <1>4. CASE \E w \in Workers, m \in wire, intact \in BOOLEAN : Redeliver(m, w, intact)
    BY <1>4, UplinkUntouched DEF Redeliver
  <1>5. CASE \/ \E s \in SID : RenewalDue(s) \/ SessionExpires(s)
             \/ \E c \in Callers : ReadClock(c)
    BY <1>5, UplinkUntouched DEF RenewalDue, SessionExpires, ReadClock
  <1>6. CASE \E c \in Others : OpenForeignSession(c)
    <2>1. opened' = opened + 1 /\ UNCHANGED <<current, next_counter, hs, pc, seen, wire>>
      BY <1>6, InsertType DEF OpenForeignSession, Callers
    <2>2. opened \in Nat
      BY DEF TypeOK
    <2>3. (NonceUnique /\ WireInv /\ BudgetInv)'
      BY <2>1 DEF UplinkInv, NonceUnique, WireInv, BudgetInv
    <2>4. HandshakeInv'
      BY <2>1, <2>2 DEF TypeOK, UplinkInv, HandshakeInv, SID
    <2>5. QED
      BY <2>3, <2>4 DEF UplinkInv
  <1>7. CASE CloudRestart
    BY <1>7, UplinkUntouched DEF CloudRestart
  <1>8. CASE GatewayRestart
    BY <1>8, UplinkUntouched DEF GatewayRestart
  <1>9. QED
    BY <1>1, <1>2, <1>3, <1>4, <1>5, <1>6, <1>7, <1>8 DEF Environment

(* The inductive invariant is kept by every step.                           *)
LEMMA InvStep == IInv /\ [Next]_vars => IInv'
  <1> SUFFICES ASSUME IInv, [Next]_vars PROVE UplinkInv'
    BY TypeStep DEF IInv
  <1>1. CASE \E t \in Threads : GatewayStep(t)
    BY <1>1, UplinkGateway
  <1>2. CASE \E w \in Workers : CloudStep(w)
    BY <1>2, UplinkCloud
  <1>3. CASE UNCHANGED vars
    BY <1>3 DEF vars, uplinkVars, threadVars, cloudVars, IInv, UplinkInv, NonceUnique, WireInv,
                HandshakeInv, BudgetInv
  <1>4. CASE Next /\ ~(\E t \in Threads : GatewayStep(t)) /\ ~(\E w \in Workers : CloudStep(w))
    BY <1>4, UplinkOther DEF Next
  <1>5. QED
    BY <1>1, <1>2, <1>3, <1>4

(* The inductive invariant holds in every reachable state.                  *)
LEMMA InvHolds == Spec => []IInv
  <1>1. Init => IInv
    BY TypeInit, UplinkInit DEF IInv
  <1>2. QED
    BY <1>1, InvStep, PTL DEF Spec

(* No two messages are ever sealed under one session with one counter: the   *)
(* nonces of AES-GCM never repeat, for any number of threads and messages.   *)
THEOREM NoncesNeverRepeat == Spec => []NonceUnique
  <1>1. IInv => NonceUnique
    BY DEF IInv, UplinkInv
  <1>2. QED
    BY <1>1, InvHolds, PTL

(* A set of numbers below n that lacks one of them has fewer than n elements. *)
LEMMA RoomLeft ==
  ASSUME NEW n \in Nat, NEW S \in SUBSET (0 .. n-1), NEW c \in 0 .. n-1, c \notin S
  PROVE  Cardinality(S) < n
  <1>1. IsFiniteSet(0 .. n-1) /\ Cardinality(0 .. n-1) = n
    BY FS_Interval
  <1>2. Cardinality(S) <= n /\ Cardinality(S) # n /\ IsFiniteSet(S)
    BY <1>1, FS_Subset
  <1>3. QED
    BY <1>1, <1>2, FS_CardinalityType

(* A message whose counter is new finds room left in its session.            *)
LEMMA NewCounterFits == IInv => CapNeverRefuses
  <1> SUFFICES ASSUME IInv, NEW w \in Workers, Authentic(w), ~Replayed(w)
               PROVE  ~Full(w)
    BY DEF CapNeverRefuses
  <1> DEFINE m == req[w].msg
             N == SESSION_MAX_MESSAGES
  <1>1. m \in Message /\ m \in wire
    BY DEF IInv, TypeInv, TypeOK, RequestInv, Authentic
  <1>2. N \in Nat \ {0} /\ m.sid \in SID /\ m.ctr \in 0 .. N-1
    BY <1>1, ConstantsAssumption
    DEF IInv, TypeInv, TypeOK, UplinkInv, WireInv, BudgetInv, Message, SID
  <1>3. seen[m.sid] \in SUBSET (0 .. N-1)
    BY <1>2 DEF IInv, TypeInv, TypeOK, UplinkInv, BudgetInv
  <1>4. m.ctr \notin seen[m.sid]
    BY DEF Replayed
  <1>5. Cardinality(seen[m.sid]) < N
    BY <1>2, <1>3, <1>4, RoomLeft
  <1>6. Cardinality(seen[m.sid]) \in Nat
    <2>1. IsFiniteSet(0 .. N-1)
      BY <1>2, FS_Interval
    <2>2. IsFiniteSet(seen[m.sid])
      BY <1>3, <2>1, FS_Subset
    <2>3. QED
      BY <2>2, FS_CardinalityType
  <1>7. QED
    BY <1>2, <1>5, <1>6 DEF Full

(* A genuine message that is not a replay never meets a full session, so the *)
(* cap of the cloud's replay set costs no reading.                          *)
THEOREM CapNeverCostsAReading == Spec => []CapNeverRefuses
  BY NewCounterFits, InvHolds, PTL
-----------------------------------------------------------------------------
(* The session table.                                                       *)

(* Every nonempty set of numbers has a least one.                           *)
LEMMA LeastNumber ==
  ASSUME NEW S \in SUBSET Nat, S # {}
  PROVE  \E x \in S : \A y \in S : x <= y
  <1>1. PICK x \in S : \A y \in S : ~(<<y, x>> \in OpToRel(<, Nat))
    BY NatLessThanWellFounded, WFMin
  <1>2. ASSUME NEW y \in S, y < x PROVE FALSE
    <2>1. <<y, x>> \in Nat \X Nat
      OBVIOUS
    <2>2. <<y, x>> \in OpToRel(<, Nat)
      BY <1>2, <2>1 DEF OpToRel
    <2>3. QED
      BY <1>1, <2>2
  <1>3. QED
    BY <1>2

(* A set of session ids is finite.                                          *)
LEMMA SubsetFinite ==
  ASSUME NEW n \in Nat, NEW L \in SUBSET (1..n)
  PROVE  IsFiniteSet(L) /\ Cardinality(L) \in Nat
  <1>1. IsFiniteSet(1..n)
    BY FS_Interval
  <1>2. IsFiniteSet(L)
    BY <1>1, FS_Subset
  <1>3. QED
    BY <1>2, FS_CardinalityType

(* The newest k of a set of sessions are at most k.                         *)
LEMMA NewestAreFew ==
  ASSUME NEW n \in Nat, NEW L \in SUBSET (1..n), NEW k \in Nat
  PROVE  IsFiniteSet(Newest(L, k)) /\ Cardinality(Newest(L, k)) <= k
  <1> DEFINE K == Newest(L, k)
  <1>1. K \in SUBSET L /\ K \in SUBSET Nat
    <2>1. \A u \in L : u \in Nat
      OBVIOUS
    <2>2. QED
      BY <2>1 DEF Newest
  <1>2. IsFiniteSet(L) /\ IsFiniteSet(K)
    BY <1>1, SubsetFinite, FS_Subset
  <1>3. ASSUME K = {} PROVE Cardinality(K) <= k
    BY <1>3, FS_EmptySet
  <1>4. ASSUME K # {} PROVE Cardinality(K) <= k
    <2>1. PICK x \in K : \A y \in K : x <= y
      <3> HIDE DEF K
      <3> QED BY <1>1, <1>4, LeastNumber
    <2> DEFINE U == {u \in L : u >= x}
    <2>2. K \in SUBSET U /\ U \in SUBSET L
      <3> HIDE DEF K
      <3> QED BY <1>1, <2>1
    <2>3. Cardinality(U) <= k
      BY <2>1 DEF Newest
    <2>4. IsFiniteSet(U)
      BY <1>2, <2>2, FS_Subset
    <2> HIDE DEF K, U
    <2>5. Cardinality(K) <= Cardinality(U)
      BY <2>2, <2>4, FS_Subset
    <2>6. Cardinality(K) \in Nat /\ Cardinality(U) \in Nat
      BY <1>2, <2>4, FS_CardinalityType
    <2>7. QED
      BY <2>3, <2>5, <2>6
  <1>5. QED
    BY <1>2, <1>3, <1>4

(* What a step does to the session table.                                   *)
TableStep ==
  \/ \E c \in Callers : InsertSession(c) /\ UNCHANGED expired
  \/ CloudRestart
  \/ \E u \in SID : SessionExpires(u)
  \/ \E c \in Callers : ReadClock(c)
  \/ /\ UNCHANGED <<opened, sessions, expired>>
     /\ \A c \in Callers : noted'[c] \in {noted[c], None}

LEMMA TableSteps == TypeOK /\ [Next]_vars => TableStep
  <1> SUFFICES ASSUME TypeOK, [Next]_vars PROVE TableStep
    OBVIOUS
  <1>1. CASE UNCHANGED <<opened, sessions, expired, noted>>
    BY <1>1 DEF TableStep
  <1>2. ASSUME NEW t \in Threads, GatewayStep(t) PROVE TableStep
    <2>1. CASE FailHandshake(t)
      BY <2>1 DEF FailHandshake, TypeOK, TableStep
    <2>2. CASE ~FailHandshake(t)
      BY <1>1, <1>2, <2>2
      DEF cloudVars, GatewayStep, NextMessage, BeginHandshake, FinishHandshake, Rejected401,
          Invalidate, RaiseRejected, Delivered, RaiseUnreachable
    <2>3. QED
      BY <2>1, <2>2
  <1>3. ASSUME NEW t \in Threads, OpenSession(t) PROVE TableStep
    BY <1>3 DEF OpenSession, Callers, TableStep
  <1>4. ASSUME NEW c \in Others, OpenForeignSession(c) PROVE TableStep
    BY <1>4 DEF OpenForeignSession, Callers, TableStep
  <1>5. ASSUME NEW w \in Workers, CloudStep(w) PROVE TableStep
    BY <1>1, <1>5
    DEF CloudStep, Lookup, RefuseUnknown, RefuseTampered, RefuseCounter, RecordCounter,
        StoreReading, RefuseInvalid, Answer
  <1>6. CASE GatewayRestart
    BY <1>6 DEF GatewayRestart, TableStep
  <1>7. QED
    BY <1>1, <1>2, <1>3, <1>4, <1>5, <1>6
    DEF Next, vars, cloudVars, Submit, Deliver, Redeliver, Environment, RenewalDue, TableStep

(* Inserting a session leaves at most MAX_SESSIONS of them.                 *)
LEMMA InsertBounded ==
  ASSUME TypeOK, NEW c \in Callers, InsertSession(c)
  PROVE  SessionsBounded'
  <1> DEFINE L == sessions \ noted[c]
             K == Newest(L, MAX_SESSIONS - 1)
  <1>1. opened \in Nat /\ L \in SUBSET (1..opened) /\ MAX_SESSIONS \in Nat \ {0}
    <2>1. opened \in Nat /\ sessions \subseteq 1..opened
      BY DEF TypeOK
    <2>2. QED
      BY <2>1, ConstantsAssumption
  <1>2. IsFiniteSet(K) /\ Cardinality(K) <= MAX_SESSIONS - 1 /\ Cardinality(K) \in Nat
    <2>1. MAX_SESSIONS - 1 \in Nat
      BY <1>1
    <2>2. IsFiniteSet(K) /\ Cardinality(K) <= MAX_SESSIONS - 1
      <3> HIDE DEF L
      <3> QED BY <1>1, <2>1, NewestAreFew
    <2> HIDE DEF K
    <2> QED BY <2>2, FS_CardinalityType
  <1>3. sessions' = K \cup {opened + 1}
    BY DEF InsertSession, AddSession
  <1>4. Cardinality(sessions') <= Cardinality(K) + 1 /\ Cardinality(sessions') \in Nat
    <2>1. PICK n : n = opened + 1
      OBVIOUS
    <2> HIDE DEF K
    <2>2. /\ IsFiniteSet(K \cup {n})
          /\ Cardinality(K \cup {n}) \in {Cardinality(K), Cardinality(K) + 1}
      BY <1>2, FS_AddElement
    <2>3. QED
      BY <1>2, <1>3, <2>1, <2>2
  <1>5. QED
    BY <1>1, <1>2, <1>4 DEF SessionsBounded

(* The table of the cloud never holds more than MAX_SESSIONS sessions,       *)
(* whatever the order of handshakes, expiries and restarts.                 *)
THEOREM TableBounded == Spec => []SessionsBounded
  <1>1. Init => SessionsBounded
    BY ConstantsAssumption, FS_EmptySet DEF Init, SessionsBounded
  <1>2. IInv /\ SessionsBounded /\ [Next]_vars => SessionsBounded'
    <2> SUFFICES ASSUME IInv, SessionsBounded, [Next]_vars PROVE SessionsBounded'
      OBVIOUS
    <2>1. CASE \E c \in Callers : InsertSession(c)
      BY <2>1, InsertBounded DEF IInv, TypeInv
    <2>2. CASE CloudRestart
      BY <2>2, ConstantsAssumption, FS_EmptySet DEF CloudRestart, SessionsBounded
    <2>3. CASE ~(\E c \in Callers : InsertSession(c)) /\ ~CloudRestart
      <3>1. UNCHANGED sessions
        BY <2>3, TableSteps DEF TableStep, SessionExpires, ReadClock, IInv, TypeInv
      <3>2. QED
        BY <3>1 DEF SessionsBounded
    <2>4. QED
      BY <2>1, <2>2, <2>3
  <1>3. QED
    BY <1>1, <1>2, InvHolds, PTL DEF Spec

(* A session that is not among the newest k has more than k from itself      *)
(* upwards, and no older one is among them either.                          *)
LEMMA OlderGoToo ==
  ASSUME NEW n \in Nat, NEW L \in SUBSET (1..n), NEW k \in Nat,
         NEW s \in L, s \notin Newest(L, k)
  PROVE  /\ Cardinality(L) > k
         /\ \A v \in Newest(L, k) : s < v
  <1> DEFINE U(v) == {u \in L : u >= v}
  <1>1. IsFiniteSet(L)
    BY SubsetFinite
  <1>2. \A v \in L : v \in Newest(L, k) <=> Cardinality(U(v)) <= k
    BY DEF Newest
  <1>3. ASSUME NEW B \in SUBSET L, U(s) \subseteq B
        PROVE  Cardinality(B) > k
    <2>1. U(s) \in SUBSET L
      OBVIOUS
    <2>2. ~(Cardinality(U(s)) <= k)
      BY <1>2
    <2> HIDE DEF U
    <2>3. IsFiniteSet(B) /\ IsFiniteSet(U(s)) /\ Cardinality(U(s)) <= Cardinality(B)
      BY <1>1, <1>3, <2>1, FS_Subset
    <2>4. Cardinality(B) \in Nat /\ Cardinality(U(s)) \in Nat
      BY <2>3, FS_CardinalityType
    <2>5. QED
      BY <2>2, <2>3, <2>4
  <1>4. ASSUME NEW v \in Newest(L, k), ~(s < v)
        PROVE  FALSE
    <2>1. v \in L /\ s \in Nat /\ v \in Nat /\ \A u \in L : u \in Nat
      <3>1. v \in L
        BY DEF Newest
      <3>2. QED
        BY <3>1
    <2>2. U(v) \in SUBSET L /\ U(s) \subseteq U(v)
      <3>1. \A u \in L : u >= s => u >= v
        BY <1>4, <2>1
      <3>2. QED
        BY <3>1
    <2>3. Cardinality(U(v)) <= k
      BY <1>2, <2>1
    <2>4. Cardinality(U(v)) > k
      <3> HIDE DEF U
      <3> QED BY <1>3, <2>2
    <2>5. IsFiniteSet(U(v))
      BY <1>1, <2>2, FS_Subset
    <2> HIDE DEF U
    <2>6. Cardinality(U(v)) \in Nat
      BY <2>5, FS_CardinalityType
    <2>7. QED
      BY <2>3, <2>4, <2>6
  <1>5. QED
    BY <1>3, <1>4

(* The sessions a caller has noted as expired have expired.                 *)
NotedInv == \A c \in Callers : noted[c] # None => noted[c] \subseteq expired

LEMMA NotedHolds == Spec => []NotedInv
  <1>1. Init => NotedInv
    BY DEF Init, NotedInv
  <1>2. IInv /\ NotedInv /\ [Next]_vars => NotedInv'
    <2> SUFFICES ASSUME IInv, NotedInv, [Next]_vars PROVE NotedInv'
      OBVIOUS
    <2> USE DEF NotedInv, IInv, TypeInv, TypeOK
    <2>1. ASSUME NEW c \in Callers, InsertSession(c), UNCHANGED expired PROVE NotedInv'
      BY <2>1 DEF InsertSession, AddSession
    <2>2. CASE CloudRestart
      BY <2>2 DEF CloudRestart
    <2>3. CASE \E u \in SID : SessionExpires(u)
      BY <2>3 DEF SessionExpires
    <2>4. CASE \E c \in Callers : ReadClock(c)
      BY <2>4 DEF ReadClock
    <2>5. CASE /\ UNCHANGED <<opened, sessions, expired>>
               /\ \A c \in Callers : noted'[c] \in {noted[c], None}
      BY <2>5
    <2>6. QED
      BY <2>1, <2>2, <2>3, <2>4, <2>5, TableSteps DEF TableStep
  <1>3. QED
    BY <1>1, <1>2, InvHolds, PTL DEF Spec

(* A new session costs a live one its place only when the table was full of  *)
(* sessions alive at the moment its request read the clock, and then the     *)
(* oldest ones go.                                                          *)
LEMMA InsertEvicts ==
  ASSUME TypeOK, NotedInv, NEW c \in Callers, InsertSession(c),
         NEW s \in (sessions \ expired) \ sessions'
  PROVE  /\ noted[c] # None /\ noted'[c] = None
         /\ Cardinality(sessions \ noted[c]) >= MAX_SESSIONS
         /\ \A u \in sessions' : s < u
  <1> DEFINE L == sessions \ noted[c]
             k == MAX_SESSIONS - 1
  <1>1. /\ opened \in Nat /\ L \in SUBSET (1..opened)
        /\ MAX_SESSIONS \in Nat \ {0} /\ k \in Nat
    <2>1. opened \in Nat /\ sessions \subseteq 1..opened
      BY DEF TypeOK
    <2>2. MAX_SESSIONS \in Nat \ {0}
      BY ConstantsAssumption
    <2>3. k \in Nat
      BY <2>2
    <2>4. L \in SUBSET (1..opened)
      BY <2>1
    <2>5. QED
      BY <2>1, <2>2, <2>3, <2>4
  <1>2. noted[c] # None /\ noted'[c] = None /\ sessions' = Newest(L, k) \cup {opened + 1}
    BY DEF InsertSession, AddSession, TypeOK
  <1>3. s \in L /\ s \notin Newest(L, k)
    BY <1>2 DEF NotedInv
  <1>4. Cardinality(L) > k /\ \A v \in Newest(L, k) : s < v
    <2> HIDE DEF L, k
    <2> QED BY <1>1, <1>3, OlderGoToo
  <1>5. Cardinality(L) \in Nat
    <2> HIDE DEF L
    <2> QED BY <1>1, SubsetFinite
  <1>6. s < opened + 1
    BY <1>1, <1>3
  <1>7. Cardinality(L) >= MAX_SESSIONS
    <2> HIDE DEF L
    <2> QED BY <1>1, <1>4, <1>5
  <1>8. QED
    BY <1>2, <1>4, <1>6, <1>7

(* A live session loses its place only with the process, or to a request that *)
(* found MAX_SESSIONS sessions alive when it read the clock, and then oldest  *)
(* first: never to one whose reading of the clock showed a place to be free.  *)
THEOREM OldestEvicted == Spec => EvictsOnlyWhenFull
  <1>1. IInv /\ NotedInv /\ [Next]_vars =>
          [\A s \in (sessions \ expired) \ sessions' :
             \/ crashes' # crashes
             \/ \E c \in Callers :
                  /\ noted[c] # None /\ noted'[c] = None
                  /\ Cardinality(sessions \ noted[c]) >= MAX_SESSIONS
                  /\ \A u \in sessions' : s < u]_vars
    <2> SUFFICES ASSUME IInv, NotedInv, Next, NEW s \in (sessions \ expired) \ sessions'
                 PROVE  \/ crashes' # crashes
                        \/ \E c \in Callers :
                             /\ noted[c] # None /\ noted'[c] = None
                             /\ Cardinality(sessions \ noted[c]) >= MAX_SESSIONS
                             /\ \A u \in sessions' : s < u
      OBVIOUS
    <2>1. CASE \E c \in Callers : InsertSession(c)
      BY <2>1, InsertEvicts DEF IInv, TypeInv
    <2>2. CASE CloudRestart
      BY <2>2 DEF CloudRestart, IInv, TypeInv, TypeOK
    <2>3. CASE ~(\E c \in Callers : InsertSession(c)) /\ ~CloudRestart
      <3>1. UNCHANGED sessions
        BY <2>3, TableSteps DEF TableStep, SessionExpires, ReadClock, IInv, TypeInv
      <3>2. QED
        BY <3>1
    <2>4. QED
      BY <2>1, <2>2, <2>3
  <1>2. QED
    BY <1>1, InvHolds, NotedHolds, PTL DEF Spec, EvictsOnlyWhenFull
-----------------------------------------------------------------------------
(* Replacing the session.                                                   *)

(* The request of a thread is the one it waits for, and there is one.        *)
AnswerInv ==
  /\ \A w \in Workers, t \in Threads : req[w] # Idle /\ req[w].to = t =>
       pc[t] = "waiting" /\ reply[t] = None /\ req[w].msg = msg[t]
  /\ \A v, w \in Workers : req[v] # Idle /\ req[w] # Idle /\ req[v].to = req[w].to
                              /\ req[v].to \in Threads => v = w
  /\ \A t \in Threads : reply[t] # None => pc[t] = "waiting"

(* A session in use has been opened, a session a 401 was about has left the  *)
(* table for good, and a handshake finds no usable session.                  *)
GoneInv ==
  /\ \A m \in wire : m.sid <= opened
  /\ \A t \in Threads : reply[t] = 401 \/ pc[t] = "invalidate" => ~Known(msg[t].sid)
  /\ \A t \in Threads : pc[t] = "handshake" => ~Usable

JInv == IInv /\ AnswerInv /\ GoneInv

(* The conversation between threads and requests keeps its shape: gateway.   *)
LEMMA AnswerGateway ==
  ASSUME JInv, NEW t \in Threads, GatewayStep(t)
  PROVE  AnswerInv'
  <1> USE NoneAssumption DEF JInv, IInv, TypeInv, TypeOK, AnswerInv, cloudVars
  <1>1. CASE NextMessage(t)
    BY <1>1 DEF NextMessage, SealAndPost
  <1>2. CASE BeginHandshake(t)
    BY <1>2 DEF BeginHandshake
  <1>3. CASE FinishHandshake(t)
    BY <1>3 DEF FinishHandshake, SealAndPost
  <1>4. CASE FailHandshake(t)
    BY <1>4 DEF FailHandshake, EndSend
  <1>5. CASE Rejected401(t)
    BY <1>5 DEF Rejected401
  <1>6. CASE Invalidate(t)
    BY <1>6 DEF Invalidate
  <1>7. CASE RaiseRejected(t)
    BY <1>7 DEF RaiseRejected, EndSend, Status
  <1>8. CASE Delivered(t)
    BY <1>8 DEF Delivered, EndSend
  <1>9. CASE RaiseUnreachable(t)
    BY <1>9 DEF RaiseUnreachable, EndSend, Hangup, Request, Idle
  <1>10. QED
    BY <1>1, <1>2, <1>3, <1>4, <1>5, <1>6, <1>7, <1>8, <1>9 DEF GatewayStep

(* The same for the cloud: an answer ends the request it answers.            *)
LEMMA AnswerCloud ==
  ASSUME JInv, NEW w \in Workers, CloudStep(w)
  PROVE  AnswerInv'
  <1> USE NoneAssumption DEF JInv, IInv, TypeInv, TypeOK, AnswerInv, threadVars
  <1>1. CASE Lookup(w)
    BY <1>1 DEF Lookup, Request, Idle
  <1>2. CASE RecordCounter(w)
    BY <1>2 DEF RecordCounter, Authentic, Request, Idle
  <1>3. ASSUME NEW status \in Status, req[w] # Idle, Answer(w, status) PROVE AnswerInv'
    BY <1>3 DEF Answer
  <1>4. QED
    BY <1>1, <1>2, <1>3
    DEF CloudStep, RefuseUnknown, RefuseTampered, RefuseCounter, StoreReading, RefuseInvalid,
        Authentic, Status

(* The same for calls, arrivals and the environment.                        *)
LEMMA AnswerOther ==
  ASSUME JInv, [Next]_vars,
         ~(\E t \in Threads : GatewayStep(t)), ~(\E w \in Workers : CloudStep(w))
  PROVE  AnswerInv'
  <1> USE NoneAssumption DEF JInv, IInv, TypeInv, TypeOK, AnswerInv, threadVars, cloudVars
  <1>1. CASE \E t \in Threads, r \in Readings : Submit(t, r)
    BY <1>1 DEF Submit
  <1>2. CASE \E t \in Threads, w \in Workers, intact \in BOOLEAN : Deliver(t, w, intact)
    BY <1>2 DEF Deliver, Idle
  <1>3. CASE \E w \in Workers, m \in wire, intact \in BOOLEAN : Redeliver(m, w, intact)
    BY <1>3 DEF Redeliver, Idle
  <1>4. CASE CloudRestart
    BY <1>4 DEF CloudRestart
  <1>5. CASE GatewayRestart
    BY <1>5 DEF GatewayRestart, Hangup, Request, Idle
  <1>6. CASE UNCHANGED <<pc, msg, reply, req>>
    BY <1>6
  <1>7. QED
    BY <1>1, <1>2, <1>3, <1>4, <1>5, <1>6
    DEF Next, vars, Environment, OpenSession, OpenForeignSession, ReadClock, RenewalDue,
        SessionExpires

(* A session that has left the table never comes back.                      *)
LEMMA GoneForGood ==
  ASSUME TypeInv, [Next]_vars, NEW s \in SID, s <= opened, ~Known(s)
  PROVE  opened <= opened' /\ ~Known(s)'
  <1>1. CASE \E c \in Callers : InsertSession(c) /\ UNCHANGED expired
    BY <1>1, InsertType DEF TypeInv, TypeOK, InsertSession, AddSession, Newest, Known, SID
  <1>2. CASE UNCHANGED <<opened, sessions, expired>>
    BY <1>2 DEF Known, TypeInv, TypeOK
  <1>3. CASE CloudRestart
    BY <1>3 DEF CloudRestart, Known, TypeInv, TypeOK
  <1>4. CASE \E u \in SID : SessionExpires(u)
    BY <1>4 DEF SessionExpires, Known, TypeInv, TypeOK
  <1>5. QED
    BY <1>1, <1>2, <1>3, <1>4, TableSteps DEF TableStep, ReadClock, TypeInv

(* A message posted is under a session that has been opened, and it is        *)
(* refused as unknown only once the session has left the table.             *)
LEMMA GoneGateway ==
  ASSUME JInv, NEW t \in Threads, GatewayStep(t)
  PROVE  GoneInv'
  <1> USE NoneAssumption DEF JInv, IInv, TypeInv, ThreadInv, TypeOK, GoneInv, AnswerInv, Known, Usable
  <1>1. CASE NextMessage(t)
    BY <1>1
    DEF NextMessage, SealAndPost, LockFree, UplinkInv, HandshakeInv, Message, uplinkVars, cloudVars
  <1>2. CASE BeginHandshake(t)
    BY <1>2 DEF BeginHandshake, uplinkVars, cloudVars
  <1>3. CASE FinishHandshake(t)
    BY <1>3 DEF FinishHandshake, SealAndPost, UplinkInv, HandshakeInv, Message, cloudVars
  <1>4. CASE FailHandshake(t)
    BY <1>4 DEF FailHandshake, EndSend, uplinkVars, cloudVars
  <1>5. CASE Rejected401(t)
    BY <1>5 DEF Rejected401, uplinkVars, cloudVars
  <1>6. CASE Invalidate(t)
    BY <1>6 DEF Invalidate, LockFree, cloudVars
  <1>7. CASE RaiseRejected(t)
    BY <1>7 DEF RaiseRejected, EndSend, uplinkVars, cloudVars
  <1>8. CASE Delivered(t)
    BY <1>8 DEF Delivered, EndSend, uplinkVars, cloudVars
  <1>9. CASE RaiseUnreachable(t)
    BY <1>9 DEF RaiseUnreachable, EndSend, uplinkVars
  <1>10. QED
    BY <1>1, <1>2, <1>3, <1>4, <1>5, <1>6, <1>7, <1>8, <1>9 DEF GatewayStep

(* The cloud answers 401 only for a session that is not in the table: a full *)
(* session never refuses a new counter.                                     *)
LEMMA GoneCloud ==
  ASSUME JInv, NEW w \in Workers, CloudStep(w)
  PROVE  GoneInv'
  <1> USE DEF uplinkVars, threadVars
  <1>1. ASSUME UNCHANGED <<uplinkVars, pc, msg, opened, sessions, expired, wire>>,
               \A t \in Threads : reply'[t] = 401 => reply[t] = 401 \/ ~Known(msg[t].sid)
        PROVE  GoneInv'
    BY <1>1 DEF JInv, GoneInv, Known, Usable
  <1>2. CASE Lookup(w) \/ RecordCounter(w)
    BY <1>1, <1>2 DEF Lookup, RecordCounter
  <1>3. CASE RefuseUnknown(w)
    <2>1. \A t \in Threads : req[w].to = t => req[w].msg = msg[t]
      BY <1>3 DEF RefuseUnknown, JInv, AnswerInv
    <2>2. QED
      BY <1>1, <1>3, <2>1 DEF RefuseUnknown, Answer
  <1>4. CASE RefuseCounter(w)
    <2>1. Replayed(w)
      BY <1>4, NewCounterFits DEF RefuseCounter, Fresh, CapNeverRefuses, JInv
    <2>2. Answer(w, 409)
      BY <1>4, <2>1 DEF RefuseCounter
    <2>3. QED
      BY <1>1, <2>2 DEF Answer
  <1>5. CASE RefuseTampered(w) \/ StoreReading(w) \/ RefuseInvalid(w)
    BY <1>1, <1>5 DEF RefuseTampered, StoreReading, RefuseInvalid, Answer
  <1>6. QED
    BY <1>2, <1>3, <1>4, <1>5 DEF CloudStep

(* Calls, arrivals, clocks and restarts bring no session back.               *)
LEMMA GoneOther ==
  ASSUME JInv, [Next]_vars,
         ~(\E t \in Threads : GatewayStep(t)), ~(\E w \in Workers : CloudStep(w))
  PROVE  GoneInv'
  <1>1. /\ wire' = wire
        /\ next_counter' = next_counter
        /\ due \subseteq due'
        /\ current' \in {current, None}
        /\ \A t \in Threads : /\ reply'[t] \in {reply[t], None}
                              /\ pc'[t] = "handshake" => pc[t] = "handshake"
                              /\ pc'[t] = "invalidate" => pc[t] = "invalidate"
                              /\ msg'[t] # msg[t] => reply'[t] = None /\ pc'[t] = "idle"
    BY DEF JInv, IInv, TypeInv, TypeOK, Next, vars, uplinkVars, threadVars, cloudVars, Environment,
           Submit, OpenSession, OpenForeignSession, ReadClock, Deliver, Redeliver, RenewalDue,
           SessionExpires, CloudRestart, GatewayRestart
  <1>2. \A m \in wire : m.sid \in SID /\ m.sid <= opened
    BY DEF JInv, IInv, TypeInv, TypeOK, GoneInv, Message
  <1>3. \A t \in Threads : reply[t] = 401 \/ pc[t] = "invalidate" => msg[t] \in wire
    BY NoneAssumption DEF JInv, IInv, TypeInv, ThreadInv, AnswerInv
  <1>4. opened <= opened'
    BY TableSteps, InsertType
    DEF JInv, IInv, TypeInv, TypeOK, TableStep, SessionExpires, CloudRestart, ReadClock
  <1>5. (\A m \in wire : m.sid <= opened)'
    BY <1>1, <1>2, <1>4, TypeStep DEF JInv, IInv, TypeInv, TypeOK, SID
  <1>6. ASSUME NEW t \in Threads, (reply[t] = 401 \/ pc[t] = "invalidate")'
        PROVE  ~Known(msg[t].sid)'
    <2>1. (reply[t] = 401 \/ pc[t] = "invalidate") /\ msg'[t] = msg[t]
      <3>1. 401 # None
        BY NoneAssumption
      <3>2. reply'[t] = 401 \/ pc'[t] = "invalidate"
        BY <1>6
      <3>3. QED
        BY <1>1, <3>1, <3>2
    <2>2. msg[t].sid \in SID /\ msg[t].sid <= opened /\ ~Known(msg[t].sid)
      BY <1>2, <1>3, <2>1 DEF JInv, GoneInv
    <2>3. QED
      BY <2>1, <2>2, GoneForGood DEF JInv, IInv
  <1>7. ASSUME NEW t \in Threads, (pc[t] = "handshake")'
        PROVE  ~Usable'
    <2>1. ~Usable
      BY <1>1, <1>7 DEF JInv, GoneInv
    <2>2. current' = None \/ (current' = current /\ next_counter' = next_counter /\ due \subseteq due')
      BY <1>1
    <2>3. QED
      BY <2>1, <2>2 DEF Usable
  <1>8. QED
    BY <1>5, <1>6, <1>7 DEF GoneInv

(* The strengthened invariant holds in every reachable state.               *)
LEMMA ReplaceInvHolds == Spec => []JInv
  <1>1. Init => JInv
    BY TypeInit, UplinkInit, NoneAssumption
    DEF Init, JInv, IInv, AnswerInv, GoneInv
  <1>2. JInv /\ [Next]_vars => JInv'
    <2> SUFFICES ASSUME JInv, [Next]_vars PROVE AnswerInv' /\ GoneInv'
      BY InvStep DEF JInv
    <2>1. CASE \E t \in Threads : GatewayStep(t)
      BY <2>1, AnswerGateway, GoneGateway
    <2>2. CASE \E w \in Workers : CloudStep(w)
      BY <2>2, AnswerCloud, GoneCloud
    <2>3. CASE ~(\E t \in Threads : GatewayStep(t)) /\ ~(\E w \in Workers : CloudStep(w))
      BY <2>3, AnswerOther, GoneOther
    <2>4. QED
      BY <2>1, <2>2, <2>3
  <1>3. QED
    BY <1>1, <1>2, PTL DEF Spec

(* The uplink lets go of its session only when the session is of no more use *)
(* or the process restarts: no late 401 and no second handshake costs a good *)
(* session, for any number of threads and any order of their steps.         *)
THEOREM GoodSessionKept == Spec => SessionReplacedOnlyWhenUseless
  <1>1. JInv /\ [Next]_vars =>
          [\A s \in SID : current = s /\ current' # s =>
             \/ s \in due
             \/ next_counter[s] >= SESSION_MAX_MESSAGES
             \/ ~Known(s)
             \/ crashes' # crashes]_vars
    <2> SUFFICES ASSUME JInv, Next, NEW s \in SID, current = s, current' # s
                 PROVE  \/ s \in due
                        \/ next_counter[s] >= SESSION_MAX_MESSAGES
                        \/ ~Known(s)
                        \/ crashes' # crashes
      OBVIOUS
    <2>1. s # None /\ next_counter[s] \in Nat /\ SESSION_MAX_MESSAGES \in Nat
      BY NoneAssumption, ConstantsAssumption DEF JInv, IInv, TypeInv, TypeOK, SID
    <2>2. CASE \E t \in Threads : FinishHandshake(t)
      <3>1. ~Usable
        BY <2>2 DEF FinishHandshake, JInv, GoneInv
      <3>2. QED
        BY <2>1, <3>1 DEF Usable
    <2>3. CASE \E t \in Threads : Invalidate(t)
      BY <2>3 DEF Invalidate, JInv, GoneInv
    <2>4. CASE GatewayRestart
      BY <2>4 DEF GatewayRestart, JInv, IInv, TypeInv, TypeOK
    <2>5. QED
      BY <2>2, <2>3, <2>4
      DEF Next, vars, uplinkVars, threadVars, cloudVars, GatewayStep, CloudStep, Environment,
          Submit, NextMessage, BeginHandshake, FailHandshake, Rejected401,
          RaiseRejected, Delivered, RaiseUnreachable, OpenSession,
          OpenForeignSession, ReadClock, Deliver, Redeliver, Lookup, RefuseUnknown, RefuseTampered,
          RefuseCounter, RecordCounter, StoreReading, RefuseInvalid, Answer, RenewalDue,
          SessionExpires, CloudRestart
  <1>2. QED
    BY <1>1, ReplaceInvHolds, PTL DEF Spec, SessionReplacedOnlyWhenUseless
-----------------------------------------------------------------------------
(* Counters used up.                                                        *)

(* A counter the cloud has recorded is one the gateway has handed out.       *)
RecordedInv == \A s \in SID : \A c \in seen[s] : c < next_counter[s]

(* Steps of a handler thread record no counter, and what they post has a     *)
(* counter nobody has recorded.                                             *)
LEMMA BurnedGateway ==
  ASSUME IInv, RecordedInv, BurnedOnlyByItsMessage, NEW t \in Threads, GatewayStep(t)
  PROVE  RecordedInv' /\ BurnedOnlyByItsMessage'
  <1>1. /\ UNCHANGED <<seen, stored, crashes>>
        /\ \A w \in Workers : req[w] # Idle /\ req[w].pc = "store" =>
             req'[w] # Idle /\ req'[w].pc = "store" /\ req'[w].msg = req[w].msg
    <2> USE DEF IInv, TypeInv, TypeOK, Request, Idle, uplinkVars, cloudVars
    <2>1. CASE RaiseUnreachable(t)
      BY <2>1 DEF RaiseUnreachable, Hangup
    <2>2. CASE ~RaiseUnreachable(t)
      BY <2>2
      DEF GatewayStep, NextMessage, BeginHandshake, FinishHandshake, FailHandshake, Rejected401,
          Invalidate, RaiseRejected, Delivered
    <2>3. QED
      BY <2>1, <2>2
  <1>2. \/ UNCHANGED <<wire, next_counter>>
        \/ \E s \in SID : SealAndPost(t, s)
    BY NoneAssumption
    DEF IInv, TypeInv, TypeOK, GatewayStep, NextMessage, BeginHandshake, FinishHandshake,
        FailHandshake, Rejected401, Invalidate, RaiseRejected, Delivered, RaiseUnreachable,
        Usable, uplinkVars
  <1>3. CASE UNCHANGED <<wire, next_counter>>
    BY <1>1, <1>3 DEF RecordedInv, BurnedOnlyByItsMessage
  <1>4. CASE \E s \in SID : SealAndPost(t, s)
    <2>1. PICK s \in SID : SealAndPost(t, s)
      BY <1>4
    <2>2. /\ next_counter[s] \in Nat
          /\ next_counter[s] \notin seen[s]
      BY DEF RecordedInv, IInv, TypeInv, TypeOK
    <2>3. next_counter' = [next_counter EXCEPT ![s] = @ + 1]
      BY <2>1 DEF SealAndPost
    <2>4. RecordedInv'
      BY <1>1, <2>2, <2>3 DEF RecordedInv, IInv, TypeInv, TypeOK
    <2>5. \A m \in wire' : m \in wire \/ (m.sid = s /\ m.ctr = next_counter[s])
      BY <2>1 DEF SealAndPost
    <2>6. \A m \in wire' : m.ctr \in seen'[m.sid] => m \in wire /\ m.ctr \in seen[m.sid]
      BY <1>1, <2>2, <2>5
    <2>7. BurnedOnlyByItsMessage'
      BY <1>1, <2>6 DEF BurnedOnlyByItsMessage
    <2>8. QED
      BY <2>4, <2>7
  <1>5. QED
    BY <1>2, <1>3, <1>4

(* Steps of a request thread: a counter is recorded for the one message that *)
(* carries it, and that request stores its reading or finds it invalid.     *)
LEMMA BurnedCloud ==
  ASSUME IInv, RecordedInv, BurnedOnlyByItsMessage, NEW w \in Workers, CloudStep(w)
  PROVE  RecordedInv' /\ BurnedOnlyByItsMessage'
  <1> USE DEF IInv, TypeInv, TypeOK
  <1>1. UNCHANGED <<wire, next_counter, crashes>>
    BY DEF CloudStep, Lookup, RefuseUnknown, RefuseTampered, RefuseCounter, RecordCounter,
           StoreReading, RefuseInvalid, Answer, uplinkVars
  <1>2. CASE RecordCounter(w)
    <2> DEFINE n == req[w].msg
    <2>1. n \in wire /\ n \in Message /\ n.ctr < next_counter[n.sid] /\ n.sid \in SID
      BY <1>2 DEF RecordCounter, Authentic, RequestInv, UplinkInv, WireInv, Message
    <2>2. /\ seen' = [seen EXCEPT ![n.sid] = @ \cup {n.ctr}]
          /\ req' = [req EXCEPT ![w].pc = "store"]
          /\ UNCHANGED stored
          /\ req[w] # Idle /\ req[w].pc = "open"
      BY <1>2 DEF RecordCounter, Authentic
    <2>3. RecordedInv'
      BY <1>1, <2>1, <2>2 DEF RecordedInv
    <2>4. /\ req'[w] # Idle /\ req'[w].pc = "store" /\ req'[w].msg = n
          /\ \A v \in Workers \ {w} : req'[v] = req[v]
      BY <2>2 DEF Request, Idle
    <2>5. \A m \in wire : m.sid \in SID /\ (m.sid = n.sid /\ m.ctr = n.ctr => m = n)
      BY <2>1 DEF UplinkInv, NonceUnique, Message
    <2>6. \A m \in wire : m.ctr \in seen'[m.sid] => m = n \/ m.ctr \in seen[m.sid]
      <3> HIDE DEF n
      <3> QED BY <2>1, <2>2, <2>5
    <2>7. BurnedOnlyByItsMessage'
      <3> SUFFICES ASSUME NEW m \in wire, m.ctr \in seen'[m.sid]
                   PROVE  \/ stored[m.reading] > 0
                          \/ m.reading \notin Valid
                          \/ \E v \in Workers : req'[v] # Idle /\ req'[v].pc = "store" /\ req'[v].msg = m
                          \/ crashes > 0
        BY <1>1, <2>2 DEF BurnedOnlyByItsMessage
      <3>1. CASE m = n
        BY <2>4, <3>1
      <3>2. CASE m.ctr \in seen[m.sid]
        BY <2>2, <2>4, <3>2 DEF BurnedOnlyByItsMessage
      <3>3. QED
        BY <2>6, <3>1, <3>2
    <2>8. QED
      BY <2>3, <2>7
  <1>3. CASE StoreReading(w)
    <2>1. /\ req[w] \in Request /\ req[w].msg.reading \in Readings
          /\ stored' = [stored EXCEPT ![req[w].msg.reading] = @ + 1]
          /\ req' = [req EXCEPT ![w] = Idle]
          /\ UNCHANGED seen
      BY <1>3 DEF StoreReading, Answer, Request, Message
    <2>2. /\ stored'[req[w].msg.reading] > 0
          /\ \A r \in Readings : stored[r] > 0 => stored'[r] > 0
      BY <2>1
    <2>3. RecordedInv'
      BY <1>1, <2>1 DEF RecordedInv
    <2>4. BurnedOnlyByItsMessage'
      BY <1>1, <2>1, <2>2 DEF BurnedOnlyByItsMessage, Message
    <2>5. QED
      BY <2>3, <2>4
  <1>4. CASE RefuseInvalid(w)
    <2>1. /\ req[w].msg.reading \notin Valid
          /\ req' = [req EXCEPT ![w] = Idle]
          /\ UNCHANGED <<seen, stored>>
      BY <1>4 DEF RefuseInvalid, Answer
    <2>2. QED
      BY <1>1, <2>1 DEF RecordedInv, BurnedOnlyByItsMessage
  <1>5. CASE Lookup(w) \/ RefuseUnknown(w) \/ RefuseTampered(w) \/ RefuseCounter(w)
    <2>1. /\ UNCHANGED <<seen, stored>>
          /\ req[w].pc # "store"
          /\ \A v \in Workers \ {w} : req'[v] = req[v]
      BY <1>5 DEF Lookup, RefuseUnknown, RefuseTampered, RefuseCounter, Answer, Authentic
    <2>2. QED
      BY <1>1, <2>1 DEF RecordedInv, BurnedOnlyByItsMessage
  <1>6. QED
    BY <1>2, <1>3, <1>4, <1>5 DEF CloudStep

(* Calls, arrivals, clocks and restarts.                                    *)
LEMMA BurnedOther ==
  ASSUME IInv, RecordedInv, BurnedOnlyByItsMessage, [Next]_vars,
         ~(\E t \in Threads : GatewayStep(t)), ~(\E w \in Workers : CloudStep(w))
  PROVE  RecordedInv' /\ BurnedOnlyByItsMessage'
  <1> USE DEF IInv, TypeInv, TypeOK
  <1>1. UNCHANGED <<wire, next_counter, seen, stored>>
    BY DEF Next, vars, uplinkVars, threadVars, cloudVars, Environment, Submit, OpenSession,
           OpenForeignSession, ReadClock, Deliver, Redeliver, RenewalDue, SessionExpires,
           CloudRestart, GatewayRestart
  <1>2. crashes' = crashes \/ crashes' > 0
    BY DEF Next, vars, uplinkVars, threadVars, cloudVars, Environment, Submit, OpenSession,
           OpenForeignSession, ReadClock, Deliver, Redeliver, RenewalDue, SessionExpires,
           CloudRestart, GatewayRestart
  <1>3. crashes' > 0 \/ \A w \in Workers : req[w] # Idle => req'[w] = req[w]
    BY DEF Next, vars, uplinkVars, threadVars, cloudVars, Environment, Submit, OpenSession,
           OpenForeignSession, ReadClock, Deliver, Redeliver, RenewalDue, SessionExpires,
           CloudRestart, GatewayRestart
  <1>4. RecordedInv'
    BY <1>1 DEF RecordedInv
  <1>5. BurnedOnlyByItsMessage'
    BY <1>1, <1>2, <1>3 DEF BurnedOnlyByItsMessage
  <1>6. QED
    BY <1>4, <1>5

(* No altered, late or repeated message uses up the counter of another one:  *)
(* as long as the cloud runs, the reading of a recorded counter is stored,   *)
(* about to be, or invalid.                                                 *)
THEOREM CountersBurnedFairly == Spec => []BurnedOnlyByItsMessage
  <1>1. Init => RecordedInv /\ BurnedOnlyByItsMessage
    BY DEF Init, RecordedInv, BurnedOnlyByItsMessage
  <1>2. IInv /\ RecordedInv /\ BurnedOnlyByItsMessage /\ [Next]_vars
          => RecordedInv' /\ BurnedOnlyByItsMessage'
    BY BurnedGateway, BurnedCloud, BurnedOther
  <1>3. QED
    BY <1>1, <1>2, InvHolds, PTL DEF Spec
-----------------------------------------------------------------------------
(* Copies of a message.                                                     *)

Sealed(r) == {m \in wire : m.reading = r}

(* The messages of a reading whose counter has been recorded, and the        *)
(* requests that have recorded one and not stored the reading yet.          *)
Recorded(r) == {m \in wire : m.reading = r /\ m.ctr \in seen[m.sid]}
Storing(r) == {w \in Workers : req[w] # Idle /\ req[w].pc = "store" /\ req[w].msg.reading = r}

(* Every time a reading is stored, or is about to be, a counter was recorded *)
(* that no other time used.                                                 *)
CopiesInv ==
  /\ IsFiniteSet(wire)
  /\ \A r \in Readings : stored[r] + Cardinality(Storing(r)) <= Cardinality(Recorded(r))

(* The two sets are finite, and their sizes numbers.                        *)
LEMMA CopiesFinite ==
  ASSUME IsFiniteSet(wire), NEW r
  PROVE  /\ IsFiniteSet(Recorded(r)) /\ Cardinality(Recorded(r)) \in Nat
         /\ IsFiniteSet(Storing(r)) /\ Cardinality(Storing(r)) \in Nat
         /\ IsFiniteSet(Sealed(r)) /\ Cardinality(Sealed(r)) \in Nat
         /\ Cardinality(Recorded(r)) <= Cardinality(Sealed(r))
  <1>1. Recorded(r) \subseteq Sealed(r) /\ Sealed(r) \subseteq wire /\ Storing(r) \subseteq Workers
    BY DEF Recorded, Sealed, Storing
  <1>2. IsFiniteSet(Sealed(r)) /\ IsFiniteSet(Storing(r))
    BY <1>1, ConstantsAssumption, FS_Subset
  <1>3. IsFiniteSet(Recorded(r)) /\ Cardinality(Recorded(r)) <= Cardinality(Sealed(r))
    BY <1>1, <1>2, FS_Subset
  <1>4. QED
    BY <1>2, <1>3, FS_CardinalityType

(* A step that stores nothing and begins no storing keeps the count.         *)
LEMMA CopiesUntouched ==
  ASSUME TypeInv, TypeInv', CopiesInv, UNCHANGED stored,
         wire \subseteq wire', IsFiniteSet(wire'),
         \A s \in SID : seen[s] \subseteq seen'[s],
         \A w \in Workers : req'[w] # Idle /\ req'[w].pc = "store" =>
           \/ req'[w] = req[w]
           \/ req[w] # Idle /\ req[w].pc = "store" /\ req'[w].msg = req[w].msg
  PROVE  CopiesInv'
  <1> SUFFICES ASSUME NEW r \in Readings
               PROVE  stored[r] + Cardinality(Storing(r))' <= Cardinality(Recorded(r))'
    BY DEF CopiesInv
  <1>1. /\ Storing(r)' \subseteq Storing(r) /\ IsFiniteSet(Storing(r))
        /\ Cardinality(Storing(r)) \in Nat
    BY CopiesFinite DEF Storing, CopiesInv
  <1>2. Cardinality(Storing(r))' <= Cardinality(Storing(r)) /\ Cardinality(Storing(r))' \in Nat
    BY <1>1, FS_Subset, FS_CardinalityType
  <1>3. \A m \in wire : m.sid \in SID
    BY DEF TypeInv, TypeOK, Message
  <1>4. Recorded(r) \subseteq Recorded(r)'
    BY <1>3 DEF Recorded
  <1>5. IsFiniteSet(Recorded(r)') /\ Cardinality(Recorded(r)') \in Nat
    <2>1. Recorded(r)' \subseteq wire'
      BY DEF Recorded
    <2>2. QED
      BY <2>1, FS_Subset, FS_CardinalityType
  <1>6. Cardinality(Recorded(r)) <= Cardinality(Recorded(r)') /\ Cardinality(Recorded(r)) \in Nat
    BY <1>4, <1>5, CopiesFinite, FS_Subset DEF CopiesInv
  <1>7. stored[r] \in Nat /\ stored[r] + Cardinality(Storing(r)) <= Cardinality(Recorded(r))
    BY DEF CopiesInv, TypeInv, TypeOK
  <1>8. QED
    BY <1>1, <1>2, <1>5, <1>6, <1>7

(* Steps of a handler thread: a message more may be posted.                 *)
LEMMA CopiesGateway ==
  ASSUME TypeInv, TypeInv', CopiesInv, NEW t \in Threads, GatewayStep(t)
  PROVE  CopiesInv'
  <1>1. /\ UNCHANGED <<seen, stored>>
        /\ \A w \in Workers :
             \/ req'[w] = req[w]
             \/ req[w] # Idle /\ req'[w].pc = req[w].pc /\ req'[w].msg = req[w].msg
    <2> USE DEF TypeInv, TypeOK, Request, Idle, uplinkVars, cloudVars
    <2>1. CASE RaiseUnreachable(t)
      BY <2>1 DEF RaiseUnreachable, Hangup
    <2>2. CASE ~RaiseUnreachable(t)
      BY <2>2
      DEF GatewayStep, NextMessage, BeginHandshake, FinishHandshake, FailHandshake, Rejected401,
          Invalidate, RaiseRejected, Delivered
    <2>3. QED
      BY <2>1, <2>2
  <1>2. wire' = wire \/ \E m : wire' = wire \cup {m}
    BY DEF GatewayStep, NextMessage, BeginHandshake, FinishHandshake, FailHandshake, Rejected401,
           Invalidate, RaiseRejected, Delivered, RaiseUnreachable, SealAndPost
  <1>3. wire \subseteq wire' /\ IsFiniteSet(wire')
    BY <1>2, FS_AddElement DEF CopiesInv
  <1>4. QED
    BY <1>1, <1>3, CopiesUntouched

(* A request that records the counter of its message is one more about to    *)
(* store its reading, and the message one more whose counter is recorded.    *)
LEMMA CopiesRecord ==
  ASSUME TypeInv, TypeInv', CopiesInv, NEW w \in Workers, RecordCounter(w)
  PROVE  CopiesInv'
  <1> DEFINE n == req[w].msg
  <1>1. n \in wire /\ n \in Message /\ n.sid \in SID /\ n.ctr \notin seen[n.sid]
    BY DEF RecordCounter, Authentic, Fresh, Replayed, TypeInv, TypeOK, RequestInv, Message
  <1>2. /\ seen' = [seen EXCEPT ![n.sid] = @ \cup {n.ctr}]
        /\ req' = [req EXCEPT ![w].pc = "store"]
        /\ UNCHANGED <<stored, wire>>
        /\ req[w] # Idle /\ req[w].pc = "open"
    BY DEF RecordCounter, Authentic
  <1>3. /\ req'[w] # Idle /\ req'[w].pc = "store" /\ req'[w].msg = n
        /\ \A v \in Workers \ {w} : req'[v] = req[v]
    BY <1>2 DEF TypeInv, TypeOK, Request, Idle
  <1>4. /\ \A m \in wire : m.sid \in SID
        /\ \A s \in SID : seen[s] \subseteq seen'[s]
        /\ n.ctr \in seen'[n.sid]
    <2>1. wire \subseteq Message /\ seen \in [SID -> SUBSET Nat]
      BY DEF TypeInv, TypeOK
    <2> HIDE DEF n
    <2> QED BY <1>1, <1>2, <2>1 DEF Message
  <1>5. IsFiniteSet(wire) /\ IsFiniteSet(wire')
    BY <1>2 DEF CopiesInv
  <1> SUFFICES ASSUME NEW r \in Readings
               PROVE  stored'[r] + Cardinality(Storing(r))' <= Cardinality(Recorded(r))'
    BY <1>5 DEF CopiesInv
  <1>6. /\ stored'[r] = stored[r] /\ stored[r] \in Nat
        /\ stored[r] + Cardinality(Storing(r)) <= Cardinality(Recorded(r))
    BY <1>2 DEF CopiesInv, TypeInv, TypeOK
  <1>7. /\ IsFiniteSet(Storing(r)) /\ Cardinality(Storing(r)) \in Nat
        /\ IsFiniteSet(Recorded(r)) /\ Cardinality(Recorded(r)) \in Nat
    BY <1>5, CopiesFinite
  <1>8. IsFiniteSet(Recorded(r)') /\ Cardinality(Recorded(r)') \in Nat
    <2>1. Recorded(r)' \subseteq wire'
      BY DEF Recorded
    <2>2. QED
      BY <1>5, <2>1, FS_Subset, FS_CardinalityType
  <1>9. Recorded(r) \subseteq Recorded(r)'
    BY <1>2, <1>4 DEF Recorded
  <1>10. CASE n.reading = r
    <2>1. w \notin Storing(r) /\ Storing(r)' = Storing(r) \cup {w}
      BY <1>2, <1>3, <1>10 DEF Storing
    <2>2. n \notin Recorded(r) /\ n \in Recorded(r)'
      BY <1>1, <1>2, <1>4, <1>10 DEF Recorded
    <2>3. Cardinality(Storing(r)') = Cardinality(Storing(r)) + 1
      BY <1>7, <2>1, FS_AddElement
    <2> HIDE DEF n
    <2>4. PICK x : x = n
      OBVIOUS
    <2>5. Cardinality(Recorded(r) \cup {x}) = Cardinality(Recorded(r)) + 1
      BY <1>7, <2>2, <2>4, FS_AddElement
    <2>6. Cardinality(Recorded(r) \cup {x}) <= Cardinality(Recorded(r)')
      <3>1. Recorded(r) \cup {x} \subseteq Recorded(r)'
        BY <1>9, <2>2, <2>4
      <3>2. QED
        BY <1>8, <3>1, FS_Subset
    <2>7. QED
      BY <1>6, <1>7, <1>8, <2>3, <2>5, <2>6
  <1>11. CASE n.reading # r
    <2>1. Storing(r)' = Storing(r)
      BY <1>2, <1>3, <1>11 DEF Storing
    <2>2. Cardinality(Recorded(r)) <= Cardinality(Recorded(r)')
      BY <1>8, <1>9, FS_Subset
    <2>3. QED
      BY <1>6, <1>7, <1>8, <2>1, <2>2
  <1>12. QED
    BY <1>10, <1>11

(* A request that stores its reading is one less about to.                  *)
LEMMA CopiesStore ==
  ASSUME TypeInv, TypeInv', CopiesInv, NEW w \in Workers, StoreReading(w)
  PROVE  CopiesInv'
  <1> DEFINE n == req[w].msg
  <1>1. /\ req[w] # Idle /\ req[w].pc = "store"
        /\ req' = [req EXCEPT ![w] = Idle]
        /\ stored' = [stored EXCEPT ![n.reading] = @ + 1]
        /\ UNCHANGED <<seen, wire>>
    BY DEF StoreReading, Answer
  <1>2. req'[w] = Idle /\ \A v \in Workers \ {w} : req'[v] = req[v]
    BY <1>1 DEF TypeInv, TypeOK
  <1> SUFFICES ASSUME NEW r \in Readings
               PROVE  stored'[r] + Cardinality(Storing(r))' <= Cardinality(Recorded(r))'
    BY <1>1 DEF CopiesInv
  <1>3. /\ stored[r] \in Nat
        /\ stored[r] + Cardinality(Storing(r)) <= Cardinality(Recorded(r))
        /\ IsFiniteSet(Storing(r)) /\ Cardinality(Storing(r)) \in Nat
        /\ Cardinality(Recorded(r)) \in Nat
    BY CopiesFinite DEF CopiesInv, TypeInv, TypeOK
  <1>4. Recorded(r)' = Recorded(r)
    BY <1>1 DEF Recorded
  <1>5. CASE n.reading = r
    <2>1. stored'[r] = stored[r] + 1
      BY <1>1, <1>5 DEF TypeInv, TypeOK
    <2>2. w \in Storing(r) /\ Storing(r)' = Storing(r) \ {w}
      BY <1>1, <1>2, <1>5 DEF Storing
    <2>3. Cardinality(Storing(r)') = Cardinality(Storing(r)) - 1
      BY <1>3, <2>2, FS_RemoveElement
    <2>4. QED
      BY <1>3, <1>4, <2>1, <2>3
  <1>6. CASE n.reading # r
    <2>1. stored'[r] = stored[r]
      BY <1>1, <1>6 DEF TypeInv, TypeOK
    <2>2. Storing(r)' = Storing(r)
      BY <1>1, <1>2, <1>6 DEF Storing
    <2>3. QED
      BY <1>3, <1>4, <2>1, <2>2
  <1>7. QED
    BY <1>5, <1>6

(* Every other step neither records a counter nor stores a reading.          *)
LEMMA CopiesOther ==
  ASSUME TypeInv, TypeInv', CopiesInv, [Next]_vars,
         ~(\E t \in Threads : GatewayStep(t)),
         ~(\E w \in Workers : RecordCounter(w) \/ StoreReading(w))
  PROVE  CopiesInv'
  <1>1. UNCHANGED <<seen, stored, wire>>
    BY DEF Next, vars, uplinkVars, threadVars, cloudVars, CloudStep, Environment, Submit,
           OpenSession, OpenForeignSession, ReadClock, Deliver, Redeliver, RenewalDue,
           SessionExpires, CloudRestart, GatewayRestart, Lookup, RefuseUnknown, RefuseTampered,
           RefuseCounter, RefuseInvalid, Answer
  <1>2. \A w \in Workers : req'[w] # Idle /\ req'[w].pc = "store" =>
           \/ req'[w] = req[w]
           \/ (req[w] # Idle /\ req[w].pc = "store" /\ req'[w].msg = req[w].msg)
    <2> USE DEF TypeInv, TypeOK, Request, Idle
    <2>1. CASE UNCHANGED req
      BY <2>1
    <2>2. ASSUME NEW v \in Workers, \E status \in Status : Answer(v, status)
          PROVE  \A w \in Workers : req'[w] # Idle /\ req'[w].pc = "store" => req'[w] = req[w]
      BY <2>2 DEF Answer
    <2>3. CASE \E t \in Threads, v \in Workers, intact \in BOOLEAN : Deliver(t, v, intact)
      BY <2>3 DEF Deliver
    <2>4. CASE \E v \in Workers, m \in wire, intact \in BOOLEAN : Redeliver(m, v, intact)
      BY <2>4 DEF Redeliver
    <2>5. CASE \E v \in Workers : Lookup(v)
      BY <2>5 DEF Lookup
    <2>6. CASE CloudRestart
      BY <2>6 DEF CloudRestart
    <2>7. CASE GatewayRestart
      BY <2>7 DEF GatewayRestart, Hangup
    <2> HIDE DEF TypeInv, TypeOK, Request, Idle
    <2>8. QED
      BY <2>1, <2>2, <2>3, <2>4, <2>5, <2>6, <2>7
      DEF Next, vars, cloudVars, CloudStep, Environment, Submit, OpenSession, OpenForeignSession,
          ReadClock, RenewalDue, SessionExpires, RefuseUnknown, RefuseTampered, RefuseCounter,
          RefuseInvalid, Status
  <1>3. wire \subseteq wire' /\ IsFiniteSet(wire')
    BY <1>1 DEF CopiesInv
  <1>4. QED
    BY <1>1, <1>2, <1>3, CopiesUntouched

(* No copy of a message is stored twice: a reading is stored at most as often *)
(* as the gateway has sealed it, whatever is duplicated, delayed or altered,  *)
(* and through evictions and restarts of both processes.                    *)
THEOREM CopiesStoredOnce == Spec => []StoredOncePerMessage
  <1>1. Init => CopiesInv
    <2> SUFFICES ASSUME Init, NEW r \in Readings
                 PROVE  /\ IsFiniteSet(wire)
                        /\ stored[r] + Cardinality(Storing(r)) <= Cardinality(Recorded(r))
      BY FS_EmptySet DEF Init, CopiesInv
    <2>1. wire = {} /\ stored[r] = 0 /\ Storing(r) = {} /\ Recorded(r) = {}
      BY DEF Init, Storing, Recorded
    <2>2. QED
      BY <2>1, FS_EmptySet
  <1>2. TypeInv /\ CopiesInv /\ [Next]_vars => CopiesInv'
    BY TypeStep, CopiesGateway, CopiesRecord, CopiesStore, CopiesOther
  <1>3. TypeInv /\ CopiesInv => StoredOncePerMessage
    <2> SUFFICES ASSUME TypeInv, CopiesInv, NEW r \in Readings
                 PROVE  stored[r] <= Cardinality(Sealed(r))
      BY DEF StoredOncePerMessage, Sealed
    <2>1. stored[r] \in Nat /\ stored[r] + Cardinality(Storing(r)) <= Cardinality(Recorded(r))
      BY DEF CopiesInv, TypeInv, TypeOK
    <2>2. QED
      BY <2>1, CopiesFinite DEF CopiesInv
  <1>4. QED
    BY <1>1, <1>2, <1>3, TypeInit, TypeStep, PTL DEF Spec
-----------------------------------------------------------------------------
(* SealedUplink implements ReadingDelivery as long as the network does not   *)
(* duplicate requests, for every number of threads, workers, readings and    *)
(* sessions and whatever else goes wrong.                                   *)

(* Request threads at work on reading r.                                    *)
Carriers(r) == {w \in Workers : req[w] # Idle /\ req[w].msg.reading = r}

(* One thread sends a reading, and until it is done the reading is in        *)
(* progress for the gateway.                                                *)
JobInv ==
  /\ \A t \in Threads : pc[t] = "idle" => job[t] = None
  /\ \A t \in Threads : job[t] # None => outcome[job[t]] = "sending"
  /\ \A t, u \in Threads : job[t] # None /\ job[t] = job[u] => t = u
  /\ \A t \in Threads : pc[t] \in {"posted", "waiting", "invalidate"} =>
       msg[t].reading = job[t]
  /\ \A m \in wire : outcome[m.reading] # "new"

(* At most one request thread works on a reading, and on no reading that has *)
(* been stored; a thread that is about to post has no request under way; the *)
(* answer 202 means stored and every other answer means not stored.         *)
OnceInv ==
  /\ \A r \in Readings : stored[r] \in {0, 1}
  /\ \A r \in Readings : outcome[r] = "new" => stored[r] = 0
  /\ \A r \in Readings : \A v, w \in Carriers(r) : v = w
  /\ \A r \in Readings : Carriers(r) # {} => stored[r] = 0
  /\ \A t \in Threads : pc[t] \in {"next", "handshake", "posted", "invalidate"} =>
       stored[job[t]] = 0 /\ Carriers(job[t]) = {}
  /\ \A t \in Threads : reply[t] # None =>
       /\ Carriers(job[t]) = {}
       /\ stored[job[t]] = IF reply[t] = 202 THEN 1 ELSE 0

KInv == JInv /\ JobInv /\ OnceInv
-----------------------------------------------------------------------------
(* Jobs.                                                                    *)

(* A step of a thread inside send() keeps the jobs in order.                 *)
LEMMA JobGateway ==
  ASSUME KInv, NEW t \in Threads, GatewayStep(t)
  PROVE  JobInv'
  <1> USE NoneAssumption
      DEF KInv, JInv, IInv, TypeInv, TypeOK, ThreadInv, JobInv, uplinkVars, cloudVars
  <1>1. CASE NextMessage(t)
    BY <1>1 DEF NextMessage, SealAndPost
  <1>2. CASE BeginHandshake(t)
    BY <1>2 DEF BeginHandshake
  <1>3. CASE FinishHandshake(t)
    BY <1>3 DEF FinishHandshake, SealAndPost
  <1>4. CASE FailHandshake(t)
    BY <1>4 DEF FailHandshake, EndSend
  <1>5. CASE Rejected401(t)
    BY <1>5 DEF Rejected401
  <1>6. CASE Invalidate(t)
    BY <1>6 DEF Invalidate
  <1>7. CASE RaiseRejected(t)
    BY <1>7 DEF RaiseRejected, EndSend
  <1>8. CASE Delivered(t)
    BY <1>8 DEF Delivered, EndSend
  <1>9. CASE RaiseUnreachable(t)
    BY <1>9 DEF RaiseUnreachable, EndSend
  <1>10. QED
    BY <1>1, <1>2, <1>3, <1>4, <1>5, <1>6, <1>7, <1>8, <1>9 DEF GatewayStep

(* So does every other step.                                                *)
LEMMA JobOther ==
  ASSUME KInv, [Next]_vars, ~(\E t \in Threads : GatewayStep(t))
  PROVE  JobInv'
  <1> USE NoneAssumption DEF KInv, JInv, IInv, TypeInv, TypeOK, ThreadInv, JobInv
  <1>1. CASE \E t \in Threads, r \in Readings : Submit(t, r)
    BY <1>1 DEF Submit, Message
  <1>2. CASE \E t \in Threads, w \in Workers, intact \in BOOLEAN : Deliver(t, w, intact)
    BY <1>2 DEF Deliver
  <1>3. CASE GatewayRestart
    <2>1. /\ \A t \in Threads : pc'[t] = "idle" /\ job'[t] = None
          /\ \A r \in Readings : outcome'[r] \in {outcome[r], "failed"}
          /\ wire' = wire
      BY <1>3 DEF GatewayRestart
    <2>2. \A m \in wire : m.reading \in Readings
      BY DEF Message
    <2>3. QED
      BY <2>1, <2>2
  <1>4. CASE UNCHANGED <<pc, job, msg, outcome, wire>>
    BY <1>4
  <1> HIDE NoneAssumption DEF KInv, JInv, IInv, TypeInv, TypeOK, ThreadInv, JobInv
  <1>5. QED
    BY <1>1, <1>2, <1>3, <1>4
    DEF Next, vars, threadVars, Environment, CloudStep, OpenSession, OpenForeignSession,
        ReadClock, Redeliver, RenewalDue, SessionExpires, CloudRestart, Lookup, RecordCounter,
        RefuseUnknown,
        RefuseTampered, RefuseCounter, StoreReading, RefuseInvalid, Answer
-----------------------------------------------------------------------------
(* Storing once.                                                            *)

(* A reading is worked on by a thread of the cloud only after it was posted. *)
LEMMA CarriedIsSubmitted ==
  ASSUME KInv, NEW r \in Readings, outcome[r] = "new"
  PROVE  Carriers(r) = {}
  BY DEF KInv, JInv, IInv, TypeInv, RequestInv, JobInv, Carriers

(* A step inside send() starts no request and stores nothing.                *)
LEMMA OnceGateway ==
  ASSUME KInv, NEW t \in Threads, GatewayStep(t)
  PROVE  OnceInv'
  <1> USE NoneAssumption
      DEF KInv, JInv, IInv, TypeInv, TypeOK, ThreadInv, AnswerInv, JobInv, OnceInv,
          uplinkVars, cloudVars
  <1>1. UNCHANGED req => \A r : Carriers(r)' = Carriers(r)
    BY DEF Carriers
  <1>2. CASE NextMessage(t)
    BY <1>1, <1>2 DEF NextMessage, SealAndPost
  <1>3. CASE BeginHandshake(t)
    BY <1>1, <1>3 DEF BeginHandshake
  <1>4. CASE FinishHandshake(t)
    BY <1>1, <1>4 DEF FinishHandshake, SealAndPost
  <1>5. CASE FailHandshake(t)
    BY <1>1, <1>5 DEF FailHandshake, EndSend
  <1>6. CASE Rejected401(t)
    BY <1>1, <1>6 DEF Rejected401
  <1>7. CASE Invalidate(t)
    BY <1>1, <1>7 DEF Invalidate
  <1>8. CASE RaiseRejected(t)
    BY <1>1, <1>8 DEF RaiseRejected, EndSend
  <1>9. CASE Delivered(t)
    BY <1>1, <1>9 DEF Delivered, EndSend
  <1>10. CASE RaiseUnreachable(t)
    <2>1. \A r : Carriers(r)' = Carriers(r)
      BY <1>10 DEF RaiseUnreachable, Hangup, Carriers, Request, Idle
    <2>2. QED
      BY <1>10, <2>1 DEF RaiseUnreachable, EndSend
  <1>11. QED
    BY <1>2, <1>3, <1>4, <1>5, <1>6, <1>7, <1>8, <1>9, <1>10 DEF GatewayStep

(* An answer ends the request it answers and nothing else.                  *)
LEMMA OnceAnswer ==
  ASSUME KInv, NEW w \in Workers, req[w] # Idle, NEW status \in Status, Answer(w, status),
         stored' = [stored EXCEPT ![req[w].msg.reading] = IF status = 202 THEN 1 ELSE 0]
  PROVE  OnceInv'
  <1>1. req[w].msg.reading \in Readings
    BY DEF KInv, JInv, IInv, TypeInv, TypeOK, Request, Message, Idle
  <1>2. PICK r \in Readings : r = req[w].msg.reading
    BY <1>1
  <1>3. w \in Carriers(r) /\ stored[r] = 0
    BY <1>2 DEF KInv, JInv, IInv, TypeInv, TypeOK, Request, Message, OnceInv, Carriers, Idle
  <1>4. Carriers(r) = {w}
    BY <1>3 DEF KInv, OnceInv
  <1>5. Carriers(r)' = {} /\ \A x \in Readings \ {r} : Carriers(x)' = Carriers(x)
    BY <1>2, <1>4 DEF Answer, Carriers, KInv, JInv, IInv, TypeInv, TypeOK
  <1>6. /\ stored'[r] = IF status = 202 THEN 1 ELSE 0
        /\ \A x \in Readings \ {r} : stored'[x] = stored[x]
    BY <1>2 DEF KInv, JInv, IInv, TypeInv, TypeOK
  <1>7. \A t \in Threads :
          /\ reply'[t] = IF req[w].to = t THEN status ELSE reply[t]
          /\ pc'[t] = pc[t] /\ job'[t] = job[t]
    BY DEF Answer
  <1>8. \A t \in Threads : req[w].to = t => pc[t] = "waiting" /\ job[t] = r
    BY <1>2 DEF KInv, JInv, AnswerInv, JobInv
  <1>9. \A t \in Threads : pc[t] # "idle" => job[t] \in Readings
    BY DEF KInv, JInv, IInv, TypeInv, ThreadInv
  <1>10. \A t \in Threads : job[t] = r /\ pc[t] # "idle" =>
          pc[t] = "waiting" /\ reply[t] = None
    BY <1>3, <1>9 DEF KInv, JInv, IInv, TypeInv, TypeOK, OnceInv
  <1>11. \A x \in Readings : outcome[x] = "new" => x # r
    BY <1>3, CarriedIsSubmitted
  <1>12. outcome' = outcome
    BY DEF Answer
  <1>13. (\A t \in Threads : reply[t] # None =>
            /\ Carriers(job[t]) = {}
            /\ stored[job[t]] = IF reply[t] = 202 THEN 1 ELSE 0)'
    <2> SUFFICES ASSUME NEW t \in Threads, reply'[t] # None
                 PROVE  /\ Carriers(job[t])' = {}
                        /\ stored'[job[t]] = IF reply'[t] = 202 THEN 1 ELSE 0
      BY <1>7
    <2>1. CASE req[w].to = t
      BY <1>5, <1>6, <1>7, <1>8, <2>1
    <2>2. CASE req[w].to # t
      <3>1. reply[t] # None /\ pc[t] = "waiting"
        BY <1>7, <2>2 DEF KInv, JInv, AnswerInv
      <3>2. job[t] # r
        BY <1>10, <3>1
      <3>3. QED
        BY <1>5, <1>6, <1>7, <1>9, <2>2, <3>1, <3>2 DEF KInv, OnceInv
    <2>3. QED
      BY <2>1, <2>2
  <1>14. (\A t \in Threads : pc[t] \in {"next", "handshake", "posted", "invalidate"} =>
            stored[job[t]] = 0 /\ Carriers(job[t]) = {})'
    BY <1>5, <1>6, <1>7, <1>9, <1>10 DEF KInv, OnceInv
  <1>15. QED
    BY <1>5, <1>6, <1>11, <1>12, <1>13, <1>14 DEF KInv, OnceInv

(* Steps of a request thread.                                               *)
LEMMA OnceCloud ==
  ASSUME KInv, NEW w \in Workers, CloudStep(w)
  PROVE  OnceInv'
  <1>1. stored \in [Readings -> Nat]
    BY DEF KInv, JInv, IInv, TypeInv, TypeOK
  <1>2. ASSUME req[w] # Idle
        PROVE  req[w].msg.reading \in Readings /\ stored[req[w].msg.reading] = 0
    BY <1>2 DEF KInv, JInv, IInv, TypeInv, TypeOK, Request, Message, OnceInv, Carriers
  <1>3. CASE Lookup(w) \/ RecordCounter(w)
    <2>1. \A r : Carriers(r)' = Carriers(r)
      BY <1>3 DEF Lookup, RecordCounter, Authentic, Carriers, Request, Idle,
                  KInv, JInv, IInv, TypeInv, TypeOK
    <2>2. UNCHANGED <<pc, job, reply, outcome, stored>>
      BY <1>3 DEF Lookup, RecordCounter, threadVars
    <2>3. QED
      BY <2>1, <2>2 DEF KInv, OnceInv
  <1>4. CASE StoreReading(w)
    <2>1. req[w] # Idle /\ Answer(w, 202) /\ 202 \in Status
      BY <1>4 DEF StoreReading, Status
    <2>2. stored' = [stored EXCEPT ![req[w].msg.reading] = 1]
      <3>1. stored' = [stored EXCEPT ![req[w].msg.reading] = stored[req[w].msg.reading] + 1]
        BY <1>4 DEF StoreReading
      <3>2. stored[req[w].msg.reading] + 1 = 1
        BY <1>2, <2>1
      <3>3. QED
        BY <3>1, <3>2
    <2>3. QED
      BY <2>1, <2>2, OnceAnswer
  <1>5. CASE RefuseUnknown(w) \/ RefuseTampered(w) \/ RefuseCounter(w) \/ RefuseInvalid(w)
    <2>1. PICK status \in Status \ {202} : Answer(w, status)
      BY <1>5 DEF RefuseUnknown, RefuseTampered, RefuseCounter, RefuseInvalid, Status
    <2>2. req[w] # Idle /\ stored' = stored
      BY <1>5 DEF RefuseUnknown, RefuseTampered, RefuseCounter, RefuseInvalid, Authentic
    <2>3. stored' = [stored EXCEPT ![req[w].msg.reading] = 0]
      BY <1>1, <1>2, <2>2
    <2>4. QED
      BY <2>1, <2>2, <2>3, OnceAnswer
  <1>6. QED
    BY <1>3, <1>4, <1>5 DEF CloudStep

(* Calls, arrivals and the environment, without duplicates.                  *)
LEMMA OnceOther ==
  ASSUME KInv, [Next]_vars, "redeliver" \notin Faults,
         ~(\E t \in Threads : GatewayStep(t)), ~(\E w \in Workers : CloudStep(w))
  PROVE  OnceInv'
  <1> USE NoneAssumption
      DEF KInv, JInv, IInv, TypeInv, TypeOK, ThreadInv, AnswerInv, JobInv, OnceInv
  <1>1. UNCHANGED req => \A r : Carriers(r)' = Carriers(r)
    BY DEF Carriers
  <1>2. CASE \E t \in Threads, r \in Readings : Submit(t, r)
    BY <1>1, <1>2, CarriedIsSubmitted DEF Submit, cloudVars
  <1>3. CASE \E t \in Threads, w \in Workers, intact \in BOOLEAN : Deliver(t, w, intact)
    <2>1. PICK t \in Threads, w \in Workers, intact \in BOOLEAN : Deliver(t, w, intact)
      BY <1>3
    <2>2. /\ pc[t] = "posted" /\ job[t] \in Readings /\ msg[t].reading = job[t]
          /\ Carriers(job[t]) = {} /\ stored[job[t]] = 0
      BY <2>1 DEF Deliver
    <2>3. /\ Carriers(job[t])' = {w}
          /\ \A r \in Readings \ {job[t]} : Carriers(r)' = Carriers(r)
      BY <2>1, <2>2 DEF Deliver, Carriers, Idle
    <2>4. /\ \A u \in Threads : pc'[u] = IF u = t THEN "waiting" ELSE pc[u]
          /\ UNCHANGED <<job, reply, outcome, stored>>
      BY <2>1 DEF Deliver
    <2>5. /\ outcome[job[t]] # "new" /\ reply[t] = None
          /\ \A u \in Threads \ {t} : pc[u] # "idle" => job[u] \in Readings \ {job[t]}
      BY <2>2
    <2>6. \A u \in Threads : reply[u] # None => u # t /\ pc[u] = "waiting"
      BY <2>5
    <2> HIDE DEF JInv, IInv, TypeInv, TypeOK, ThreadInv, AnswerInv, JobInv
    <2>7. QED
      BY <2>2, <2>3, <2>4, <2>5, <2>6
  <1>4. CASE CloudRestart
    <2>1. \A r : Carriers(r)' = {}
      BY <1>4 DEF CloudRestart, Carriers
    <2>2. QED
      BY <1>4, <2>1 DEF CloudRestart, threadVars
  <1>5. CASE GatewayRestart
    <2>1. \A r : Carriers(r)' = Carriers(r)
      BY <1>5 DEF GatewayRestart, Hangup, Carriers, Request, Idle
    <2>2. QED
      BY <1>5, <2>1 DEF GatewayRestart
  <1>6. CASE UNCHANGED <<pc, job, reply, outcome, req, stored>>
    BY <1>1, <1>6
  <1> HIDE NoneAssumption
      DEF KInv, JInv, IInv, TypeInv, TypeOK, ThreadInv, AnswerInv, JobInv, OnceInv
  <1>7. QED
    BY <1>2, <1>3, <1>4, <1>5, <1>6
    DEF Next, vars, threadVars, cloudVars, Environment, OpenSession, OpenForeignSession,
        ReadClock, Redeliver, RenewalDue, SessionExpires
-----------------------------------------------------------------------------
(* The refinement.                                                          *)

(* The invariant holds at the start ...                                     *)
LEMMA DeliveryInit == Init => JobInv /\ OnceInv
  BY NoneAssumption DEF Init, JobInv, OnceInv, Carriers

(* ... and is kept by every step.                                           *)
LEMMA DeliveryInv ==
  ASSUME KInv, [Next]_vars, "redeliver" \notin Faults
  PROVE  JobInv' /\ OnceInv'
  <1>1. CASE \E t \in Threads : GatewayStep(t)
    BY <1>1, JobGateway, OnceGateway
  <1>2. CASE \E w \in Workers : CloudStep(w)
    <2>1. CASE \E t \in Threads : GatewayStep(t)
      BY <2>1, JobGateway, OnceGateway
    <2>2. CASE ~(\E t \in Threads : GatewayStep(t))
      BY <1>2, <2>2, JobOther, OnceCloud
    <2>3. QED
      BY <2>1, <2>2
  <1>3. CASE ~(\E t \in Threads : GatewayStep(t)) /\ ~(\E w \in Workers : CloudStep(w))
    BY <1>3, JobOther, OnceOther
  <1>4. QED
    BY <1>1, <1>2, <1>3

(* A send that ends with a failure maps to ReportFailed of its reading.      *)
LEMMA FailureMaps ==
  ASSUME KInv, NEW t \in Threads, pc[t] # "idle", EndSend(t, "failed"), UNCHANGED stored
  PROVE  Delivery!Next
  <1>1. /\ job[t] \in Readings /\ outcome[job[t]] = "sending"
        /\ outcome \in [Readings -> {"new", "sending", "ok", "failed"}]
    BY NoneAssumption DEF KInv, JInv, IInv, TypeInv, TypeOK, ThreadInv, JobInv
  <1>2. outcome' = [r \in Readings |-> IF r \in {job[t]} THEN "failed" ELSE outcome[r]]
    BY <1>1 DEF EndSend
  <1>3. Delivery!ReportFailed({job[t]})
    BY <1>1, <1>2 DEF Delivery!ReportFailed
  <1>4. QED
    BY <1>1, <1>3 DEF Delivery!Next

(* Every step maps to a step of ReadingDelivery or leaves its variables be.   *)
LEMMA StepMaps ==
  ASSUME KInv, [Next]_vars
  PROVE  [Delivery!Next]_(Delivery!vars)
  <1> USE NoneAssumption DEF KInv, JInv, IInv, TypeInv, TypeOK, ThreadInv, JobInv
  <1>1. ASSUME NEW t \in Threads, NEW r \in Readings, Submit(t, r) PROVE Delivery!Next
    BY <1>1 DEF Submit, cloudVars, Delivery!Next, Delivery!Submit
  <1>2. ASSUME NEW t \in Threads, Delivered(t) PROVE Delivery!Next
    <2>1. /\ job[t] \in Readings /\ outcome[job[t]] = "sending"
          /\ stored[job[t]] = 1
      BY <1>2 DEF Delivered, OnceInv
    <2>2. Delivery!ReportOk(job[t])
      BY <1>2, <2>1 DEF Delivered, EndSend, cloudVars, Delivery!ReportOk
    <2>3. QED
      BY <2>1, <2>2 DEF Delivery!Next
  <1>3. ASSUME NEW t \in Threads,
               FailHandshake(t) \/ RaiseRejected(t) \/ RaiseUnreachable(t)
        PROVE  Delivery!Next
    BY <1>3, FailureMaps DEF FailHandshake, RaiseRejected, RaiseUnreachable, ConnectionLost, cloudVars
  <1>4. ASSUME NEW w \in Workers, StoreReading(w) PROVE Delivery!Next
    <2>1. /\ req[w] # Idle /\ req[w].msg \in wire /\ req[w].msg.reading \in Readings
      BY <1>4 DEF StoreReading, RequestInv, Message
    <2>2. stored[req[w].msg.reading] = 0 /\ outcome[req[w].msg.reading] # "new"
      BY <2>1 DEF OnceInv, Carriers
    <2>3. stored' = [stored EXCEPT ![req[w].msg.reading] = 1] /\ outcome' = outcome
      <3>1. stored' = [stored EXCEPT ![req[w].msg.reading] = stored[req[w].msg.reading] + 1]
        BY <1>4 DEF StoreReading
      <3>2. stored[req[w].msg.reading] + 1 = 1
        BY <2>2
      <3>3. QED
        BY <1>4, <3>1, <3>2 DEF StoreReading, Answer
    <2>4. Delivery!Store(req[w].msg.reading)
      BY <2>2, <2>3 DEF Delivery!Store
    <2>5. QED
      BY <2>1, <2>4 DEF Delivery!Next
  <1>5. CASE GatewayRestart
    <2> DEFINE R == {r \in Readings : \E t \in Threads : job[t] = r}
    <2>1. \A r \in R : outcome[r] = "sending"
      OBVIOUS
    <2>2. /\ outcome' = [r \in Readings |-> IF r \in R THEN "failed" ELSE outcome[r]]
          /\ stored' = stored
      BY <1>5 DEF GatewayRestart
    <2>3. Delivery!ReportFailed(R)
      BY <2>1, <2>2 DEF Delivery!ReportFailed
    <2>4. QED
      BY <2>3 DEF Delivery!Next
  <1>6. CASE UNCHANGED <<outcome, stored>>
    BY <1>6 DEF Delivery!vars
  <1> HIDE NoneAssumption DEF KInv, JInv, IInv, TypeInv, TypeOK, ThreadInv, JobInv
  <1>7. QED
    BY <1>1, <1>2, <1>3, <1>4, <1>5, <1>6
    DEF Next, vars, uplinkVars, threadVars, cloudVars, Environment, GatewayStep, CloudStep,
        NextMessage, BeginHandshake, FinishHandshake, Rejected401, Invalidate, OpenSession,
        OpenForeignSession, ReadClock, Deliver, Redeliver, RenewalDue, SessionExpires, CloudRestart,
        Lookup, RecordCounter, RefuseUnknown, RefuseTampered, RefuseCounter, RefuseInvalid, Answer

(* The sealed uplink keeps the promise of ReadingDelivery when no request is  *)
(* duplicated: a reading is stored at most once, reported as delivered only   *)
(* if it was stored, and its outcome is final, across timeouts, retries after *)
(* a 401, renewals, evictions and restarts of both processes.                *)
THEOREM UplinkImplementsDelivery ==
  ASSUME "redeliver" \notin Faults
  PROVE  Spec => Delivers
  <1>1. Init => Delivery!Init
    BY DEF Init, Delivery!Init
  <1>2. Init => JobInv /\ OnceInv
    BY DeliveryInit
  <1>3. JInv /\ JobInv /\ OnceInv /\ [Next]_vars => JobInv' /\ OnceInv'
    BY DeliveryInv DEF KInv
  <1>4. JInv /\ JobInv /\ OnceInv /\ [Next]_vars => [Delivery!Next]_(Delivery!vars)
    BY StepMaps DEF KInv
  <1>5. QED
    BY <1>1, <1>2, <1>3, <1>4, ReplaceInvHolds, PTL DEF Spec, Delivers, Delivery!Spec
=============================================================================
