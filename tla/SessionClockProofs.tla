-------------------------- MODULE SessionClockProofs --------------------------
(***************************************************************************)
(* Theorems about SessionClock, for every number of threads and all values   *)
(* of the four times that keep to ClockAssumption.                          *)
(***************************************************************************)
EXTENDS SessionClock, TLAPS

Handshaking == {"public_key", "session_request", "opened"}

(* What the place of a thread says of the times it carries.                 *)
Timely(t) ==
  /\ since[t] <= clock
  /\ held[t] <= clock
  /\ pc[t] # "idle" => clock <= since[t] + Limit(pc[t])
  /\ pc[t] = "opened" => since[t] <= held[t]
  /\ pc[t] = "sealed" => since[t] + Pause + RequestTime < held[t] + SESSION_TTL_S
  /\ pc[t] = "posted" => since[t] + RequestTime < held[t] + SESSION_TTL_S

(* The gateway's deadline counts from the confirmation, which follows the    *)
(* opening by no more than a request and a pause.                           *)
Deadline ==
  session # None =>
    /\ session.opened <= clock
    /\ session.opened + Lifetime <= session.expires_at
    /\ session.expires_at <= session.opened + RequestTime + Pause + Lifetime

(* The lock: one handshake at a time, and only for want of a usable session. *)
Exclusive ==
  /\ \A t, u \in Threads : pc[t] \in Handshaking /\ pc[u] \in Handshaking => t = u
  /\ \A t \in Threads : pc[t] \in Handshaking => ~Usable

IInv == TypeOK /\ (\A t \in Threads : Timely(t)) /\ Deadline /\ Exclusive /\ NeverDiesInTransit

LEMMA TimesAreNumbers ==
  /\ RequestTime \in Nat
  /\ Lifetime \in Nat
  /\ Lifetime + RENEW_MARGIN_S = SESSION_TTL_S \/ Lifetime = 0
  /\ \A place \in Places \ {"idle"} : Limit(place) \in Nat
BY ClockAssumption DEF RequestTime, Lifetime, Limit, Places

LEMMA Initially == Init => IInv
BY ClockAssumption
DEF Init, IInv, TypeOK, Places, Timely, Deadline, Exclusive, NeverDiesInTransit, Handshaking

LEMMA TypeStep == TypeOK /\ [Next]_vars => TypeOK'
<1> SUFFICES ASSUME TypeOK, [Next]_vars
             PROVE  TypeOK'
  OBVIOUS
<1> USE ClockAssumption, TimesAreNumbers DEF TypeOK, Goto, Places
<1>1. CASE Tick
  BY <1>1 DEF Tick
<1>2. ASSUME NEW t \in Threads, NextMessage(t)
      PROVE  TypeOK'
  BY <1>2 DEF NextMessage, Usable
<1>3. ASSUME NEW t \in Threads, BeginHandshake(t) \/ RequestSession(t) \/ Post(t) \/ GiveUp(t)
      PROVE  TypeOK'
  <2>1. /\ UNCHANGED <<clock, session, held, answers>>
        /\ \E place \in Places : Goto(t, place)
    BY <1>3 DEF BeginHandshake, RequestSession, Post, GiveUp
  <2>2. clock \in Nat
    OBVIOUS
  <2> QED
    BY <2>1, <2>2
<1>4. ASSUME NEW t \in Threads, OpenSession(t)
      PROVE  TypeOK'
  BY <1>4 DEF OpenSession
<1>5. ASSUME NEW t \in Threads, FinishHandshake(t)
      PROVE  TypeOK'
  BY <1>5 DEF FinishHandshake
<1>6. ASSUME NEW t \in Threads, Lookup(t)
      PROVE  TypeOK'
  BY <1>6 DEF Lookup
<1>7. CASE UNCHANGED vars
  BY <1>7 DEF vars
<1> HIDE DEF TypeOK
<1> QED
  BY <1>1, <1>2, <1>3, <1>4, <1>5, <1>6, <1>7 DEF Next, Step

(* A usable session has time for a pause and a request.                     *)
LEMMA UsableHasTime ==
  ASSUME TypeOK, Deadline, Usable
  PROVE  clock + Pause + RequestTime < session.opened + SESSION_TTL_S
BY ClockAssumption, TimesAreNumbers DEF TypeOK, Deadline, Usable

(* So has one that has just been opened.                                    *)
LEMMA OpenedHasTime ==
  ASSUME TypeOK, NEW t \in Threads, Timely(t), pc[t] = "opened"
  PROVE  /\ clock <= held[t] + RequestTime + Pause
         /\ clock + Pause + RequestTime < held[t] + SESSION_TTL_S
BY ClockAssumption, TimesAreNumbers DEF TypeOK, Timely, Limit

LEMMA TimelyStep == IInv /\ [Next]_vars => \A t \in Threads : Timely(t)'
<1> SUFFICES ASSUME IInv, [Next]_vars, NEW t \in Threads
             PROVE  Timely(t)'
  OBVIOUS
<1> USE ClockAssumption, TimesAreNumbers
<1>0. /\ TypeOK /\ TypeOK' /\ Timely(t) /\ Deadline
  BY TypeStep DEF IInv
<1>1. CASE Tick
  BY <1>0, <1>1 DEF Tick, Timely, TypeOK
<1>2. ASSUME NEW u \in Threads, Step(u), u # t
      PROVE  Timely(t)'
  <2>1. clock' = clock /\ pc'[t] = pc[t] /\ since'[t] = since[t] /\ held'[t] = held[t]
    BY <1>0, <1>2
    DEF TypeOK, Step, NextMessage, BeginHandshake, RequestSession, OpenSession,
        FinishHandshake, Post, Lookup, GiveUp, Goto
  <2> QED
    BY <1>0, <2>1 DEF Timely
<1>3. ASSUME Step(t)
      PROVE  Timely(t)'
  <2>1. CASE NextMessage(t)
    <3>1. Usable /\ session.opened <= clock
      BY <1>0, <2>1 DEF NextMessage, Usable, Deadline
    <3>2. clock + Pause + RequestTime < session.opened + SESSION_TTL_S
      BY <1>0, <3>1, UsableHasTime
    <3> QED
      BY <1>0, <2>1, <3>1, <3>2 DEF NextMessage, Goto, Timely, TypeOK, Limit
  <2>2. CASE BeginHandshake(t) \/ RequestSession(t) \/ GiveUp(t) \/ Lookup(t)
    BY <1>0, <2>2
    DEF BeginHandshake, RequestSession, GiveUp, Lookup, Goto, Timely, TypeOK, Limit
  <2>3. CASE OpenSession(t)
    BY <1>0, <2>3 DEF OpenSession, Timely, TypeOK, Limit
  <2>4. CASE FinishHandshake(t)
    BY <1>0, <2>4, OpenedHasTime DEF FinishHandshake, Goto, Timely, TypeOK, Limit
  <2>5. CASE Post(t)
    BY <1>0, <2>5 DEF Post, Goto, Timely, TypeOK, Limit
  <2> QED
    BY <1>3, <2>1, <2>2, <2>3, <2>4, <2>5 DEF Step
<1>4. CASE UNCHANGED vars
  BY <1>0, <1>4 DEF vars, Timely
<1> QED
  BY <1>1, <1>2, <1>3, <1>4 DEF Next

LEMMA DeadlineStep == IInv /\ [Next]_vars => Deadline'
<1> SUFFICES ASSUME IInv, [Next]_vars
             PROVE  Deadline'
  OBVIOUS
<1> USE ClockAssumption, TimesAreNumbers
<1>1. ASSUME NEW t \in Threads, FinishHandshake(t)
      PROVE  Deadline'
  <2>1. held[t] <= clock /\ clock <= held[t] + RequestTime + Pause
    BY <1>1, OpenedHasTime DEF IInv, FinishHandshake, Timely
  <2> QED
    BY <1>1, <2>1 DEF FinishHandshake, Deadline, IInv, TypeOK
<1>2. ASSUME ~\E t \in Threads : FinishHandshake(t)
      PROVE  session' = session
  BY <1>2
  DEF Next, Step, vars, Tick, NextMessage, BeginHandshake, RequestSession, OpenSession, Post,
      Lookup, GiveUp
<1>3. clock \in Nat /\ clock' \in Nat /\ clock <= clock'
  BY TypeStep
  DEF IInv, TypeOK, Next, Step, vars, Tick, NextMessage, BeginHandshake, RequestSession,
      OpenSession, FinishHandshake, Post, Lookup, GiveUp
<1> QED
  BY <1>1, <1>2, <1>3 DEF IInv, Deadline, TypeOK

LEMMA ExclusiveStep == IInv /\ [Next]_vars => Exclusive'
<1> SUFFICES ASSUME IInv, [Next]_vars
             PROVE  Exclusive'
  OBVIOUS
<1>0. TypeOK /\ Exclusive /\ clock' \in Nat /\ clock \in Nat
  BY TypeStep DEF IInv, TypeOK
<1>1. CASE Tick
  BY <1>0, <1>1 DEF Tick, Exclusive, Usable, TypeOK
<1>2. ASSUME NEW t \in Threads, BeginHandshake(t)
      PROVE  Exclusive'
  BY <1>0, <1>2 DEF BeginHandshake, Goto, LockFree, Exclusive, Usable, Handshaking, TypeOK
<1>3. ASSUME NEW t \in Threads, FinishHandshake(t)
      PROVE  Exclusive'
  BY <1>0, <1>3 DEF FinishHandshake, Goto, Exclusive, Usable, Handshaking, TypeOK
<1>4. ASSUME NEW t \in Threads,
             \/ RequestSession(t) \/ OpenSession(t) \/ NextMessage(t)
             \/ Post(t) \/ Lookup(t) \/ GiveUp(t)
      PROVE  Exclusive'
  <2>1. /\ session' = session /\ clock' = clock
        /\ \A u \in Threads : pc'[u] \in Handshaking => pc[u] \in Handshaking
    BY <1>0, <1>4
    DEF RequestSession, OpenSession, NextMessage, Post, Lookup, GiveUp, Goto, Handshaking, TypeOK
  <2> QED
    BY <1>0, <2>1 DEF Exclusive, Usable
<1>5. CASE UNCHANGED vars
  BY <1>0, <1>5 DEF vars, Exclusive, Usable
<1> QED
  BY <1>1, <1>2, <1>3, <1>4, <1>5 DEF Next, Step

LEMMA AnswersStep == IInv /\ [Next]_vars => NeverDiesInTransit'
<1> SUFFICES ASSUME IInv, [Next]_vars
             PROVE  NeverDiesInTransit'
  OBVIOUS
<1> USE ClockAssumption, TimesAreNumbers
<1>1. ASSUME NEW t \in Threads, Lookup(t)
      PROVE  NeverDiesInTransit'
  <2>1. clock < held[t] + SESSION_TTL_S
    BY <1>1 DEF IInv, Lookup, Timely, Limit, TypeOK
  <2> QED
    BY <1>1, <2>1 DEF IInv, Lookup, NeverDiesInTransit
<1>2. ASSUME ~\E t \in Threads : Lookup(t)
      PROVE  answers' = answers
  BY <1>2
  DEF Next, Step, vars, Tick, NextMessage, BeginHandshake, RequestSession, OpenSession, Post,
      FinishHandshake, GiveUp
<1> QED
  BY <1>1, <1>2 DEF IInv, NeverDiesInTransit

LEMMA Inductive == IInv /\ [Next]_vars => IInv'
BY TypeStep, TimelyStep, DeadlineStep, ExclusiveStep, AnswersStep DEF IInv

LEMMA Invariant == Spec => []IInv
BY Initially, Inductive, PTL DEF Spec

(* gateway.py: "a reading is never sent under a key that dies in transit".   *)
(* It holds for all times with 2 * RequestTime + 2 * Pause within both the   *)
(* margin and the lifetime.                                                 *)
THEOREM KeysOutliveTransit == Spec => []NeverDiesInTransit
BY Invariant, PTL DEF IInv

(* gateway.py, the margin: no session is renewed more than RENEW_MARGIN_S    *)
(* before its end on the cloud.                                             *)
THEOREM RenewalNotEarly ==
  Spec => NotRenewedEarly
<1>1. ASSUME IInv, [Next]_vars, session # None, session' # session
      PROVE  clock >= session.opened + Lifetime
  <2> USE ClockAssumption, TimesAreNumbers
  <2>1. PICK t \in Threads : FinishHandshake(t)
    BY <1>1
    DEF Next, Step, vars, Tick, NextMessage, BeginHandshake, RequestSession, OpenSession, Post,
        Lookup, GiveUp
  <2>2. session.expires_at <= clock
    BY <1>1, <2>1 DEF IInv, Exclusive, Handshaking, FinishHandshake, Usable, TypeOK
  <2> QED
    BY <1>1, <2>2 DEF IInv, Deadline, TypeOK
<1>2. IInv /\ [Next]_vars =>
        [session # None /\ session' # session => clock >= session.opened + Lifetime]_vars
  BY <1>1
<1> QED
  BY <1>2, Invariant, PTL DEF Spec, NotRenewedEarly
=============================================================================
