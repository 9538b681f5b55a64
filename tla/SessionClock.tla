----------------------------- MODULE SessionClock -----------------------------
(***************************************************************************)
(* The two deadlines of an ML-KEM session on one clock: the cloud drops a    *)
(* session SESSION_TTL_S after it inserted it (cloud_service/app.py), and    *)
(* the gateway stops using it RENEW_MARGIN_S earlier, counted from the       *)
(* moment it has confirmed the handshake (PqcUplink, edge_gateway/           *)
(* gateway.py).                                                             *)
(*                                                                         *)
(* SealedUplink leaves the two deadlines unrelated; here they follow the     *)
(* clock, and counters, budgets and restarts are left out.  Both processes   *)
(* read monotonic clocks that run at the same rate.                         *)
(***************************************************************************)
EXTENDS Naturals

CONSTANTS
  Threads,          \* device handler threads of the gateway
  SESSION_TTL_S,
  RENEW_MARGIN_S,
  CLOUD_TIMEOUT_S,  \* given to requests: bounds connecting, then reading
  Pause,            \* how long a thread may be held up between two steps
  MaxClock,         \* bound: length of a run
  None

RequestTime == 2 * CLOUD_TIMEOUT_S

(* 3600 s, 60 s and 5 s leave threads a pause of up to 20 s.                *)
ASSUME ClockAssumption ==
  /\ SESSION_TTL_S \in Nat
  /\ RENEW_MARGIN_S \in Nat
  /\ CLOUD_TIMEOUT_S \in Nat
  /\ Pause \in Nat
  /\ MaxClock \in Nat
  /\ 2 * RequestTime + 2 * Pause <= RENEW_MARGIN_S
  /\ 2 * RequestTime + 2 * Pause < SESSION_TTL_S
  /\ None \notin Nat
  /\ None \notin [opened: Nat, expires_at: Nat]

VARIABLES
  clock,
  session,   \* _session: when the cloud opened it, and its expires_at, or None
  pc,        \* where each thread is inside send()
  since,     \* when its present request, or pause, began
  held,      \* when the session its handshake or message uses was opened
  answers    \* history: status codes of the sealed messages

vars == <<clock, session, pc, since, held, answers>>

Init ==
  /\ clock = 0
  /\ session = None
  /\ pc = [t \in Threads |-> "idle"]
  /\ since = [t \in Threads |-> 0]
  /\ held = [t \in Threads |-> 0]
  /\ answers = {}

-----------------------------------------------------------------------------
(* Time.                                                                    *)

(* The longest a thread stays at each place.                                *)
Limit(place) ==
  CASE place \in {"public_key", "session_request", "posted"} -> RequestTime
    [] place = "opened" -> RequestTime + Pause
    [] place = "sealed" -> Pause

(* Time passes as long as no thread has to move.                            *)
Tick ==
  /\ clock < MaxClock
  /\ \A t \in Threads : pc[t] # "idle" => clock < since[t] + Limit(pc[t])
  /\ clock' = clock + 1
  /\ UNCHANGED <<session, pc, since, held, answers>>

-----------------------------------------------------------------------------
(* The gateway.                                                             *)

Goto(t, place) ==
  /\ pc' = [pc EXCEPT ![t] = place]
  /\ since' = [since EXCEPT ![t] = clock]

(* _lock is held during the handshake.                                      *)
LockFree == \A t \in Threads : pc[t] \notin {"public_key", "session_request", "opened"}

Usable == session # None /\ clock < session.expires_at

(* _next_message with a session that is not due.                            *)
NextMessage(t) ==
  /\ pc[t] = "idle"
  /\ LockFree
  /\ Usable
  /\ Goto(t, "sealed")
  /\ held' = [held EXCEPT ![t] = session.opened]
  /\ UNCHANGED <<clock, session, answers>>

BeginHandshake(t) ==
  /\ pc[t] = "idle"
  /\ LockFree
  /\ ~Usable
  /\ Goto(t, "public_key")
  /\ UNCHANGED <<clock, session, held, answers>>

(* The public key is here and fits: ask for the session.                    *)
RequestSession(t) ==
  /\ pc[t] = "public_key"
  /\ Goto(t, "session_request")
  /\ UNCHANGED <<clock, session, held, answers>>

(* Wrong: the lifetime ends when the cloud's does.                          *)
FullLifetime == SESSION_TTL_S

(* max(0, expires_in_s - RENEW_MARGIN_S).                                   *)
Lifetime == IF SESSION_TTL_S > RENEW_MARGIN_S THEN SESSION_TTL_S - RENEW_MARGIN_S ELSE 0

(* Wrong: the lifetime counts from the request.                             *)
FinishFromRequest(t) ==
  /\ pc[t] = "opened"
  /\ session' = [opened |-> held[t], expires_at |-> since[t] + Lifetime]
  /\ Goto(t, "sealed")
  /\ UNCHANGED <<clock, held, answers>>

(* The confirmed session becomes the current one, and its first message is   *)
(* sealed under it whatever its lifetime.                                   *)
FinishHandshake(t) ==
  /\ pc[t] = "opened"
  /\ session' = [opened |-> held[t], expires_at |-> clock + Lifetime]
  /\ Goto(t, "sealed")
  /\ UNCHANGED <<clock, held, answers>>

Post(t) ==
  /\ pc[t] = "sealed"
  /\ Goto(t, "posted")
  /\ UNCHANGED <<clock, session, held, answers>>

(* A request fails or times out: send() raises.                             *)
GiveUp(t) ==
  /\ pc[t] \notin {"idle", "sealed"}
  /\ Goto(t, "idle")
  /\ UNCHANGED <<clock, session, held, answers>>

-----------------------------------------------------------------------------
(* The cloud.                                                               *)

(* pqc_session inserts the session, which expires SESSION_TTL_S from now.   *)
OpenSession(t) ==
  /\ pc[t] = "session_request"
  /\ held' = [held EXCEPT ![t] = clock]
  /\ pc' = [pc EXCEPT ![t] = "opened"]
  /\ UNCHANGED <<clock, session, since, answers>>

(* ingest_sealed looks the session up.                                      *)
Lookup(t) ==
  /\ pc[t] = "posted"
  /\ answers' = answers \cup {IF clock < held[t] + SESSION_TTL_S THEN 202 ELSE 401}
  /\ Goto(t, "idle")
  /\ UNCHANGED <<clock, session, held>>

-----------------------------------------------------------------------------
Step(t) ==
  \/ NextMessage(t) \/ BeginHandshake(t) \/ RequestSession(t) \/ OpenSession(t)
  \/ FinishHandshake(t) \/ Post(t) \/ Lookup(t) \/ GiveUp(t)

Next == Tick \/ \E t \in Threads : Step(t)

Spec == Init /\ [][Next]_vars
-----------------------------------------------------------------------------
(* Properties.                                                              *)

Places ==
  {"idle", "public_key", "session_request", "opened", "sealed", "posted"}

(* The values each variable takes.                                          *)
TypeOK ==
  /\ clock \in 0..MaxClock
  /\ session \in [opened: Nat, expires_at: Nat] \cup {None}
  /\ pc \in [Threads -> Places]
  /\ since \in [Threads -> Nat]
  /\ held \in [Threads -> Nat]
  /\ answers \subseteq {202, 401}

(* RENEW_MARGIN_S: "so a reading is never sent under a key that dies in      *)
(* transit".  A message of a session the gateway takes for usable, or has    *)
(* just opened, reaches the cloud before the session expires there, however  *)
(* long handshake, thread and request take within their limits.             *)
NeverDiesInTransit == 401 \notin answers

(* The margin is no more than that: a session is replaced only within        *)
(* RENEW_MARGIN_S of the end of its life on the cloud, so no handshake comes *)
(* early, whichever thread asks for it.                                     *)
NotRenewedEarly ==
  [][session # None /\ session' # session => clock >= session.opened + Lifetime]_vars
=============================================================================
