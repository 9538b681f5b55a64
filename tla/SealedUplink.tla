---------------------------- MODULE SealedUplink ----------------------------
(***************************************************************************)
(* The ML-KEM path between one edge gateway and the cloud: PqcUplink        *)
(* (edge_gateway/gateway.py), shared by every device handler thread, and    *)
(* the session table and sealed ingest of the cloud (cloud_service/app.py). *)
(*                                                                         *)
(* Every lock-protected region of the code is one action, and every wait    *)
(* on the network lies between two actions.  The exception is the uplink's  *)
(* lock, which _next_message keeps during the whole handshake: it is held   *)
(* exactly while some thread is in "handshake".                             *)
(*                                                                         *)
(* Keys are abstracted: session ids are numbered in the order in which the  *)
(* cloud inserts the sessions, and both ends of a session hold the key of   *)
(* that id.  A sealed message is its session, counter and content.          *)
(***************************************************************************)
EXTENDS Naturals, FiniteSets

CONSTANTS
  Threads,              \* device handler threads of the gateway
  Others,               \* other callers of pqc_session: gateways, and handshakes given up
  Workers,              \* request threads of the cloud
  Readings,             \* readings given to send(), one call for each
  Valid,                \* the readings within the bounds of the cloud's Reading
  SESSION_MAX_MESSAGES, \* messages per session
  MAX_SESSIONS,         \* sessions the cloud keeps
  Faults,               \* which faults of the environment may happen
  MaxOpened,            \* bound: sessions ever opened
  MaxCrashes,           \* bound: process restarts, cloud and gateway together
  None

FaultKinds ==
  {"timeout", "corrupt", "redeliver", "expire", "renew", "cloud_restart", "gateway_restart"}

ASSUME ConstantsAssumption ==
  /\ Threads \cap Others = {}
  /\ IsFiniteSet(Workers)
  /\ Valid \subseteq Readings
  /\ SESSION_MAX_MESSAGES \in Nat \ {0}
  /\ MAX_SESSIONS \in Nat \ {0}
  /\ Faults \subseteq FaultKinds
  /\ MaxOpened \in Nat
  /\ MaxCrashes \in Nat

ASSUME NoneAssumption ==
  /\ None \notin Threads
  /\ None \notin Readings
  /\ None \notin Nat

VARIABLES
  (* The gateway: the uplink's shared session ...                          *)
  current,       \* _session: its id, or None
  next_counter,  \* next_counter of each _PqcSession object
  due,           \* sessions past their expires_at on the gateway's clock
  (* ... and the state of each thread inside send().                       *)
  pc,            \* where the thread is
  job,           \* the reading it sends
  attempt,       \* 1 or 2
  hs,            \* session id answered to its handshake, None before that
  msg,           \* the sealed message of this attempt
  reply,         \* status code that reached the thread's connection
  outcome,       \* what became of each reading, as the gateway sees it
  (* The cloud: session table and requests in progress.                    *)
  opened,        \* number of sessions ever inserted in _sessions
  sessions,      \* _sessions: ids present
  expired,       \* sessions past their expires_at on the cloud's clock
  noted,         \* those past it at the moment pqc_session read as now, for each
                 \* caller; None when it has not read the clock
  seen,          \* seen_counters of each Session object
  req,           \* what each request thread is doing
  stored,        \* history: how many times each reading was stored
  (* The environment.                                                      *)
  wire,          \* history: every sealed message ever posted
  crashes        \* restarts so far

uplinkVars == <<current, next_counter, due>>
threadVars == <<pc, job, attempt, hs, msg, reply, outcome>>
cloudVars == <<opened, sessions, expired, noted, seen, req, stored>>
vars == <<uplinkVars, threadVars, cloudVars, wire, crashes>>

SID == 1..MaxOpened
Callers == Threads \cup Others
Message == [sid: SID, ctr: Nat, reading: Readings, attempt: {1, 2}]
Status == {202, 400, 401, 409, 422}

(* A request thread: "lookup" before the session is looked up, "open" with  *)
(* the Session object in hand and no lock, "store" once the counter is      *)
(* recorded.  to is the gateway thread whose connection is still open;      *)
(* intact is false when the bytes were altered on the way.                  *)
Idle == [pc |-> "idle"]
Request == [pc: {"lookup", "open", "store"}, msg: Message,
            to: Threads \cup {None}, intact: BOOLEAN]

LockFree == \A t \in Threads : pc[t] # "handshake"

Init ==
  /\ current = None
  /\ next_counter = [s \in SID |-> 0]
  /\ due = {}
  /\ pc = [t \in Threads |-> "idle"]
  /\ job = [t \in Threads |-> None]
  /\ attempt = [t \in Threads |-> 1]
  /\ hs = [t \in Threads |-> None]
  /\ msg = [t \in Threads |-> None]
  /\ reply = [t \in Threads |-> None]
  /\ outcome = [r \in Readings |-> "new"]
  /\ opened = 0
  /\ sessions = {}
  /\ expired = {}
  /\ noted = [c \in Callers |-> None]
  /\ seen = [s \in SID |-> {}]
  /\ req = [w \in Workers |-> Idle]
  /\ stored = [r \in Readings |-> 0]
  /\ wire = {}
  /\ crashes = 0

-----------------------------------------------------------------------------
(* The gateway: PqcUplink.send, _next_message, _invalidate.                 *)

(* A handler thread calls send() with a reading accepted from its device.   *)
Submit(t, r) ==
  /\ pc[t] = "idle"
  /\ outcome[r] = "new"
  /\ pc' = [pc EXCEPT ![t] = "next"]
  /\ job' = [job EXCEPT ![t] = r]
  /\ attempt' = [attempt EXCEPT ![t] = 1]
  /\ outcome' = [outcome EXCEPT ![r] = "sending"]
  /\ UNCHANGED <<uplinkVars, hs, msg, reply, cloudVars, wire, crashes>>

(* send() ends: it returns, or raises and _forward counts the failure.      *)
EndSend(t, result) ==
  /\ pc' = [pc EXCEPT ![t] = "idle"]
  /\ job' = [job EXCEPT ![t] = None]
  /\ msg' = [msg EXCEPT ![t] = None]
  /\ reply' = [reply EXCEPT ![t] = None]
  /\ hs' = [hs EXCEPT ![t] = None]
  /\ outcome' = [outcome EXCEPT ![job[t]] = result]
  /\ UNCHANGED attempt

(* Wrong: one message more than the budget.                                 *)
UsableOnceMore ==
  /\ current # None
  /\ current \notin due
  /\ next_counter[current] <= SESSION_MAX_MESSAGES

(* The condition under which _next_message keeps the current session.       *)
Usable ==
  /\ current # None
  /\ current \notin due
  /\ next_counter[current] < SESSION_MAX_MESSAGES

(* Wrong: the counter would advance only once the message is delivered.     *)
SealWithoutAdvance(t, s) ==
  LET m == [sid |-> s, ctr |-> next_counter[s],
            reading |-> job[t], attempt |-> attempt[t]]
  IN /\ msg' = [msg EXCEPT ![t] = m]
     /\ wire' = wire \cup {m}
     /\ pc' = [pc EXCEPT ![t] = "posted"]
     /\ UNCHANGED next_counter

(* Take the next counter of session s, seal the job under it and post it.   *)
SealAndPost(t, s) ==
  LET m == [sid |-> s, ctr |-> next_counter[s],
            reading |-> job[t], attempt |-> attempt[t]]
  IN /\ next_counter' = [next_counter EXCEPT ![s] = @ + 1]
     /\ msg' = [msg EXCEPT ![t] = m]
     /\ wire' = wire \cup {m}
     /\ pc' = [pc EXCEPT ![t] = "posted"]

NextMessage(t) ==
  /\ pc[t] = "next"
  /\ LockFree
  /\ Usable
  /\ SealAndPost(t, current)
  /\ UNCHANGED <<current, due, job, attempt, hs, reply, outcome, cloudVars, crashes>>

(* No usable session: start a handshake and keep the lock until it ends.    *)
BeginHandshake(t) ==
  /\ pc[t] = "next"
  /\ LockFree
  /\ ~Usable
  /\ pc' = [pc EXCEPT ![t] = "handshake"]
  /\ UNCHANGED <<uplinkVars, job, attempt, hs, msg, reply, outcome, cloudVars,
                 wire, crashes>>

(* The answer of the cloud is confirmed: install the session, take its      *)
(* first counter and release the lock.                                      *)
FinishHandshake(t) ==
  /\ pc[t] = "handshake"
  /\ hs[t] # None
  /\ current' = hs[t]
  /\ SealAndPost(t, hs[t])
  /\ hs' = [hs EXCEPT ![t] = None]
  /\ UNCHANGED <<due, job, attempt, reply, outcome, cloudVars, crashes>>

(* Wrong: the handshake requests carry no timeout.                          *)
FailHandshakeNever(t) == FALSE

(* Any failure of the handshake raises UplinkError; _session is unchanged.   *)
(* A request the cloud is still busy with is one of the Others' from now on. *)
FailHandshake(t) ==
  /\ "timeout" \in Faults
  /\ pc[t] = "handshake"
  /\ EndSend(t, "failed")
  /\ noted' = [noted EXCEPT ![t] = None]
  /\ UNCHANGED <<uplinkVars, opened, sessions, expired, seen, req, stored, wire, crashes>>

(* Wrong: every 401 is retried.                                             *)
Rejected401Always(t) ==
  /\ pc[t] = "waiting"
  /\ reply[t] = 401
  /\ pc' = [pc EXCEPT ![t] = "invalidate"]
  /\ reply' = [reply EXCEPT ![t] = None]
  /\ UNCHANGED <<uplinkVars, job, attempt, hs, msg, outcome, cloudVars, wire, crashes>>

(* A 401 on the first attempt leads to _invalidate and one more attempt.    *)
Rejected401(t) ==
  /\ pc[t] = "waiting"
  /\ reply[t] = 401
  /\ attempt[t] = 1
  /\ pc' = [pc EXCEPT ![t] = "invalidate"]
  /\ reply' = [reply EXCEPT ![t] = None]
  /\ UNCHANGED <<uplinkVars, job, attempt, hs, msg, outcome, cloudVars, wire, crashes>>

(* Wrong: forget whatever session is current.                               *)
InvalidateAny(t) ==
  /\ pc[t] = "invalidate"
  /\ LockFree
  /\ current' = None
  /\ pc' = [pc EXCEPT ![t] = "next"]
  /\ attempt' = [attempt EXCEPT ![t] = @ + 1]
  /\ msg' = [msg EXCEPT ![t] = None]
  /\ UNCHANGED <<next_counter, due, job, hs, reply, outcome, cloudVars, wire, crashes>>

(* Forget the rejected session, unless another thread already replaced it.  *)
Invalidate(t) ==
  /\ pc[t] = "invalidate"
  /\ LockFree
  /\ current' = IF current = msg[t].sid THEN None ELSE current
  /\ pc' = [pc EXCEPT ![t] = "next"]
  /\ attempt' = [attempt EXCEPT ![t] = @ + 1]
  /\ msg' = [msg EXCEPT ![t] = None]
  /\ UNCHANGED <<next_counter, due, job, hs, reply, outcome, cloudVars, wire, crashes>>

(* Any other status of 400 or more raises UplinkError.                      *)
RaiseRejected(t) ==
  /\ pc[t] = "waiting"
  /\ reply[t] \in Status \ {202}
  /\ ~(reply[t] = 401 /\ attempt[t] = 1)
  /\ EndSend(t, "failed")
  /\ UNCHANGED <<uplinkVars, cloudVars, wire, crashes>>

Delivered(t) ==
  /\ pc[t] = "waiting"
  /\ reply[t] = 202
  /\ EndSend(t, "ok")
  /\ UNCHANGED <<uplinkVars, cloudVars, wire, crashes>>

(* No request thread answers t any more: the connection was reset.          *)
ConnectionLost(t) ==
  /\ pc[t] = "waiting"
  /\ reply[t] = None
  /\ \A w \in Workers : req[w] # Idle => req[w].to # t

Hangup(T) ==
  req' = [w \in Workers |-> IF req[w] # Idle /\ req[w].to \in T
                            THEN [req[w] EXCEPT !.to = None] ELSE req[w]]

(* Wrong: an unanswered first attempt is sent again.                        *)
RetryUnreachable(t) ==
  /\ "timeout" \in Faults
  /\ pc[t] \in {"posted", "waiting"}
  /\ attempt[t] = 1
  /\ attempt' = [attempt EXCEPT ![t] = 2]
  /\ pc' = [pc EXCEPT ![t] = "next"]
  /\ msg' = [msg EXCEPT ![t] = None]
  /\ reply' = [reply EXCEPT ![t] = None]
  /\ Hangup({t})
  /\ UNCHANGED <<uplinkVars, job, hs, outcome, opened, sessions, expired, noted, seen,
                 stored, wire, crashes>>

(* requests raises: the answer did not come within CLOUD_TIMEOUT_S, or the   *)
(* connection broke.  The cloud may go on processing the request.           *)
RaiseUnreachable(t) ==
  /\ \/ "timeout" \in Faults /\ pc[t] \in {"posted", "waiting"}
     \/ ConnectionLost(t)
  /\ EndSend(t, "failed")
  /\ Hangup({t})
  /\ UNCHANGED <<uplinkVars, opened, sessions, expired, noted, seen, stored, wire, crashes>>

-----------------------------------------------------------------------------
(* The cloud: pqc_session with _prune_sessions, and ingest_sealed.          *)

(* pqc_session reads the clock before it takes the lock: a session that       *)
(* expires in between is alive by that reading.                             *)
ReadClock(c) ==
  /\ c \in Threads => pc[c] = "handshake" /\ hs[c] = None
  /\ noted[c] = None
  /\ noted' = [noted EXCEPT ![c] = sessions \cap expired]
  /\ UNCHANGED <<uplinkVars, threadVars, opened, sessions, expired, seen, req, stored,
                 wire, crashes>>

AddSession(c, kept) ==
  /\ noted[c] # None
  /\ noted' = [noted EXCEPT ![c] = None]
  /\ opened < MaxOpened
  /\ opened' = opened + 1
  /\ sessions' = kept \cup {opened + 1}

(* The newest n of a set of sessions.                                       *)
Newest(S, n) == {s \in S : Cardinality({u \in S : u >= s}) <= n}

(* Wrong: one session more than the cap.                                    *)
InsertOneTooMany(c) == AddSession(c, Newest(sessions \ noted[c], MAX_SESSIONS))

(* Wrong: expired sessions are not dropped first.                           *)
InsertWithoutExpiry(c) == AddSession(c, Newest(sessions, MAX_SESSIONS - 1))

(* Under the lock: drop the sessions that have expired by that reading, then *)
(* the oldest ones until a place is free, and insert a new one.              *)
InsertSession(c) == AddSession(c, Newest(sessions \ noted[c], MAX_SESSIONS - 1))

(* The cloud answers the handshake of thread t with a new session.          *)
OpenSession(t) ==
  /\ pc[t] = "handshake"
  /\ hs[t] = None
  /\ InsertSession(t)
  /\ hs' = [hs EXCEPT ![t] = opened + 1]
  /\ UNCHANGED <<uplinkVars, pc, job, attempt, msg, reply, outcome,
                 expired, seen, req, stored, wire, crashes>>

(* A session this gateway does not use: another gateway's handshake, or one *)
(* whose answer came after its caller had given up.                         *)
OpenForeignSession(c) ==
  /\ InsertSession(c)
  /\ UNCHANGED <<uplinkVars, threadVars, expired, seen, req, stored, wire, crashes>>

(* The request of thread t reaches an idle request thread.                  *)
Deliver(t, w, intact) ==
  /\ intact \/ "corrupt" \in Faults
  /\ pc[t] = "posted"
  /\ req[w] = Idle
  /\ req' = [req EXCEPT ![w] = [pc |-> "lookup", msg |-> msg[t],
                                to |-> t, intact |-> intact]]
  /\ pc' = [pc EXCEPT ![t] = "waiting"]
  /\ UNCHANGED <<uplinkVars, job, attempt, hs, msg, reply, outcome,
                 opened, sessions, expired, noted, seen, stored, wire, crashes>>

(* A message arrives once more, or late, on a connection of its own.        *)
Redeliver(m, w, intact) ==
  /\ "redeliver" \in Faults
  /\ intact \/ "corrupt" \in Faults
  /\ req[w] = Idle
  /\ req' = [req EXCEPT ![w] = [pc |-> "lookup", msg |-> m,
                                to |-> None, intact |-> intact]]
  /\ UNCHANGED <<uplinkVars, threadVars, opened, sessions, expired, noted, seen, stored,
                 wire, crashes>>

Answer(w, status) ==
  /\ req' = [req EXCEPT ![w] = Idle]
  /\ reply' = [t \in Threads |-> IF req[w].to = t THEN status ELSE reply[t]]
  /\ UNCHANGED <<uplinkVars, pc, job, attempt, hs, msg, outcome,
                 opened, sessions, expired, noted, wire, crashes>>

Known(s) == s \in sessions \ expired

(* Wrong: the counter is recorded before the message is authenticated.      *)
LookupAndBurn(w) ==
  /\ req[w] # Idle
  /\ req[w].pc = "lookup"
  /\ Known(req[w].msg.sid)
  /\ seen' = [seen EXCEPT ![req[w].msg.sid] = @ \cup {req[w].msg.ctr}]
  /\ req' = [req EXCEPT ![w].pc = "open"]
  /\ UNCHANGED <<uplinkVars, threadVars, opened, sessions, expired, noted, stored,
                 wire, crashes>>

(* First locked region: find the session.                                   *)
Lookup(w) ==
  /\ req[w] # Idle
  /\ req[w].pc = "lookup"
  /\ Known(req[w].msg.sid)
  /\ req' = [req EXCEPT ![w].pc = "open"]
  /\ UNCHANGED <<uplinkVars, threadVars, opened, sessions, expired, noted, seen, stored,
                 wire, crashes>>

RefuseUnknown(w) ==
  /\ req[w] # Idle
  /\ req[w].pc = "lookup"
  /\ ~Known(req[w].msg.sid)
  /\ Answer(w, 401)
  /\ UNCHANGED <<seen, stored>>

(* open_sealed, outside the lock: altered bytes never authenticate.         *)
RefuseTampered(w) ==
  /\ req[w] # Idle
  /\ req[w].pc = "open"
  /\ ~req[w].intact
  /\ Answer(w, 400)
  /\ UNCHANGED <<seen, stored>>

Authentic(w) == req[w] # Idle /\ req[w].pc = "open" /\ req[w].intact

Replayed(w) == req[w].msg.ctr \in seen[req[w].msg.sid]

Full(w) == Cardinality(seen[req[w].msg.sid]) >= SESSION_MAX_MESSAGES

(* Wrong: the replay set is measured and not searched.                      *)
FreshIfRoom(w) == ~Full(w)

Fresh(w) == ~Replayed(w) /\ ~Full(w)

(* Second locked region, on the Session object found before, which may have *)
(* left the table since: refuse a replay with 409 and a full session with   *)
(* 401, or record the counter.                                              *)
RefuseCounter(w) ==
  /\ Authentic(w)
  /\ ~Fresh(w)
  /\ Answer(w, IF Replayed(w) THEN 409 ELSE 401)
  /\ UNCHANGED <<seen, stored>>

RecordCounter(w) ==
  /\ Authentic(w)
  /\ Fresh(w)
  /\ seen' = [seen EXCEPT ![req[w].msg.sid] = @ \cup {req[w].msg.ctr}]
  /\ req' = [req EXCEPT ![w].pc = "store"]
  /\ UNCHANGED <<uplinkVars, threadVars, opened, sessions, expired, noted, stored,
                 wire, crashes>>

(* Reading.model_validate_json, then _store.                                *)
StoreReading(w) ==
  /\ req[w] # Idle
  /\ req[w].pc = "store"
  /\ req[w].msg.reading \in Valid
  /\ stored' = [stored EXCEPT ![req[w].msg.reading] = @ + 1]
  /\ Answer(w, 202)
  /\ UNCHANGED seen

RefuseInvalid(w) ==
  /\ req[w] # Idle
  /\ req[w].pc = "store"
  /\ req[w].msg.reading \notin Valid
  /\ Answer(w, 422)
  /\ UNCHANGED <<seen, stored>>

-----------------------------------------------------------------------------
(* The environment: clocks and restarts.                                    *)

(* A session passes its lifetime on the gateway's clock (RENEW_MARGIN_S     *)
(* early) or on the cloud's.  How the two deadlines relate is left open, and *)
(* so is the order in which sessions expire: expires_at is counted from the  *)
(* clock read before the lock, and sessions are numbered under it.  Only     *)
(* deadlines that are compared again count.                                 *)
RenewalDue(s) ==
  /\ "renew" \in Faults
  /\ s = current
  /\ s \notin due
  /\ due' = due \cup {s}
  /\ UNCHANGED <<current, next_counter, threadVars, cloudVars, wire, crashes>>

SessionExpires(s) ==
  /\ "expire" \in Faults
  /\ s \in sessions \ expired
  /\ expired' = expired \cup {s}
  /\ UNCHANGED <<uplinkVars, threadVars, opened, sessions, noted, seen, req, stored,
                 wire, crashes>>

(* The cloud process restarts: the table and every request in progress are  *)
(* gone; connections are reset unless their answer was already under way.   *)
CloudRestart ==
  /\ "cloud_restart" \in Faults
  /\ crashes < MaxCrashes
  /\ crashes' = crashes + 1
  /\ sessions' = {}
  /\ noted' = [c \in Callers |-> None]
  /\ req' = [w \in Workers |-> Idle]
  /\ UNCHANGED <<uplinkVars, threadVars, opened, expired, seen, stored, wire>>

(* The gateway process restarts: uplink and threads start afresh and the    *)
(* readings they were sending are given up.                                 *)
GatewayRestart ==
  /\ "gateway_restart" \in Faults
  /\ crashes < MaxCrashes
  /\ crashes' = crashes + 1
  /\ current' = None
  /\ pc' = [t \in Threads |-> "idle"]
  /\ job' = [t \in Threads |-> None]
  /\ attempt' = [t \in Threads |-> 1]
  /\ hs' = [t \in Threads |-> None]
  /\ msg' = [t \in Threads |-> None]
  /\ reply' = [t \in Threads |-> None]
  /\ outcome' = [r \in Readings |-> IF \E t \in Threads : job[t] = r
                                    THEN "failed" ELSE outcome[r]]
  /\ Hangup(Threads)
  /\ noted' = [c \in Callers |-> IF c \in Threads THEN None ELSE noted[c]]
  /\ UNCHANGED <<next_counter, due, opened, sessions, expired, seen, stored, wire>>

-----------------------------------------------------------------------------
GatewayStep(t) ==
  \/ NextMessage(t) \/ BeginHandshake(t) \/ FinishHandshake(t) \/ FailHandshake(t)
  \/ Rejected401(t) \/ Invalidate(t) \/ RaiseRejected(t) \/ Delivered(t)
  \/ RaiseUnreachable(t)

CloudStep(w) ==
  \/ Lookup(w) \/ RefuseUnknown(w) \/ RefuseTampered(w) \/ RefuseCounter(w)
  \/ RecordCounter(w) \/ StoreReading(w) \/ RefuseInvalid(w)

Environment ==
  \/ \E s \in SID : RenewalDue(s) \/ SessionExpires(s)
  \/ \E c \in Callers : ReadClock(c)
  \/ \E c \in Others : OpenForeignSession(c)
  \/ CloudRestart
  \/ GatewayRestart

Next ==
  \/ \E t \in Threads :
       \/ \E r \in Readings : Submit(t, r)
       \/ GatewayStep(t)
       \/ OpenSession(t)
       \/ \E w \in Workers, intact \in BOOLEAN : Deliver(t, w, intact)
  \/ \E w \in Workers :
       \/ CloudStep(w)
       \/ \E m \in wire, intact \in BOOLEAN : Redeliver(m, w, intact)
  \/ Environment

Spec == Init /\ [][Next]_vars

(* Threads of both processes keep running, requests made with a timeout end  *)
(* one way or the other, and a released lock is taken by a thread that waits *)
(* for it.  Nothing is assumed of the cloud's answers or of the network.     *)
FairSpec ==
  /\ Spec
  /\ \A t \in Threads : WF_vars(GatewayStep(t))
  /\ \A w \in Workers : WF_vars(CloudStep(w))

-----------------------------------------------------------------------------
(* Properties.                                                              *)

(* The values each variable takes.                                          *)
TypeOK ==
  /\ current \in SID \cup {None}
  /\ next_counter \in [SID -> Nat]
  /\ due \subseteq SID
  /\ pc \in [Threads -> {"idle", "next", "handshake", "posted", "waiting", "invalidate"}]
  /\ job \in [Threads -> Readings \cup {None}]
  /\ attempt \in [Threads -> {1, 2}]
  /\ hs \in [Threads -> SID \cup {None}]
  /\ msg \in [Threads -> Message \cup {None}]
  /\ reply \in [Threads -> Status \cup {None}]
  /\ outcome \in [Readings -> {"new", "sending", "ok", "failed"}]
  /\ opened \in 0..MaxOpened
  /\ sessions \subseteq 1..opened
  /\ expired \subseteq 1..opened
  /\ noted \in [Callers -> (SUBSET SID) \cup {None}]
  /\ seen \in [SID -> SUBSET Nat]
  /\ req \in [Workers -> Request \cup {Idle}]
  /\ stored \in [Readings -> Nat]
  /\ wire \subseteq Message
  /\ crashes \in 0..MaxCrashes

(* "Every message gets a unique counter, which is what keeps GCM nonces from *)
(* ever repeating" (PqcUplink): over the whole life of the gateway, whatever *)
(* threads, retries, renewals and restarts do, no two messages are sealed    *)
(* under one session with one counter.                                      *)
NonceUnique ==
  \A m, n \in wire : m.sid = n.sid /\ m.ctr = n.ctr => m = n

(* The gateway's count of the messages of a session keeps within the cap of *)
(* the cloud's replay set: a genuine message that is not a replay is never   *)
(* refused because its session is full, however threads interleave.         *)
CapNeverRefuses ==
  \A w \in Workers : Authentic(w) /\ ~Replayed(w) => ~Full(w)

(* A counter is used up by its own message only: once it is in              *)
(* seen_counters, the reading sealed under it was stored, is about to be, or *)
(* was refused as invalid.  Altered or unfinished traffic never burns the   *)
(* counter of a message that is still to come.  (A restart of the cloud      *)
(* between the two steps of a request loses its reading.)                   *)
BurnedOnlyByItsMessage ==
  \A m \in wire : m.ctr \in seen[m.sid] =>
    \/ stored[m.reading] > 0
    \/ m.reading \notin Valid
    \/ \E w \in Workers : req[w] # Idle /\ req[w].pc = "store" /\ req[w].msg = m
    \/ crashes > 0

(* _prune_sessions keeps the table within MAX_SESSIONS ...                  *)
SessionsBounded == Cardinality(sessions) <= MAX_SESSIONS

(* ... and costs a session that has not expired its place only when          *)
(* MAX_SESSIONS of the sessions were alive at the moment the request that    *)
(* takes the place read the clock, and every older one goes as well.  (Not   *)
(* at the moment it takes the place, as the docstring of _prune_sessions has *)
(* it: a session that expired while the request waited for the lock counts   *)
(* as alive and keeps its place.)                                           *)
EvictsOnlyWhenFull ==
  [][\A s \in (sessions \ expired) \ sessions' :
       \/ crashes' # crashes
       \/ \E c \in Callers :
            /\ noted[c] # None /\ noted'[c] = None
            /\ Cardinality(sessions \ noted[c]) >= MAX_SESSIONS
            /\ \A u \in sessions' : s < u]_vars

(* The replay set of a session takes each message once, in whatever number   *)
(* of copies it arrives and whatever becomes of the session in between: a     *)
(* reading is never stored more often than the gateway has sealed it.        *)
StoredOncePerMessage ==
  \A r \in Readings : stored[r] <= Cardinality({m \in wire : m.reading = r})

(* The uplink lets go of its session only when the session is of no more     *)
(* use: over its lifetime or its budget, unknown to the cloud, or forgotten  *)
(* with the process.  Neither a late 401 for an older session nor a second   *)
(* handshake of another thread throws a good session away.                  *)
SessionReplacedOnlyWhenUseless ==
  [][\A s \in SID : current = s /\ current' # s =>
       \/ s \in due
       \/ next_counter[s] >= SESSION_MAX_MESSAGES
       \/ ~Known(s)
       \/ crashes' # crashes]_vars

(* The hop keeps the promise of ReadingDelivery: each reading is stored at   *)
(* most once, success is reported only of a stored reading, and outcomes are *)
(* final, across timeouts, retries, renewals and restarts of both processes. *)
Delivery == INSTANCE ReadingDelivery
Delivers == Delivery!Spec

(* Every call of send() returns or raises: no thread waits for ever on the   *)
(* lock, on the handshake another thread performs under it, or on the cloud. *)
EverySendEnds ==
  \A r \in Readings : outcome[r] = "sending" ~> outcome[r] \in {"ok", "failed"}

(* gateway.py says of a failed forward that the reading is permanently lost: *)
(* it would never be stored then.                                           *)
FailedMeansLost ==
  \A r \in Readings : outcome[r] = "failed" => stored[r] = 0
=============================================================================
