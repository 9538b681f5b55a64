------------------------------ MODULE Handshake ------------------------------
(***************************************************************************)
(* The ML-KEM handshake between the gateway (PqcUplink, edge_gateway/        *)
(* gateway.py) and the cloud (cloud_service/app.py), with the primitives of  *)
(* pqc_channel/channel.py and the cloud's key file.                         *)
(*                                                                         *)
(* Cryptography is symbolic: key n belongs to its n-th generation, a         *)
(* ciphertext names the key and the encapsulation, and every hash, HMAC and  *)
(* HKDF output is the tuple of its inputs.  One request runs at a time       *)
(* (_lock); a request the gateway gave up on may still reach the cloud.      *)
(* Messages under way can be damaged.  The lifetime and the message limit    *)
(* an answer carries are left out, and so are the handshake counters.       *)
(***************************************************************************)
EXTENDS Naturals, Sequences

CONSTANTS
  MaxFaults,  \* bound: crashes, restarts, damage, timeouts, renewals in a run
  None

ASSUME HandshakeAssumption == MaxFaults \in Nat /\ None \notin Nat

Torn == 0                     \* a key file cut short
AlteredKey == MaxFaults + 2   \* a damaged public key: no generated one

VARIABLES
  key_file_set,  \* CLOUD_KEM_KEY_FILE
  configured,    \* --cloud-key-fingerprint: the cloud's first key, or None
  file,          \* the key file: None, Torn, or a key
  cloud,         \* "down", "creating" (the key file) or "serving"
  key,           \* _kem_private_key, _kem_public_key
  keys,          \* key pairs generated
  served,        \* history: keys the cloud has served
  table,         \* _sessions: the ids of those alive
  made,          \* history: sessions opened, by id
  wire,          \* session requests under way
  sent,          \* history: session requests as the gateway made them
  answer,        \* the 201 under way to the gateway, or None
  pinned,        \* self.pinned
  session,       \* _session
  pc,            \* where _do_handshake is: "idle", "get" or "post"
  cloud_pk,      \* its local of that name
  hs,            \* handshakes that got as far as the session request
  faults

cloudVars == <<file, cloud, key, keys, served, table, made>>
gatewayVars == <<pinned, session, pc, cloud_pk, hs>>
netVars == <<wire, sent, answer>>
settings == <<key_file_set, configured>>
vars == <<settings, cloudVars, gatewayVars, netVars, faults>>

Init ==
  /\ key_file_set \in BOOLEAN
  /\ configured \in {None, 1}
  /\ file = None /\ cloud = "down" /\ key = None /\ keys = 0
  /\ served = {} /\ table = {} /\ made = <<>>
  /\ wire = {} /\ sent = {} /\ answer = None
  /\ pinned = configured /\ session = None
  /\ pc = "idle" /\ cloud_pk = None /\ hs = 0
  /\ faults = 0

Fault == faults < MaxFaults /\ faults' = faults + 1

-----------------------------------------------------------------------------
(* channel.py.                                                              *)

Ciphertext(pk, n) == [to |-> pk, n |-> n, intact |-> TRUE]
EphemeralKey(n) == [n |-> n, intact |-> TRUE]

(* Implicit rejection: a wrong key or ciphertext gives another secret.      *)
Decapsulate(sk, ct) == <<sk, ct>>

DeriveSessionKeys(pk, ct, eph, eph_ct) ==
  [static |-> Decapsulate(pk, ct), ephemeral |-> Decapsulate(eph, eph_ct),
   transcript |-> <<pk, ct, eph, eph_ct>>]

GatewayProof(ct, eph) == <<ct, eph>>
ConfirmationTag(ks, sid) == [keys |-> ks, sid |-> sid]

-----------------------------------------------------------------------------
(* The cloud process.                                                       *)

Serve(k) == cloud' = "serving" /\ key' = k /\ served' = served \cup {k}

(* Wrong: the key file is not used.                                         *)
StartWithoutFile ==
  /\ cloud = "down"
  /\ keys' = keys + 1
  /\ Serve(keys')
  /\ UNCHANGED <<settings, file, table, made, gatewayVars, netVars, faults>>

(* _load_or_create_keypair.  A file that does not parse ends the process.    *)
StartCloud ==
  /\ cloud = "down"
  /\ \/ /\ ~key_file_set
        /\ keys' = keys + 1
        /\ Serve(keys')
        /\ UNCHANGED file
     \/ /\ key_file_set
        /\ file \notin {None, Torn}
        /\ Serve(file)
        /\ UNCHANGED <<file, keys>>
     \/ /\ key_file_set
        /\ file = None
        /\ keys' = keys + 1
        /\ cloud' = "creating" /\ key' = keys' /\ file' = Torn
        /\ UNCHANGED served
  /\ UNCHANGED <<settings, table, made, gatewayVars, netVars, faults>>

(* write_text returns: the file is whole, and the application starts.       *)
FinishFile ==
  /\ cloud = "creating"
  /\ file' = key
  /\ Serve(key)
  /\ UNCHANGED <<settings, keys, table, made, gatewayVars, netVars, faults>>

(* The process dies: with it the sessions and the requests it held.         *)
CrashCloud ==
  /\ cloud # "down"
  /\ Fault
  /\ cloud' = "down" /\ key' = None /\ table' = {} /\ wire' = {}
  /\ UNCHANGED <<settings, file, keys, served, made, gatewayVars, sent, answer>>

(* The state of pqc_session's answer and session for request r.             *)
Opened(r) ==
  LET sid == Len(made) + 1
      eph_ct == Ciphertext(r.eph, sid)
      ks == DeriveSessionKeys(key, r.ct, r.eph, eph_ct)
  IN /\ made' = Append(made, [keys |-> ks, by |-> key, request |-> r])
     /\ table' = table \cup {sid}
     /\ answer' = IF pc = "post" /\ r.n = hs
                    THEN [sid |-> sid, eph_ct |-> eph_ct, tag |-> ConfirmationTag(ks, sid)]
                    ELSE answer

(* Wrong: the gateway's proof is not checked.                               *)
OpenUnproven(r) ==
  /\ cloud = "serving"
  /\ wire' = wire \ {r}
  /\ Opened(r)
  /\ UNCHANGED <<settings, file, cloud, key, keys, served, gatewayVars, sent, faults>>

(* pqc_session: 401 without a proof that fits, else a session.              *)
OpenSession(r) ==
  /\ cloud = "serving"
  /\ wire' = wire \ {r}
  /\ IF r.proof = GatewayProof(r.ct, r.eph)
       THEN Opened(r)
       ELSE UNCHANGED <<made, table, answer>>
  /\ UNCHANGED <<settings, file, cloud, key, keys, served, gatewayVars, sent, faults>>

(* A session reaches its time or message limit.                             *)
DropSession(sid) ==
  /\ Fault
  /\ table' = table \ {sid}
  /\ UNCHANGED <<settings, file, cloud, key, keys, served, made, gatewayVars, netVars>>

-----------------------------------------------------------------------------
(* The gateway.                                                             *)

EndHandshake == pc' = "idle" /\ answer' = None

(* _next_message without a session, or with one that is due (a fault).      *)
BeginHandshake ==
  /\ pc = "idle"
  /\ \/ session = None /\ UNCHANGED faults
     \/ session # None /\ Fault
  /\ pc' = "get"
  /\ UNCHANGED <<settings, cloudVars, pinned, session, cloud_pk, hs, netVars>>

(* The body of GET public-key: the cloud's, or damaged on the way.           *)
Received(pk) ==
  /\ pc = "get"
  /\ cloud = "serving"
  /\ \/ pk = key /\ UNCHANGED faults
     \/ pk = AlteredKey /\ Fault

(* The fingerprint fits or is the first: pin it, and ask for a session.      *)
AcceptKey(pk) ==
  /\ Received(pk)
  /\ pinned \in {None, pk}
  /\ pinned' = pk
  /\ cloud_pk' = pk
  /\ hs' = hs + 1
  /\ LET ct == Ciphertext(pk, hs')
         eph == EphemeralKey(hs')
         r == [n |-> hs', ct |-> ct, eph |-> eph, proof |-> GatewayProof(ct, eph)]
     IN wire' = wire \cup {r} /\ sent' = sent \cup {r}
  /\ pc' = "post"
  /\ UNCHANGED <<settings, cloudVars, session, answer>>

(* The fingerprint differs from the pinned one, or encapsulate() finds the   *)
(* damage, after the pin is set.                                            *)
RejectKey(pk) ==
  /\ Received(pk)
  /\ pinned # pk
  /\ \/ pinned # None /\ UNCHANGED pinned
     \/ pinned = None /\ pk = AlteredKey /\ pinned' = pk
  /\ EndHandshake
  /\ UNCHANGED <<settings, cloudVars, session, cloud_pk, hs, wire, sent>>

(* The keys the gateway derives from the answer.                            *)
GatewayKeys ==
  DeriveSessionKeys(cloud_pk, Ciphertext(cloud_pk, hs), EphemeralKey(hs), answer.eph_ct)

(* Wrong: the confirmation is not verified.                                 *)
FinishUnverified ==
  /\ pc = "post"
  /\ answer # None
  /\ session' = [sid |-> answer.sid, keys |-> GatewayKeys]
  /\ EndHandshake
  /\ UNCHANGED <<settings, cloudVars, pinned, cloud_pk, hs, wire, sent, faults>>

(* verify_confirmation raises, or the session becomes the current one.      *)
FinishHandshake ==
  /\ pc = "post"
  /\ answer # None
  /\ session' = IF answer.tag = ConfirmationTag(GatewayKeys, answer.sid)
                  THEN [sid |-> answer.sid, keys |-> GatewayKeys]
                  ELSE session
  /\ EndHandshake
  /\ UNCHANGED <<settings, cloudVars, pinned, cloud_pk, hs, wire, sent, faults>>

CloudOwesAnswer ==
  /\ cloud = "serving"
  /\ pc = "post" => answer # None \/ \E r \in wire : r.n = hs

(* A request of the handshake fails: refused, reset, a status that is not    *)
(* 200 or 201, a timeout.  The cloud has not failed to answer without one.   *)
FailHandshake ==
  /\ pc # "idle"
  /\ IF CloudOwesAnswer THEN Fault ELSE UNCHANGED faults
  /\ EndHandshake
  /\ UNCHANGED <<settings, cloudVars, pinned, session, cloud_pk, hs, wire, sent>>

(* Wrong: a session the cloud has dropped is kept.                          *)
InvalidateOtherKeys ==
  /\ pc = "idle"
  /\ cloud = "serving"
  /\ session # None
  /\ made[session.sid].keys # session.keys
  /\ session' = None
  /\ UNCHANGED <<settings, cloudVars, pinned, pc, cloud_pk, hs, netVars, faults>>

(* send() gets a 401 for a session the cloud does not have under that key,   *)
(* and _invalidate forgets it.                                              *)
Invalidate ==
  /\ pc = "idle"
  /\ cloud = "serving"
  /\ session # None
  /\ session.sid \notin table \/ made[session.sid].keys # session.keys
  /\ session' = None
  /\ UNCHANGED <<settings, cloudVars, pinned, pc, cloud_pk, hs, netVars, faults>>

(* The process is started again: __init__.                                  *)
GatewayRestart ==
  /\ Fault
  /\ pinned' = configured
  /\ session' = None
  /\ EndHandshake
  /\ UNCHANGED <<settings, cloudVars, cloud_pk, hs, wire, sent>>

-----------------------------------------------------------------------------
(* Damage: a field arrives as something else of its length.                 *)

Damaged(r) ==
  {[r EXCEPT !.ct.intact = FALSE], [r EXCEPT !.eph.intact = FALSE],
   [r EXCEPT !.proof = <<>>]}

DamageRequest(r) ==
  /\ r \in sent
  /\ Fault
  /\ \E d \in Damaged(r) : wire' = (wire \ {r}) \cup {d}
  /\ UNCHANGED <<settings, cloudVars, gatewayVars, sent, answer>>

(* A damaged id can happen to be one of another session.                    *)
DamageAnswer ==
  /\ answer # None
  /\ Fault
  /\ answer' \in {[answer EXCEPT !.eph_ct.intact = FALSE], [answer EXCEPT !.tag = <<>>]}
                 \cup {[answer EXCEPT !.sid = s] : s \in DOMAIN made}
  /\ UNCHANGED <<settings, cloudVars, gatewayVars, wire, sent>>

-----------------------------------------------------------------------------
CloudStep == StartCloud \/ FinishFile \/ \E r \in wire : OpenSession(r)

GatewayStep ==
  \/ BeginHandshake \/ FinishHandshake \/ FailHandshake \/ Invalidate
  \/ \E pk \in {key, AlteredKey} : AcceptKey(pk) \/ RejectKey(pk)

Environment ==
  \/ CrashCloud \/ GatewayRestart \/ DamageAnswer
  \/ \E sid \in table : DropSession(sid)
  \/ \E r \in wire : DamageRequest(r)

Next == CloudStep \/ GatewayStep \/ Environment

Spec == Init /\ [][Next]_vars

(* A cloud that died is started again and serves its requests; readings     *)
(* keep coming at the gateway.                                              *)
FairSpec == Spec /\ WF_vars(CloudStep) /\ WF_vars(GatewayStep)
-----------------------------------------------------------------------------
(* Properties.                                                              *)

(* channel.py: "Only the holder of the pinned key's private half could have  *)
(* produced this tag."  The gateway's session is one the cloud opened with   *)
(* the key the gateway has pinned, and both sides hold the same keys,        *)
(* whatever was damaged, however old the answer.                            *)
Authentic ==
  session # None =>
    /\ session.sid \in DOMAIN made
    /\ made[session.sid].keys = session.keys
    /\ made[session.sid].by = pinned

(* "Bound to the handshake values": every session on the cloud answers a     *)
(* request exactly as the gateway made it.                                  *)
ProofBindsRequest == \A sid \in DOMAIN made : made[sid].request \in sent

(* "With a path, the pair survives restarts, which is required once gateways *)
(* pin": a cloud with a key file never serves two keys, wherever it crashes. *)
ServedKeyPersists == key_file_set => \A j, k \in served : j = k

InSession == session # None /\ session.sid \in table

(* With a key file the gateway comes to have a session again after crashes,  *)
(* restarts, expiry and damage, except in two cases only an operator ends:   *)
(* the key file was left torn, or a first use pinned a damaged key.         *)
RecoversWithKeyFile ==
  key_file_set =>
    <>[](file = Torn \/ InSession \/ (cloud = "serving" /\ pinned \notin {None, key}))
=============================================================================
