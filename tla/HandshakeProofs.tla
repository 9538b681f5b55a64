--------------------------- MODULE HandshakeProofs ---------------------------
(***************************************************************************)
(* Theorems about Handshake, for runs with any number of crashes, restarts,  *)
(* damaged messages and timeouts.                                           *)
(***************************************************************************)
EXTENDS Handshake, TLAPS

Ciphertexts(Owners) == [to: Owners, n: Nat, intact: BOOLEAN]
EphemeralKeys == [n: Nat, intact: BOOLEAN]
StaticCts == Ciphertexts(Nat)
EphemeralCts == Ciphertexts(EphemeralKeys)
Requests ==
  [n: Nat, ct: StaticCts, eph: EphemeralKeys, proof: (StaticCts \X EphemeralKeys) \cup {<<>>}]
SessionKeys ==
  [static: Nat \X StaticCts, ephemeral: EphemeralKeys \X EphemeralCts,
   transcript: Nat \X StaticCts \X EphemeralKeys \X EphemeralCts]
Tags == [keys: SessionKeys, sid: Nat] \cup {<<>>}
Answers == [sid: Nat, eph_ct: EphemeralCts, tag: Tags]
Openings == [keys: SessionKeys, by: Nat, request: Requests]

(* The values of the variables the properties are about.                    *)
HandshakeTypeOK ==
  /\ file \in Nat \cup {None}
  /\ key \in Nat \cup {None}
  /\ cloud \in {"creating", "serving"} => key \in Nat
  /\ keys \in Nat
  /\ made \in Seq(Openings)
  /\ wire \subseteq Requests
  /\ sent \subseteq Requests
  /\ answer \in Answers \cup {None}
  /\ pinned \in Nat \cup {None}
  /\ configured \in Nat \cup {None}
  /\ pc = "post" => cloud_pk \in Nat
  /\ hs \in Nat

(* The gateway makes whole requests; one under way is one of them, or its    *)
(* proof does not fit.                                                      *)
DamageShows ==
  /\ \A r \in sent : r.proof = GatewayProof(r.ct, r.eph) /\ r.ct.intact /\ r.eph.intact
  /\ \A r \in wire : r \in sent \/ r.proof # GatewayProof(r.ct, r.eph)

(* A tag under way is that of a session on the cloud, or damaged.           *)
TagsAreMade ==
  answer # None =>
    \/ answer.tag = <<>>
    \/ \E s \in DOMAIN made : answer.tag = ConfirmationTag(made[s].keys, s)

(* The keys of a session name the key it was opened with.                   *)
KeysNameTheirKey == \A s \in DOMAIN made : made[s].keys.transcript[1] = made[s].by

(* During the session request the gateway's local is the pinned key.        *)
PinHolds == pc = "post" => cloud_pk = pinned

(* The one key a key file has held is the one that was served.              *)
FileHoldsServed ==
  key_file_set =>
    /\ served \subseteq {file}
    /\ cloud = "serving" => key = file
    /\ cloud = "creating" => served = {}
    /\ file = None => served = {}

IInv ==
  /\ HandshakeTypeOK /\ DamageShows /\ TagsAreMade /\ KeysNameTheirKey /\ PinHolds
  /\ FileHoldsServed /\ Authentic /\ ProofBindsRequest

-----------------------------------------------------------------------------
LEMMA Initially == Init => IInv
<1> SUFFICES ASSUME Init
             PROVE  IInv
  OBVIOUS
<1>1. HandshakeTypeOK
  BY DEF Init, HandshakeTypeOK
<1>2. /\ DamageShows /\ TagsAreMade /\ KeysNameTheirKey /\ PinHolds
      /\ FileHoldsServed /\ Authentic /\ ProofBindsRequest
  BY DEF Init, DamageShows, TagsAreMade, KeysNameTheirKey, PinHolds, FileHoldsServed, Authentic,
         ProofBindsRequest
<1> QED
  BY <1>1, <1>2 DEF IInv

(* What pqc_session adds.                                                   *)
LEMMA OpenedAppends ==
  ASSUME HandshakeTypeOK, cloud = "serving", NEW r \in wire, Opened(r)
  PROVE  \E o \in Openings :
           /\ made' = Append(made, o)
           /\ o.request = r
           /\ o.by = key
           /\ o.keys.transcript[1] = o.by
           /\ \/ answer' = answer
              \/ /\ answer' \in Answers
                 /\ answer'.tag = ConfirmationTag(o.keys, Len(made) + 1)
<1> DEFINE sid == Len(made) + 1
           eph_ct == Ciphertext(r.eph, sid)
           ks == DeriveSessionKeys(key, r.ct, r.eph, eph_ct)
           o == [keys |-> ks, by |-> key, request |-> r]
<1>1. r \in Requests /\ key \in Nat /\ sid \in Nat
  BY DEF HandshakeTypeOK
<1>2. r.eph \in EphemeralKeys /\ r.ct \in StaticCts
  BY <1>1 DEF Requests
<1>3. eph_ct \in EphemeralCts
  BY <1>1, <1>2 DEF Ciphertext, EphemeralCts, Ciphertexts
<1>4. /\ ks \in SessionKeys
      /\ ks.transcript[1] = key
  BY <1>1, <1>2, <1>3 DEF DeriveSessionKeys, Decapsulate, SessionKeys
<1>5. [sid |-> sid, eph_ct |-> eph_ct, tag |-> ConfirmationTag(ks, sid)] \in Answers
  BY <1>1, <1>3, <1>4 DEF Answers, Tags, ConfirmationTag
<1>6. o \in Openings
  BY <1>1, <1>4 DEF Openings
<1>7. /\ made' = Append(made, o)
      /\ \/ answer' = answer
         \/ answer' = [sid |-> sid, eph_ct |-> eph_ct, tag |-> ConfirmationTag(ks, sid)]
  BY DEF Opened
<1> HIDE DEF ks, eph_ct
<1> QED
  BY <1>4, <1>5, <1>6, <1>7

(* What the gateway sends is typed and carries a proof that fits.           *)
LEMMA OpenSessionStep ==
  ASSUME IInv, NEW r \in wire, OpenSession(r)
  PROVE  IInv'
<1>0. /\ UNCHANGED <<settings, file, cloud, key, keys, served, gatewayVars, sent, faults>>
      /\ wire' = wire \ {r}
      /\ cloud = "serving"
  BY DEF OpenSession
<1>1. CASE r.proof # GatewayProof(r.ct, r.eph)
  <2>1. UNCHANGED <<made, table, answer>>
    BY <1>1 DEF OpenSession
  <2> QED
    BY <1>0, <2>1
    DEF IInv, HandshakeTypeOK, DamageShows, TagsAreMade, KeysNameTheirKey, PinHolds,
        FileHoldsServed, Authentic, ProofBindsRequest, settings, gatewayVars
<1>2. CASE r.proof = GatewayProof(r.ct, r.eph)
  <2>1. Opened(r)
    BY <1>2 DEF OpenSession
  <2>2. PICK o \in Openings :
           /\ made' = Append(made, o)
           /\ o.request = r
           /\ o.by = key
           /\ o.keys.transcript[1] = o.by
           /\ \/ answer' = answer
              \/ /\ answer' \in Answers
                 /\ answer'.tag = ConfirmationTag(o.keys, Len(made) + 1)
    BY <1>0, <2>1, OpenedAppends DEF IInv
  <2>3. r \in sent
    BY <1>2 DEF IInv, DamageShows
  <2>4. /\ made' \in Seq(Openings)
        /\ Len(made') = Len(made) + 1
        /\ DOMAIN made' = 1..Len(made) + 1
        /\ DOMAIN made = 1..Len(made)
        /\ Len(made) \in Nat
        /\ \A s \in DOMAIN made : s \in DOMAIN made' /\ made'[s] = made[s]
        /\ made'[Len(made) + 1] = o
    BY <2>2 DEF IInv, HandshakeTypeOK
  <2>5. HandshakeTypeOK'
    BY <1>0, <2>2, <2>4 DEF IInv, HandshakeTypeOK, settings, gatewayVars
  <2>6. TagsAreMade'
    BY <2>2, <2>4 DEF IInv, TagsAreMade
  <2>7. KeysNameTheirKey' /\ ProofBindsRequest'
    BY <1>0, <2>2, <2>3, <2>4 DEF IInv, KeysNameTheirKey, ProofBindsRequest
  <2>8. Authentic'
    BY <1>0, <2>4 DEF IInv, Authentic, gatewayVars
  <2>9. DamageShows' /\ PinHolds' /\ FileHoldsServed'
    BY <1>0 DEF IInv, DamageShows, PinHolds, FileHoldsServed, gatewayVars, settings
  <2> QED
    BY <2>5, <2>6, <2>7, <2>8, <2>9 DEF IInv
<1> QED
  BY <1>1, <1>2

(* Starting, writing the key file and crashing.                             *)
LEMMA CloudProcessStep ==
  ASSUME IInv, StartCloud \/ FinishFile \/ CrashCloud \/ \E sid \in table : DropSession(sid)
  PROVE  IInv'
<1>1. /\ UNCHANGED <<settings, made, gatewayVars, sent, answer>>
      /\ wire' \subseteq wire
  BY DEF StartCloud, FinishFile, CrashCloud, DropSession, netVars
<1>2. HandshakeTypeOK'
  BY <1>1, HandshakeAssumption
  DEF IInv, HandshakeTypeOK, StartCloud, FinishFile, CrashCloud, DropSession, Serve, Torn,
      settings, gatewayVars
<1>3. FileHoldsServed'
  BY <1>1, HandshakeAssumption
  DEF IInv, HandshakeTypeOK, FileHoldsServed, StartCloud, FinishFile, CrashCloud, DropSession,
      Serve, Torn, settings
<1>4. /\ DamageShows' /\ TagsAreMade' /\ KeysNameTheirKey' /\ PinHolds'
      /\ Authentic' /\ ProofBindsRequest'
  BY <1>1
  DEF IInv, DamageShows, TagsAreMade, KeysNameTheirKey, PinHolds, Authentic, ProofBindsRequest,
      gatewayVars
<1> QED
  BY <1>2, <1>3, <1>4 DEF IInv

(* There is no session before a key is pinned.                              *)
LEMMA SessionPins == IInv /\ session # None => pinned \in Nat
<1> SUFFICES ASSUME IInv, session # None
             PROVE  pinned \in Nat
  OBVIOUS
<1>1. session.sid \in DOMAIN made /\ made[session.sid].by = pinned
  BY DEF IInv, Authentic
<1>2. made[session.sid] \in Openings
  BY <1>1 DEF IInv, HandshakeTypeOK
<1> QED
  BY <1>1, <1>2 DEF Openings

LEMMA AcceptKeyStep ==
  ASSUME IInv, NEW pk \in {key, AlteredKey}, AcceptKey(pk)
  PROVE  IInv'
<1> DEFINE r == [n |-> hs + 1, ct |-> Ciphertext(pk, hs + 1), eph |-> EphemeralKey(hs + 1),
                 proof |-> GatewayProof(Ciphertext(pk, hs + 1), EphemeralKey(hs + 1))]
<1>1. /\ UNCHANGED <<settings, cloudVars, session, answer>>
      /\ wire' = wire \cup {r} /\ sent' = sent \cup {r}
      /\ pinned' = pk /\ cloud_pk' = pk /\ hs' = hs + 1
      /\ pinned \in {None, pk}
  BY DEF AcceptKey
<1>2. pk \in Nat /\ hs + 1 \in Nat
  BY HandshakeAssumption DEF IInv, HandshakeTypeOK, AcceptKey, Received, AlteredKey
<1>3. r \in Requests
  BY <1>2 DEF Requests, StaticCts, Ciphertexts, Ciphertext, EphemeralKeys, EphemeralKey, GatewayProof
<1>4. r.proof = GatewayProof(r.ct, r.eph) /\ r.ct.intact /\ r.eph.intact
  BY DEF Ciphertext, EphemeralKey
<1> HIDE DEF r
<1>5. HandshakeTypeOK'
  BY <1>1, <1>2, <1>3 DEF IInv, HandshakeTypeOK, settings, cloudVars
<1>6. Authentic'
  BY <1>1, SessionPins, HandshakeAssumption DEF IInv, Authentic, cloudVars
<1>7. /\ DamageShows' /\ TagsAreMade' /\ KeysNameTheirKey' /\ PinHolds'
      /\ FileHoldsServed' /\ ProofBindsRequest'
  BY <1>1, <1>4
  DEF IInv, DamageShows, TagsAreMade, KeysNameTheirKey, PinHolds, FileHoldsServed,
      ProofBindsRequest, settings, cloudVars
<1> QED
  BY <1>5, <1>6, <1>7 DEF IInv

(* The confirmation: a tag that fits names a session with the same keys.    *)
LEMMA FinishStep ==
  ASSUME IInv, FinishHandshake
  PROVE  IInv'
<1>1. /\ UNCHANGED <<settings, cloudVars, pinned, cloud_pk, hs, wire, sent, faults>>
      /\ pc = "post" /\ pc' = "idle" /\ answer # None /\ answer' = None
  BY DEF FinishHandshake, EndHandshake
<1>2. Authentic'
  <2>1. CASE answer.tag # ConfirmationTag(GatewayKeys, answer.sid)
    <3>1. session' = session
      BY <2>1 DEF FinishHandshake
    <3> QED
      BY <1>1, <3>1 DEF IInv, Authentic, cloudVars
  <2>2. CASE answer.tag = ConfirmationTag(GatewayKeys, answer.sid)
    <3>1. session' = [sid |-> answer.sid, keys |-> GatewayKeys]
      BY <2>2 DEF FinishHandshake
    <3>2. answer.tag # <<>>
      <4>1. DOMAIN answer.tag = {"keys", "sid"}
        BY <2>2 DEF ConfirmationTag
      <4> QED
        BY <4>1
    <3>3. PICK s \in DOMAIN made : answer.tag = ConfirmationTag(made[s].keys, s)
      BY <1>1, <3>2 DEF IInv, TagsAreMade
    <3>4. s = answer.sid /\ made[s].keys = GatewayKeys
      BY <2>2, <3>3 DEF ConfirmationTag
    <3>5. GatewayKeys.transcript[1] = cloud_pk
      BY DEF GatewayKeys, DeriveSessionKeys
    <3>6. made[s].by = pinned
      BY <1>1, <3>4, <3>5 DEF IInv, KeysNameTheirKey, PinHolds
    <3> QED
      BY <1>1, <3>1, <3>4, <3>6 DEF Authentic, cloudVars
  <2> QED
    BY <2>1, <2>2
<1>3. HandshakeTypeOK'
  BY <1>1 DEF IInv, HandshakeTypeOK, settings, cloudVars
<1>4. /\ DamageShows' /\ TagsAreMade' /\ KeysNameTheirKey' /\ PinHolds'
      /\ FileHoldsServed' /\ ProofBindsRequest'
  BY <1>1
  DEF IInv, DamageShows, TagsAreMade, KeysNameTheirKey, PinHolds, FileHoldsServed,
      ProofBindsRequest, settings, cloudVars
<1> QED
  BY <1>2, <1>3, <1>4 DEF IInv

(* The steps of the gateway that open nothing.                              *)
LEMMA OtherGatewayStep ==
  ASSUME IInv,
         \/ BeginHandshake \/ FailHandshake \/ Invalidate \/ GatewayRestart
         \/ \E pk \in {key, AlteredKey} : RejectKey(pk)
  PROVE  IInv'
<1>1. /\ UNCHANGED <<settings, cloudVars, cloud_pk, hs, wire, sent>>
      /\ answer' \in {answer, None}
      /\ pc' = "post" => pc = "post" /\ pinned' = pinned
      /\ session' \in {session, None}
      /\ session' = None \/ pinned' = pinned \/ (pinned = None /\ pinned' = AlteredKey)
      /\ pinned' \in {pinned, configured, AlteredKey}
  BY DEF BeginHandshake, FailHandshake, Invalidate, GatewayRestart, RejectKey, EndHandshake, netVars
<1>2. AlteredKey \in Nat
  BY HandshakeAssumption DEF AlteredKey
<1>3. HandshakeTypeOK'
  BY <1>1, <1>2 DEF IInv, HandshakeTypeOK, settings, cloudVars
<1>4. Authentic'
  BY <1>1, SessionPins, HandshakeAssumption DEF IInv, Authentic, cloudVars
<1>5. /\ DamageShows' /\ TagsAreMade' /\ KeysNameTheirKey' /\ PinHolds'
      /\ FileHoldsServed' /\ ProofBindsRequest'
  BY <1>1
  DEF IInv, DamageShows, TagsAreMade, KeysNameTheirKey, PinHolds, FileHoldsServed,
      ProofBindsRequest, settings, cloudVars
<1> QED
  BY <1>3, <1>4, <1>5 DEF IInv

LEMMA DamageRequestStep ==
  ASSUME IInv, NEW r \in wire, DamageRequest(r)
  PROVE  IInv'
<1>1. /\ UNCHANGED <<settings, cloudVars, gatewayVars, sent, answer>>
      /\ r \in sent
  BY DEF DamageRequest
<1>2. PICK d \in Damaged(r) : wire' = (wire \ {r}) \cup {d}
  BY DEF DamageRequest
<1>3. r \in Requests
  BY DEF IInv, HandshakeTypeOK
<1>4. d \in Requests
  <2>1. /\ r.ct \in StaticCts /\ [r.ct EXCEPT !.intact = FALSE] \in StaticCts
        /\ r.eph \in EphemeralKeys /\ [r.eph EXCEPT !.intact = FALSE] \in EphemeralKeys
    BY <1>3 DEF Requests, StaticCts, Ciphertexts, EphemeralKeys
  <2>2. d \in {[r EXCEPT !.ct = [r.ct EXCEPT !.intact = FALSE]],
              [r EXCEPT !.eph = [r.eph EXCEPT !.intact = FALSE]], [r EXCEPT !.proof = <<>>]}
    BY <1>2 DEF Damaged
  <2> QED
    BY <1>3, <2>1, <2>2 DEF Requests
<1>5. r.proof = <<r.ct, r.eph>> /\ r.ct.intact /\ r.eph.intact
  BY <1>1 DEF IInv, DamageShows, GatewayProof
<1>6. d.proof # <<d.ct, d.eph>>
  <2>1. CASE d = [r EXCEPT !.ct.intact = FALSE]
    <3>1. d.proof = r.proof /\ d.ct.intact = FALSE
      BY <1>3, <2>1 DEF Requests, StaticCts, Ciphertexts
    <3> QED
      BY <1>5, <3>1
  <2>2. CASE d = [r EXCEPT !.eph.intact = FALSE]
    <3>1. d.proof = r.proof /\ d.eph.intact = FALSE
      BY <1>3, <2>2 DEF Requests, EphemeralKeys
    <3> QED
      BY <1>5, <3>1
  <2>3. CASE d = [r EXCEPT !.proof = <<>>]
    <3>1. d.proof = <<>>
      BY <1>3, <2>3 DEF Requests
    <3> QED
      BY <3>1
  <2> QED
    BY <1>2, <2>1, <2>2, <2>3 DEF Damaged
<1> QED
  BY <1>1, <1>2, <1>4, <1>6
  DEF IInv, HandshakeTypeOK, DamageShows, GatewayProof, TagsAreMade, KeysNameTheirKey, PinHolds,
      FileHoldsServed, Authentic, ProofBindsRequest, settings, cloudVars, gatewayVars

LEMMA DamageAnswerStep ==
  ASSUME IInv, DamageAnswer
  PROVE  IInv'
<1>1. /\ UNCHANGED <<settings, cloudVars, gatewayVars, wire, sent>>
      /\ answer \in Answers
  BY DEF IInv, HandshakeTypeOK, DamageAnswer
<1>2. answer' \in Answers /\ (answer'.tag = answer.tag \/ answer'.tag = <<>>)
  <2>1. DOMAIN made \subseteq Nat
    BY DEF IInv, HandshakeTypeOK
  <2>2. /\ answer.eph_ct \in EphemeralCts
        /\ [answer.eph_ct EXCEPT !.intact = FALSE] \in EphemeralCts
        /\ <<>> \in Tags
    BY <1>1 DEF Answers, Tags, EphemeralCts, Ciphertexts
  <2>3. \/ answer' = [answer EXCEPT !.eph_ct = [answer.eph_ct EXCEPT !.intact = FALSE]]
        \/ answer' = [answer EXCEPT !.tag = <<>>]
        \/ \E s \in DOMAIN made : answer' = [answer EXCEPT !.sid = s]
    BY DEF DamageAnswer
  <2> QED
    BY <1>1, <2>1, <2>2, <2>3 DEF Answers
<1> QED
  BY <1>1, <1>2
  DEF IInv, HandshakeTypeOK, DamageShows, TagsAreMade, KeysNameTheirKey, PinHolds,
      FileHoldsServed, Authentic, ProofBindsRequest, DamageAnswer, settings, cloudVars, gatewayVars

LEMMA Inductive == IInv /\ [Next]_vars => IInv'
<1> SUFFICES ASSUME IInv, [Next]_vars
             PROVE  IInv'
  OBVIOUS
<1>1. CASE CloudStep
  BY <1>1, CloudProcessStep, OpenSessionStep DEF CloudStep
<1>2. CASE GatewayStep
  BY <1>2, AcceptKeyStep, FinishStep, OtherGatewayStep DEF GatewayStep
<1>3. CASE Environment
  BY <1>3, CloudProcessStep, OtherGatewayStep, DamageRequestStep, DamageAnswerStep DEF Environment
<1>4. CASE UNCHANGED vars
  BY <1>4
  DEF vars, IInv, HandshakeTypeOK, DamageShows, TagsAreMade, KeysNameTheirKey, PinHolds,
      FileHoldsServed, Authentic, ProofBindsRequest, settings, cloudVars, gatewayVars, netVars
<1> QED
  BY <1>1, <1>2, <1>3, <1>4 DEF Next

LEMMA Invariant == Spec => []IInv
BY Initially, Inductive, PTL DEF Spec

(* gateway.py: the confirmation "is the step that authenticates the cloud":  *)
(* the gateway only ever has a session the cloud opened with the pinned key  *)
(* and under the same keys.                                                 *)
THEOREM SessionsAreAuthentic == Spec => []Authentic
BY Invariant, PTL DEF IInv

(* channel.py: the gateway's proof is "bound to the handshake values": the   *)
(* cloud opens sessions only for requests as the gateway made them.          *)
THEOREM SessionsAreAskedFor == Spec => []ProofBindsRequest
BY Invariant, PTL DEF IInv

(* app.py: "the pair survives restarts": with a key file, one key for ever.  *)
THEOREM OneKeyServed == Spec => []ServedKeyPersists
<1>1. IInv => ServedKeyPersists
  BY DEF IInv, FileHoldsServed, ServedKeyPersists
<1> QED
  BY <1>1, Invariant, PTL
=============================================================================
