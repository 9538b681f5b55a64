--------------------------- MODULE ReadingDelivery ---------------------------
(***************************************************************************)
(* What the gateway-to-cloud hop promises for every reading, whichever     *)
(* uplink carries it: a reading is handed to the uplink once, the cloud     *)
(* stores it at most once and never before it was handed over, the gateway  *)
(* reports success only for a stored reading, and an outcome is final.      *)
(* A reading reported as failed may still be stored, or be stored later:    *)
(* the gateway cannot tell a lost request from a lost answer.               *)
(***************************************************************************)
EXTENDS Naturals

CONSTANT Readings

VARIABLES
  outcome,  \* what the gateway knows of each reading
  stored    \* how many times the cloud has stored each reading

vars == <<outcome, stored>>

Outcomes == {"new", "sending", "ok", "failed"}

Init ==
  /\ outcome = [r \in Readings |-> "new"]
  /\ stored = [r \in Readings |-> 0]

Submit(r) ==
  /\ outcome[r] = "new"
  /\ outcome' = [outcome EXCEPT ![r] = "sending"]
  /\ UNCHANGED stored

Store(r) ==
  /\ outcome[r] # "new"
  /\ stored[r] = 0
  /\ stored' = [stored EXCEPT ![r] = 1]
  /\ UNCHANGED outcome

ReportOk(r) ==
  /\ outcome[r] = "sending"
  /\ stored[r] = 1
  /\ outcome' = [outcome EXCEPT ![r] = "ok"]
  /\ UNCHANGED stored

(* Several readings fail together when the gateway process stops.          *)
ReportFailed(R) ==
  /\ \A r \in R : outcome[r] = "sending"
  /\ outcome' = [r \in Readings |-> IF r \in R THEN "failed" ELSE outcome[r]]
  /\ UNCHANGED stored

Next ==
  \/ \E r \in Readings : Submit(r) \/ Store(r) \/ ReportOk(r)
  \/ \E R \in SUBSET Readings : ReportFailed(R)

Spec == Init /\ [][Next]_vars

==============================================================================
