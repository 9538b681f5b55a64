--------------------------- MODULE MCSealedUplink ---------------------------
(* SealedUplink for TLC.                                                    *)
EXTENDS SealedUplink, TLC

(* Handler threads are interchangeable, and so are the cloud's workers.     *)
Symmetry == Permutations(Threads) \cup Permutations(Workers)

(* The model may stop when every reading has its outcome and no request is   *)
(* in progress; any other state without a step is a deadlock.               *)
Finished ==
  /\ \A r \in Readings : outcome[r] \in {"ok", "failed"}
  /\ \A w \in Workers : req[w] = Idle
  /\ UNCHANGED vars

MCSpec == Init /\ [][Next \/ Finished]_vars

MCFairSpec ==
  /\ MCSpec
  /\ \A t \in Threads : WF_vars(GatewayStep(t))
  /\ \A w \in Workers : WF_vars(CloudStep(w))
=============================================================================
