------------------------------- MODULE Pipeline -------------------------------
(***************************************************************************)
(* The whole way of a reading: the devices and handler threads of            *)
(* DeviceLink joined to the uplink, of which only what ReadingDelivery       *)
(* promises is known, and to the order in which the cloud appends readings   *)
(* to its buffer (_store, cloud_service/app.py).                            *)
(***************************************************************************)
EXTENDS DeviceLink

VARIABLES
  outcome,  \* what the gateway knows of each reading
  stored,   \* how often the cloud has stored it
  arrived   \* readings in the order in which the cloud stored them

hopVars == <<outcome, stored, arrived>>
pipelineVars == <<vars, hopVars>>

(* A reading is known by its device, the boot and the sequence number.      *)
Samples == Devices \X (0..MaxReboots) \X (1..MaxSeq)
Sample(c) == <<owner[c], frame[c].boot, frame[c].seq>>

PipelineInit ==
  /\ Init
  /\ outcome = [s \in Samples |-> "new"]
  /\ stored = [s \in Samples |-> 0]
  /\ arrived = <<>>

-----------------------------------------------------------------------------
(* _process hands an accepted reading to the uplink ...                     *)
AcceptAndSubmit(c) ==
  /\ Accept(c)
  /\ outcome' = [outcome EXCEPT ![Sample(c)] = "sending"]
  /\ UNCHANGED <<stored, arrived>>

(* ... the cloud stores it as soon as it has been sent, or even after the    *)
(* gateway gave up on the request ...                                       *)
CloudStores(s) ==
  /\ outcome[s] # "new"
  /\ stored[s] = 0
  /\ stored' = [stored EXCEPT ![s] = 1]
  /\ arrived' = Append(arrived, s)
  /\ UNCHANGED <<vars, outcome>>

Succeeds == stats'["forwarded_ok"] > stats["forwarded_ok"]

(* Wrong: the failed send is repeated as a new one.                         *)
ForwardUntilOk(c) ==
  /\ \/ Forward(c) /\ Succeeds /\ stored[Sample(c)] = 1
     \/ hpc[c] = "forward" /\ outcome[Sample(c)] = "sending" /\ UNCHANGED vars
  /\ outcome' = [outcome EXCEPT ![Sample(c)] = IF Succeeds THEN "ok" ELSE "failed"]
  /\ UNCHANGED <<stored, arrived>>

(* Wrong: the send goes on in the background.                               *)
ForwardInBackground(c) == Forward(c) /\ UNCHANGED hopVars

(* ... and _forward counts what send() says of it.                          *)
ForwardAndReport(c) ==
  /\ Forward(c)
  /\ Succeeds => stored[Sample(c)] = 1
  /\ outcome' = [outcome EXCEPT ![Sample(c)] = IF Succeeds THEN "ok" ELSE "failed"]
  /\ UNCHANGED <<stored, arrived>>

(* A gateway that stops gives up on every send.                             *)
RestartAndFail ==
  /\ Restart
  /\ outcome' = [s \in Samples |-> IF outcome[s] = "sending" THEN "failed" ELSE outcome[s]]
  /\ UNCHANGED <<stored, arrived>>

-----------------------------------------------------------------------------
(* The steps of DeviceLink that do not touch the uplink.                    *)
HandlerOnly(c) == ReadLine(c) \/ Reject(c) \/ DropStale(c) \/ Disconnect(c)

LinkStep ==
  \/ \E d \in Devices : DeviceStep(d) \/ Send(d, "long") \/ Reboot(d)
  \/ \E c \in Opened : HandlerOnly(c) \/ LinkReset(c)

PipelineHandlerStep(c) ==
  \/ HandlerOnly(c) /\ UNCHANGED hopVars
  \/ AcceptAndSubmit(c)
  \/ ForwardAndReport(c)

PipelineNext ==
  \/ LinkStep /\ UNCHANGED hopVars
  \/ \E c \in Opened : AcceptAndSubmit(c) \/ ForwardAndReport(c)
  \/ \E s \in Samples : CloudStores(s)
  \/ RestartAndFail

PipelineSpec == PipelineInit /\ [][PipelineNext]_pipelineVars

(* Devices keep sampling, sending and reconnecting, and handler threads keep *)
(* running: a send of the uplink always ends (SealedUplink, EverySendEnds).   *)
PipelineFairSpec ==
  /\ PipelineSpec
  /\ \A d \in Devices :
       /\ WF_pipelineVars(Connect(d) /\ UNCHANGED hopVars)
       /\ WF_pipelineVars(Send(d, "whole") /\ UNCHANGED hopVars)
  /\ \A c \in Conns : WF_pipelineVars(c \in Opened /\ PipelineHandlerStep(c))
-----------------------------------------------------------------------------
(* Properties.                                                              *)

(* The device side uses the uplink as ReadingDelivery has it: a reading of   *)
(* one boot is submitted once, by whichever thread and however the device    *)
(* reconnects, and no outcome is revised.                                   *)
Hop == INSTANCE ReadingDelivery WITH Readings <- Samples, outcome <- outcome, stored <- stored
HopUsedOnce == Hop!Spec

Forwarding == {c \in Opened : hpc[c] = "forward"}

(* What the operator can conclude from the gateway's report: the cloud has   *)
(* at least the readings forwarded_ok counts, and at most those and the      *)
(* failed ones and the ones being sent, as long as the gateway has run.      *)
CountsBracketStore ==
  restarts = 0 =>
    /\ stats["forwarded_ok"] <= Len(arrived)
    /\ Len(arrived) <= stats["forwarded_ok"] + stats["forward_failed"] + Cardinality(Forwarding)

ConnsOf(s) == {accepted[s[1]][i].conn :
                 i \in {j \in DOMAIN accepted[s[1]] :
                          accepted[s[1]][j].boot = s[2] /\ accepted[s[1]][j].seq = s[3]}}

(* "Sends synchronously on the device's own thread": the cloud stores the    *)
(* readings of one connection in the order of their numbers, except one the  *)
(* gateway has reported as failed.  (list_devices takes the last one stored  *)
(* for the latest.)                                                         *)
GoesBackOnlyAfterFailure ==
  \A i, j \in DOMAIN arrived :
    /\ i < j
    /\ ConnsOf(arrived[i]) \cap ConnsOf(arrived[j]) # {}
    /\ arrived[j][3] < arrived[i][3]
    => outcome[arrived[j]] = "failed"
=============================================================================
