---------------------------- MODULE MCTelemetry ----------------------------
(* Model values and symmetry for checking Telemetry with TLC.               *)
EXTENDS Telemetry, TLC

CONSTANTS p1, u1

(* One invocation runs with a configured user id.                           *)
OneConfigured == [p \in Invocation |-> IF p = p1 THEN u1 ELSE NoUser]

CONSTANT p4

(* One invocation has come and gone undisturbed, its record kept or not, so *)
(* that the others find a backlog that the thresholds have to bound.        *)
Begun ==
  /\ \E kept \in BOOLEAN :
       /\ sequence = IF kept THEN 1 ELSE 0
       /\ table = IF kept THEN {[id |-> 1, payload |-> p4]} ELSE {}
  /\ stored = NoUser
  /\ phase = [p \in Invocation |-> IF p = p4 THEN "done" ELSE "start"]
  /\ snapshot = [p \in Invocation |-> {}]
  /\ result = [p \in Invocation |-> "none"]
  /\ request = [p \in Invocation |-> "idle"]
  /\ sentAs = [p \in Invocation |-> NoUser]
  /\ patient = [p \in Invocation |-> FALSE]
  /\ received = {}
  /\ dropped = {}
  /\ calm = TRUE

BegunSpec == Begun /\ [][TelemetryNext]_tvars /\ Fairness

=============================================================================
