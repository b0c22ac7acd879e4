--------------------------- MODULE MCStagingAgent ---------------------------
(* Two resumptions and a cancellation of one application; two policies of     *)
(* which each makes a funder eligible that the other does not.                *)
EXTENDS StagingAgent

CONSTANTS p1, p2, f1, f2

MCEligible == [p \in Policies |-> IF p = p1 THEN {f1} ELSE {f1, f2}]
=============================================================================
