----------------------------- MODULE MCEvidence -----------------------------
(* A behaviour grows the inventory of the gate, or the ledger of operands its *)
(* figures make; the other one stays as it was.  The second year is reached   *)
(* by a newer report.                                                         *)
EXTENDS MCEvidenceGate, MCMetricCalculations

VARIABLE part

Init == part \in {"gate", "ledger"} /\ GateInit /\ LedgerInit /\ reportYear = 1

Next ==
  \/ part = "gate" /\ GateNext /\ UNCHANGED <<part, ledgerVars>>
  \/ part = "ledger" /\ LedgerNext /\ UNCHANGED <<part, gateVars>>

Spec == Init /\ [][Next]_<<part, gateVars, ledgerVars>>
=============================================================================
