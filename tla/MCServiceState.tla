--------------------------- MODULE MCServiceState ---------------------------
(* The registries and the encrypted store share nothing: each behaviour       *)
(* belongs to one of them, and the others stay as they were.                  *)
EXTENDS MCOwnershipRegistry, MCActivityRegistry, MCEnvelopeStore

VARIABLE part

Init == /\ part \in {"ownership", "activity", "envelopes"}
        /\ RegInit /\ ActivityInit /\ EnvelopeInit

Next ==
  \/ part = "ownership" /\ RegNext /\ UNCHANGED <<part, activityVars, envelopeVars>>
  \/ part = "activity" /\ ActivityNext /\ UNCHANGED <<part, regVars, envelopeVars>>
  \/ part = "envelopes" /\ EnvelopeNext /\ UNCHANGED <<part, regVars, activityVars>>

Spec == Init /\ [][Next]_<<part, regVars, activityVars, envelopeVars>>
=============================================================================
