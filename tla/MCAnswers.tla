------------------------------ MODULE MCAnswers ------------------------------
(* A behaviour parses a document or answers questions about indexed ones.     *)
EXTENDS MCQueryPath, MCDocumentParsing

VARIABLE part

allVars == <<part, queryVars, parseVars, splitVars>>

Init == part \in {"queries", "parsing"} /\ QueryInit /\ ParseInit

Next ==
  \/ part = "queries" /\ QueryNext /\ UNCHANGED <<part, parseVars, splitVars>>
  \/ part = "parsing" /\ ParseNext /\ UNCHANGED <<part, queryVars>>

Spec == Init /\ [][Next]_allVars
          /\ WF_allVars(part = "queries" /\ Model /\ UNCHANGED <<part, parseVars, splitVars>>)
=============================================================================
