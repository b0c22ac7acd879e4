------------------------ MODULE MCOwnershipRegistry ------------------------
(* Two applications, two documents, two digests and two policies. *)
EXTENDS OwnershipRegistry
=============================================================================
