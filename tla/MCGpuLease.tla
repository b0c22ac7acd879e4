----------------------------- MODULE MCGpuLease -----------------------------
(* Two batches and two queries; the profile's constants are in the cfg. *)
EXTENDS GpuLease
=============================================================================
