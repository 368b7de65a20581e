---------------------------- MODULE MCCbtSidecar ----------------------------
(* CbtSidecar with two endpoints, so that a restarted sidecar may have moved. *)
EXTENDS CbtSidecar
=============================================================================
