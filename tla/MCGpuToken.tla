----------------------------- MODULE MCGpuToken -----------------------------
(***************************************************************************)
(* The token contract of MCGpuHost is one of those GpuHostProofs speaks    *)
(* of, and every call of it has an argument.                               *)
(***************************************************************************)
EXTENDS MCGpuHost

ASSUME TokenAssumption == TokenGuest /\ <<>> \notin Seeds
=============================================================================
