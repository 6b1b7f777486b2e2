----------------------------- MODULE MCFixedPatches -----------------------------
(***************************************************************************)
(* Instances whose patches stay on the device and do not build on each     *)
(* other, as the theorems about what is in effect suppose.                 *)
(***************************************************************************)
EXTENDS MCPatchDaemon

ASSUME FixedPatches == PatchesStay /\ NothingRestored /\ IndependentDiffs

=============================================================================
