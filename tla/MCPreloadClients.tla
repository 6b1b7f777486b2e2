--------------------------- MODULE MCPreloadClients ---------------------------
(***************************************************************************)
(* An instance of PreloadClients for TLC: two patches of one file.         *)
(***************************************************************************)
EXTENDS PreloadClients

MCPatches == {"a", "b"}
MCFiles == {"f"}
MCDiffs == {"a1", "b1"}
MCPatchOf == [d \in MCDiffs |-> IF d = "a1" THEN "a" ELSE "b"]
MCDirRank == [p \in MCPatches |-> IF p = "a" THEN 1 ELSE 2]
MCEdits == [d \in MCDiffs |-> {"f"}]
MCCreates == [d \in MCDiffs |-> {}]
MCFits == [d \in MCDiffs |-> {1}]
MCNeeds == [d \in MCDiffs |-> {}]
NoClash == {}
OneSystem == {[f \in MCFiles |-> 1]}
NoOrder == {<<>>}

\* Activation and deactivation, failures, and the ways out of the failed state.
ServingInputs == {"applyPatch", "unapplyPatch", "unapplyAllPatches", "resolveFailure", "loadRequest",
                  "failure", "crash"}

\* The patches stay and are independent, as EnabledIsRead supposes.
ASSUME FixedPatches == PatchesStay /\ NothingRestored /\ IndependentDiffs

===============================================================================
