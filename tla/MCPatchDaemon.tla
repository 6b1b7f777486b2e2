----------------------------- MODULE MCPatchDaemon -----------------------------
(***************************************************************************)
(* Instances of PatchDaemon for TLC: two patches and two files.            *)
(***************************************************************************)
EXTENDS PatchDaemon

MCPatches == {"a", "b"}
MCFiles == {"f", "g"}
MCDiffs == {"a1", "b1"}
MCPatchOf == [d \in MCDiffs |-> IF d = "a1" THEN "a" ELSE "b"]
MCDirRank == [p \in MCPatches |-> IF p = "a" THEN 1 ELSE 2]

\* Both patches edit f, and b also brings a new file g.
SharedEdits == [d \in MCDiffs |-> {"f"}]
SharedCreates == [d \in MCDiffs |-> IF d = "b1" THEN {"g"} ELSE {}]

\* Patch a edits f, and b brings g: they have no file in common.
SeparateEdits == [d \in MCDiffs |-> IF d = "a1" THEN {"f"} ELSE {}]
SeparateCreates == [d \in MCDiffs |-> IF d = "b1" THEN {"g"} ELSE {}]

\* Patch b no longer matches f after an update of the system.
OneOutdated == [d \in MCDiffs |-> IF d = "a1" THEN {1, 2} ELSE {1}]

\* Every patch matches every version.
AllFit == [d \in MCDiffs |-> 1 .. 2]

\* The device starts with f and without g.
OneSystem == {[f \in MCFiles |-> IF f = "f" THEN 1 ELSE 0]}

NoNeeds == [d \in MCDiffs |-> {}]
NoClash == {}
BothClash == {<<"a1", "b1">>}

NoOrder == {<<>>}
BFirst == {<<"b", "a">>}

CoreInputs == {"applyPatch", "unapplyPatch", "unapplyAllPatches",
               "resolveFailure", "loadRequest", "failure", "update", "crash", "reboot"}

\* The daemon stays up and no failure is seen.
StableInputs == {"applyPatch", "unapplyPatch", "unapplyAllPatches", "order",
                 "lipstick", "update", "remove"}

\* The server thread is started and stopped.
SettlingInputs == {"applyPatch", "loadRequest", "resolveFailure", "failure", "update"}

\* The inputs of the runs that look for one behaviour.
RestoreInputs == {"applyPatch", "loadRequest", "restorePatchList", "resolveFailure", "failure"}
FailedInputs == {"applyPatch", "failure"}
WipeInputs == {"applyPatch", "loadRequest", "failure"}
SharedInputs == {"applyPatch", "unapplyPatch", "update"}

\* One patch comes and goes, in two versions: one edits f, the other brings g.
OnePatch == {"a"}
TwoVersions == {"a1", "a2"}
TwoOfA == [d \in TwoVersions |-> "a"]
TwoEdits == [d \in TwoVersions |-> IF d = "a1" THEN {"f"} ELSE {}]
TwoCreates == [d \in TwoVersions |-> IF d = "a2" THEN {"g"} ELSE {}]
TwoFit == [d \in TwoVersions |-> 1 .. 2]
TwoNeed == [d \in TwoVersions |-> {}]
OneRank == [p \in OnePatch |-> 1]

LifecycleInputs == {"applyPatch", "unapplyPatch", "uninstallPatch", "restorePatchList",
                    "applyOnBoot", "installPatch", "package", "failure", "crash", "reboot"}

=============================================================================
