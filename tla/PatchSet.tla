-------------------------------- MODULE PatchSet --------------------------------
(***************************************************************************)
(* What a user is promised about the set of enabled patches, without any   *)
(* of the machinery: it survives crashes and reboots of the device, it     *)
(* grows by one patch the user asked for at a time or by going back to the *)
(* last set that was applied without a failure, it may shrink, and only a  *)
(* set that was enabled is ever remembered as that last good set.          *)
(***************************************************************************)
CONSTANT Patches

VARIABLES enabled, lastGood

Init == enabled = {} /\ lastGood = {}

\* One patch is activated.
Enable == \E p \in Patches : enabled' = enabled \union {p} /\ UNCHANGED lastGood

\* Patches are deactivated: one, several that failed, or all of them.
Drop == enabled' \in SUBSET enabled /\ UNCHANGED lastGood

\* All enabled patches were applied without a failure.
Remember == lastGood' = enabled /\ UNCHANGED enabled

\* Back to the last good set.
Restore == lastGood # {} /\ enabled' = lastGood /\ UNCHANGED lastGood

Next == Enable \/ Drop \/ Remember \/ Restore

Spec == Init /\ [][Next]_<<enabled, lastGood>>

=============================================================================
