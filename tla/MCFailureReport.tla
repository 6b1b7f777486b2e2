---------------------------- MODULE MCFailureReport ----------------------------
(***************************************************************************)
(* Instances of FailureReport for TLC.                                     *)
(***************************************************************************)
EXTENDS FailureReport

MCPatches == {"a"}
MayEnd == {TRUE, FALSE}
Ends == {FALSE}

===============================================================================
