-------------------------------- MODULE MCStable --------------------------------
(***************************************************************************)
(* Instances in which, besides, the server that was started with the       *)
(* device stays and no two patches have a file in common.                  *)
(***************************************************************************)
EXTENDS MCFixedPatches

ASSUME StableServer == NoCrash /\ ServerStays /\ SeparateFiles

=============================================================================
