-------------------------- MODULE PreloadClientsProofs --------------------------
(***************************************************************************)
(* Lemmas about PreloadClients for ServingProofs: composed with its clients *)
(* the daemon still behaves as PatchDaemon says, and the clients keep      *)
(* their types.                                                            *)
(***************************************************************************)
EXTENDS PreloadClients, PatchDaemonProofs

\* The daemon takes its own steps whatever the clients do: what is proved of Spec
\* holds of the composition.
LEMMA DaemonUndisturbed == ClientsSpec => Spec
<1>1. ClientsInit => Init
  BY DEF ClientsInit
<1>2. [ClientsNext]_allVars => [Next]_vars
  BY DEF ClientsNext, DaemonStep, ClientStep, Connect, Accept, Answer, Open, allVars
<1> QED
  BY <1>1, <1>2, PTL DEF ClientsSpec, Spec

---------------------------------------------------------------------------
(* Types. *)

\* What is left of a connection after a step of the daemon.
LEMMA ConnectionType ==
  ASSUME NEW k \in Calls
  PROVE  Connection(k) \in Calls
  BY DEF Connection, Broken, Calls

\* The history keeps its type.
LEMMA SureType == ASSUME TypeOK, NEW f \in Files PROVE Sure[f] \in SUBSET Patches
  BY DEF Sure, TypeOK

\* A step of the daemon.
LEMMA DaemonStepTypes == ClientsTypeOK /\ DaemonStep => ClientsTypeOK'
<1> SUFFICES ASSUME ClientsTypeOK, DaemonStep PROVE ClientsTypeOK'
  OBVIOUS
<1>1. ASSUME NEW c \in Clients PROVE client'[c] \in Calls
  <2>1. client[c] \in Calls /\ Connection(client[c]) \in Calls
    BY ConnectionType DEF ClientsTypeOK
  <2> DEFINE now == IF CallIs(c, "idle") THEN {}
                    ELSE client[c].sure \intersect Sure'[client[c].path]
  <2>2. now \in SUBSET Patches
    BY <2>1 DEF Calls
  <2>3. client'[c] = [Connection(client[c]) EXCEPT !.sure = now]
    <3>1. Connection(client[c]).sure = client[c].sure
      BY <2>1 DEF Connection, Broken, Calls
    <3> QED
      BY <2>1, <3>1 DEF DaemonStep, AfterDaemonStep, Calls
  <2> HIDE DEF now
  <2> QED
    BY <2>1, <2>2, <2>3 DEF Calls
<1>2. client' = [c \in Clients |-> client'[c]]
  BY DEF DaemonStep, AfterDaemonStep
<1> QED
  BY <1>1, <1>2 DEF ClientsTypeOK

\* The library and the server thread.
LEMMA ClientStepTypes ==
  ASSUME TypeOK, ClientsTypeOK, NEW c \in Clients, ClientStep(c)
  PROVE  ClientsTypeOK'
<1> USE DEF ClientsTypeOK, CallIs
<1>1. ASSUME NEW f \in Files, Connect(c, f) PROVE ClientsTypeOK'
  <2>1. [at |-> "pending", path |-> f, redirected |-> FALSE, sure |-> Sure[f]] \in Calls
    BY SureType DEF Calls
  <2> QED
    BY <1>1, <2>1 DEF Connect
<1>2. CASE Accept(c)
  <2>1. [client[c] EXCEPT !.at = "accepted"] \in Calls
    BY DEF Calls
  <2> QED
    BY <1>2, <2>1 DEF Accept
<1>3. CASE Answer(c)
  <2> DEFINE r == ~failed /\ cache[client[c].path] # None
  <2>1. [client[c] EXCEPT !.at = "answered", !.redirected = r] \in Calls
    BY DEF Calls
  <2> QED
    BY <1>3, <2>1 DEF Answer
<1>4. CASE Open(c)
  BY <1>4 DEF Open, NoCall, Calls
<1> QED
  BY <1>1, <1>2, <1>3, <1>4 DEF ClientStep

\* Types hold in every reachable state of the composition.
LEMMA ClientsType == ClientsSpec => []ClientsTypeOK
<1>1. ClientsInit => ClientsTypeOK
  BY DEF ClientsInit, ClientsTypeOK, NoCall, Calls
<1>2. TypeOK /\ ClientsTypeOK /\ [ClientsNext]_allVars => ClientsTypeOK'
  BY DaemonStepTypes, ClientStepTypes DEF ClientsNext, allVars, ClientsTypeOK
<1> QED
  BY <1>1, <1>2, DaemonUndisturbed, TypeCorrect, PTL DEF ClientsSpec

===============================================================================
