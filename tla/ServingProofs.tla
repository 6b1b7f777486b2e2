----------------------------- MODULE ServingProofs -----------------------------
(***************************************************************************)
(* Proofs about what programs read: the cache that the server thread reads *)
(* without a lock holds every patch that the history of a connection counts *)
(* on, at every step of the main thread.  That every enabled patch is      *)
(* whole but for the one at hand (EffectInv) comes from PatchEffectProofs. *)
(***************************************************************************)
EXTENDS PreloadClientsProofs, PatchEffectProofs

\* What a connection counts on is still enabled and served, and a program that was
\* sent to the original counts on nothing.
CountsOn(k) ==
  k.at # "idle" =>
    /\ k.path \in Files
    /\ k.sure \subseteq Sure[k.path]
    /\ k.at = "answered" /\ ~k.redirected => k.sure = {}

CountsOnServed == \A c \in Clients : CountsOn(client[c])

\* A patch that is enabled, served and not being worked on has its changes in every
\* file that all its versions touch.
LEMMA SureIsWhole ==
  ASSUME PatchInv, EffectInv, NEW f \in Files, NEW p \in Sure[f]
  PROVE  disk[p] \in Diffs /\ PatchOf[disk[p]] = p /\ Has(cache, f, disk[p]) /\ ~failed
         /\ thread = "running"
<1> USE DEF PatchInv
<1>1. /\ thread = "running" /\ ~failed /\ job.kind \in {"none", "patch"}
      /\ p \in applied /\ p # job.patch
      /\ \A d \in Diffs : PatchOf[d] = p => f \in Touches(d)
  BY DEF Sure
<1>2. up
  BY <1>1 DEF SettingsInv, Down
<1>3. p \in saved /\ p \in Patches
  BY <1>1, <1>2 DEF SettingsInv, AwaitsRefresh, DroppedOnly, TypeInv, TypeOK
<1>4. ~Owing
  BY <1>1 DEF Owing, Loaded
<1>5. Whole(p)
  BY <1>1, <1>3, <1>4 DEF EffectInv, AllWhole, DuringPatch
<1>6. disk[p] \in Diffs /\ PatchOf[disk[p]] = p
  BY <1>3, <1>5 DEF Whole, StoreInv, OwnDiffs
<1>7. f \in Touches(disk[p])
  BY <1>1, <1>6
<1> QED
  BY <1>1, <1>5, <1>6, <1>7 DEF Whole, Has

\* A step of the daemon takes from the history what it does to the patches; the
\* connections it breaks count on nothing.
LEMMA DaemonStepCounts ==
  ASSUME SettingsInv', ClientsTypeOK, DaemonStep, NEW c \in Clients, CountsOn(client[c])
  PROVE  CountsOn(client[c])'
<1> DEFINE k == client[c]
           now == k.sure \intersect Sure'[k.path]
<1>1. k \in Calls
  BY DEF ClientsTypeOK
<1>2. Connection(k) \in {k, [k EXCEPT !.at = "stranded"], Broken(k)}
  BY DEF Connection
<1>3. CASE k.at = "idle"
  <2>1. Connection(k) = k
    BY <1>3 DEF Connection
  <2>2. client'[c] = [k EXCEPT !.sure = {}]
    BY <1>3, <2>1 DEF DaemonStep, AfterDaemonStep, CallIs
  <2>3. client'[c].at = "idle"
    BY <1>1, <1>3, <2>2 DEF Calls
  <2> QED
    BY <2>3 DEF CountsOn
<1>4. CASE k.at # "idle"
  <2> DEFINE new == [Connection(k) EXCEPT !.sure = now]
  <2>0. /\ Connection(k).sure = k.sure /\ Connection(k).path = k.path
        /\ DOMAIN Connection(k) = {"at", "path", "redirected", "sure"}
    BY <1>1, <1>2 DEF Broken, Calls
  <2>1. client'[c] = new
    BY <1>4, <2>0 DEF DaemonStep, AfterDaemonStep, CallIs
  <2>2. new.sure = now /\ new.path = k.path /\ new.at = Connection(k).at
        /\ new.redirected = Connection(k).redirected
    BY <1>1, <1>2 DEF Broken, Calls
  <2>3. k.path \in Files
    BY <1>4 DEF CountsOn
  <2>4. Connection(k).at = "answered" /\ ~Connection(k).redirected => now = {}
    <3>1. CASE Connection(k) = k /\ k.at = "answered" /\ ~k.redirected
      BY <1>4, <3>1 DEF CountsOn
    <3>2. CASE ~listening' \/ ~up'
      BY <2>3, <3>2 DEF SettingsInv, Down, Sure, Served
    <3>3. Connection(k) = k \/ Connection(k) = [k EXCEPT !.at = "stranded"] \/ ~listening' \/ ~up'
      BY DEF Connection
    <3>4. [k EXCEPT !.at = "stranded"].at # "answered"
      BY <1>1 DEF Calls
    <3> QED
      BY <3>1, <3>2, <3>3, <3>4
  <2> HIDE DEF new
  <2> QED
    BY <2>1, <2>2, <2>3, <2>4 DEF CountsOn
<1> QED
  BY <1>3, <1>4

\* The library and the server thread: a program is sent to the original only if no
\* patch it counts on is in the cache's copy of the file.
LEMMA ClientStepCounts ==
  ASSUME PatchInv, EffectInv, ClientsTypeOK, CountsOnServed, NEW c \in Clients, ClientStep(c)
  PROVE  CountsOnServed'
<1> DEFINE k == client[c]
<1>1. UNCHANGED vars /\ Sure' = Sure
  <2>1. UNCHANGED vars
    BY DEF ClientStep, Connect, Accept, Answer, Open
  <2> QED
    BY <2>1 DEF vars, Sure, Served
<1>2. k \in Calls /\ DOMAIN client = Clients
  BY DEF ClientsTypeOK
<1>3. ASSUME NEW new, client' = [client EXCEPT ![c] = new], CountsOn(new)
      PROVE  CountsOnServed'
  <2>1. \A e \in Clients : CountsOn(client'[e])
    BY <1>2, <1>3 DEF CountsOnServed
  <2> QED
    BY <1>1, <2>1 DEF CountsOnServed, CountsOn
<1>4. ASSUME NEW f \in Files, Connect(c, f) PROVE CountsOnServed'
  <2> DEFINE new == [at |-> "pending", path |-> f, redirected |-> FALSE, sure |-> Sure[f]]
  <2>1. client' = [client EXCEPT ![c] = new] /\ CountsOn(new)
    BY <1>4 DEF Connect, CountsOn
  <2> HIDE DEF new
  <2> QED
    BY <1>3, <2>1
<1>5. CASE Accept(c)
  <2> DEFINE new == [k EXCEPT !.at = "accepted"]
  <2>1. client' = [client EXCEPT ![c] = new]
    BY <1>5 DEF Accept
  <2>2. CountsOn(k) /\ k.at = "pending"
    BY <1>5 DEF CountsOnServed, Accept, CallIs
  <2>3. CountsOn(new)
    BY <1>2, <2>2 DEF CountsOn, Calls
  <2> HIDE DEF new
  <2> QED
    BY <1>3, <2>1, <2>3
<1>6. CASE Answer(c)
  <2> DEFINE redirected == ~failed /\ cache[k.path] # None
             new == [k EXCEPT !.at = "answered", !.redirected = redirected]
  <2>1. client' = [client EXCEPT ![c] = new]
    BY <1>6 DEF Answer
  <2>2. CountsOn(k) /\ k.at = "accepted"
    BY <1>6 DEF CountsOnServed, Answer, CallIs
  <2>3. ~redirected => k.sure = {}
    BY <2>2, SureIsWhole DEF CountsOn, Has
  <2>4. new.at = "answered" /\ new.redirected = redirected /\ new.path = k.path /\ new.sure = k.sure
    BY <1>2 DEF Calls
  <2> HIDE DEF new, redirected
  <2>5. CountsOn(new)
    BY <2>2, <2>3, <2>4 DEF CountsOn
  <2> QED
    BY <1>3, <2>1, <2>5
<1>7. CASE Open(c)
  <2>1. client' = [client EXCEPT ![c] = NoCall] /\ CountsOn(NoCall)
    BY <1>7 DEF Open, NoCall, CountsOn
  <2> QED
    BY <1>3, <2>1
<1> QED
  BY <1>4, <1>5, <1>6, <1>7 DEF ClientStep

\* The two parts of the composition, with the daemon's own invariant.
LEMMA CountsOnInvariant ==
  ASSUME Settled
  PROVE  ClientsSpec => [](PatchInv /\ EffectInv /\ ClientsTypeOK /\ CountsOnServed)
<1>1. ClientsInit => CountsOnServed
  BY DEF ClientsInit, NoCall, CountsOnServed, CountsOn
<1>2. PatchInv /\ PatchInv' /\ EffectInv /\ ClientsTypeOK /\ CountsOnServed /\ [ClientsNext]_allVars
        => CountsOnServed'
  <2> SUFFICES ASSUME PatchInv, PatchInv', EffectInv, ClientsTypeOK, CountsOnServed,
                      [ClientsNext]_allVars
               PROVE  CountsOnServed'
    OBVIOUS
  <2>1. CASE DaemonStep
    BY <2>1, DaemonStepCounts DEF CountsOnServed, PatchInv
  <2>2. CASE UNCHANGED allVars
    BY <2>2 DEF allVars, vars, CountsOnServed, CountsOn, Sure, Served
  <2> QED
    BY <2>1, <2>2, ClientStepCounts, SMTT(30) DEF ClientsNext
<1> QED
  BY <1>1, <1>2, DaemonUndisturbed, EffectInvariant, ClientsType, PTL DEF ClientsSpec

\* A program reads the changes of every patch that was in Sure from its connect() to its
\* open() - enabled, served, not being worked on, and neither the handler of an update
\* nor the auto-apply run at work - for any number of programs and patches: the server
\* thread needs no lock for that.
THEOREM EnabledIsRead ==
  ASSUME PatchesStay, NothingRestored, IndependentDiffs
  PROVE  ClientsSpec => ReadsEnabled
<1>1. PatchInv /\ EffectInv /\ ClientsTypeOK /\ CountsOnServed /\ [ClientsNext]_allVars
        => [\A c \in Clients : CallIs(c, "answered") /\ client'[c].at = "idle" =>
              \A p \in client[c].sure :
                  /\ Content(client[c]) # None
                  /\ \E d \in Content(client[c]).diffs : PatchOf[d] = p]_allVars
  <2> SUFFICES ASSUME PatchInv, EffectInv, CountsOnServed, NEW c \in Clients,
                      CallIs(c, "answered"), NEW p \in client[c].sure
               PROVE  /\ Content(client[c]) # None
                      /\ \E d \in Content(client[c]).diffs : PatchOf[d] = p
    OBVIOUS
  <2>1. client[c].redirected /\ client[c].path \in Files /\ p \in Sure[client[c].path]
    BY DEF CountsOnServed, CountsOn, CallIs
  <2> QED
    BY <2>1, SureIsWhole DEF Content, Has
<1>2. Settled
  BY DEF Settled
<1> QED
  BY <1>1, <1>2, CountsOnInvariant, PTL DEF ClientsSpec, ReadsEnabled

=============================================================================
