----------------------------- MODULE CopiesProofs -----------------------------
(***************************************************************************)
(* Proofs about the copies of originals in the cache: each is as new as    *)
(* its original, or the daemon is going to be told.  This is so while the  *)
(* server runs (ServerStays; otherwise onOriginalFileChanged() drops the   *)
(* change) and where every cached file belongs to one patch                *)
(* (SeparateFiles; otherwise doPrepareCache keeps the copies that another  *)
(* patch names, enabled or not).                                           *)
(***************************************************************************)
EXTENDS PatchEffectProofs

---------------------------------------------------------------------------
(***************************************************************************)
(* The start of the server.  Until it was started no client can call, and  *)
(* so nothing is cached; from then on it stays loaded.                     *)
(***************************************************************************)

\* What the daemon posts before it accepts calls.
Quiet == {Refresh, ApplyAll, StartServer, RegisterDBus}

\* Calls are accepted only after the server was started.
ServerFirst(q) ==
  \A i \in DOMAIN q : q[i] = RegisterDBus => \E j \in DOMAIN q : j < i /\ q[j] = StartServer

\* Nothing has failed or ended the server thread.
Healthy == ~failed /\ thread \in {"stopped", "starting", "running"}

\* Nothing is enabled, cached or under way before the server was started.
NothingYet ==
  /\ cache = EmptyCache /\ applied = {} /\ saved = {} /\ ~registered
  /\ job.kind \in {"none", "applyAll"} /\ job.phase = "next" /\ job.undo = {} /\ job.redo = {}
  /\ up \/ (applyOnBoot /\ queue = <<>>)
  /\ queue \in Seq(Quiet) /\ ServerFirst(queue)

StartInv == Healthy /\ (Loaded \/ NothingYet)

\* What is posted and taken meanwhile keeps the order of StartServer and RegisterDBus.
LEMMA ServerFirstQueue ==
  ASSUME NEW q \in Seq(Quiet), ServerFirst(q)
  PROVE  /\ Append(q, Refresh) \in Seq(Quiet) /\ ServerFirst(Append(q, Refresh))
         /\ q # <<>> => Head(q) \in Quiet /\ Head(q) # RegisterDBus /\ Tail(q) \in Seq(Quiet)
         /\ q # <<>> /\ Head(q) # StartServer => ServerFirst(Tail(q))
<1>1. Refresh \in Quiet /\ Refresh # RegisterDBus
  BY RequestType DEF Quiet, Refresh, RegisterDBus
<1>2. Append(q, Refresh) \in Seq(Quiet)
  BY <1>1
<1>3. ServerFirst(Append(q, Refresh))
  <2> SUFFICES ASSUME NEW i \in DOMAIN Append(q, Refresh), Append(q, Refresh)[i] = RegisterDBus
               PROVE  \E j \in DOMAIN Append(q, Refresh) :
                         j < i /\ Append(q, Refresh)[j] = StartServer
    BY DEF ServerFirst
  <2>1. i \in DOMAIN q /\ q[i] = RegisterDBus
    BY <1>1
  <2>2. PICK j \in DOMAIN q : j < i /\ q[j] = StartServer
    BY <2>1 DEF ServerFirst
  <2> QED
    BY <1>1, <2>2
<1>4. q # <<>> => Head(q) \in Quiet /\ Tail(q) \in Seq(Quiet)
  OBVIOUS
<1>5. q # <<>> => Head(q) # RegisterDBus
  <2> SUFFICES ASSUME q # <<>>, Head(q) = RegisterDBus PROVE FALSE
    OBVIOUS
  <2>1. 1 \in DOMAIN q /\ q[1] = RegisterDBus
    OBVIOUS
  <2>2. PICK j \in DOMAIN q : j < 1
    BY <2>1 DEF ServerFirst
  <2> QED
    BY <2>2
<1>6. ASSUME q # <<>>, Head(q) # StartServer PROVE ServerFirst(Tail(q))
  <2> SUFFICES ASSUME NEW i \in DOMAIN Tail(q), Tail(q)[i] = RegisterDBus
               PROVE  \E j \in DOMAIN Tail(q) : j < i /\ Tail(q)[j] = StartServer
    BY DEF ServerFirst
  <2>1. i + 1 \in DOMAIN q /\ q[i + 1] = RegisterDBus
    BY <1>6
  <2>2. PICK j \in DOMAIN q : j < i + 1 /\ q[j] = StartServer
    BY <2>1 DEF ServerFirst
  <2>3. j # 1
    BY <1>6, <2>2
  <2>4. j - 1 \in DOMAIN Tail(q) /\ Tail(q)[j - 1] = StartServer /\ j - 1 < i
    BY <1>6, <2>2, <2>3
  <2> QED
    BY <2>4
<1> QED
  BY <1>2, <1>3, <1>4, <1>5, <1>6

\* A device that comes up posts the start of the server before the registration.
LEMMA StartPostsServerFirst ==
  LET q == <<Refresh, ApplyAll, StartServer>> \o <<RegisterDBus>>
  IN  q \in Seq(Quiet) /\ ServerFirst(q)
<1> DEFINE q == <<Refresh, ApplyAll, StartServer>> \o <<RegisterDBus>>
<1>1. /\ DOMAIN q = 1 .. 4 /\ q[1] = Refresh /\ q[2] = ApplyAll /\ q[3] = StartServer
      /\ q \in Seq(Quiet)
  BY DEF Quiet
<1>2. Refresh # RegisterDBus /\ ApplyAll # RegisterDBus /\ StartServer # RegisterDBus
  BY DEF Refresh, ApplyAll, StartServer, RegisterDBus
<1> HIDE DEF q
<1>3. ASSUME NEW i \in DOMAIN q, q[i] = RegisterDBus
      PROVE  \E j \in DOMAIN q : j < i /\ q[j] = StartServer
  <2>1. 3 \in DOMAIN q /\ 3 < i
    BY <1>1, <1>2, <1>3
  <2> QED
    BY <1>1, <2>1
<1> QED
  BY <1>1, <1>3 DEF ServerFirst, q

\* The server thread goes from stopped to starting to running, and no further.
LEMMA HealthyStep ==
  ASSUME ServerStays, Healthy, [Next]_vars
  PROVE  Healthy' /\ (Loaded => Loaded')
<1> USE DEF Healthy, Loaded
<1>1. CASE UNCHANGED <<failed, thread>>
  BY <1>1
<1>2. ASSUME DoStartLocalServer \/ ServerThread PROVE Healthy' /\ (Loaded => Loaded')
  BY <1>2 DEF DoStartLocalServer, ServerThread, ServerListens, ServerThreadFinishes,
     ServerThreadEnds
<1>3. ~OnFailureOccured /\ ~Crash /\ ~Reboot /\ ~ResolveFailure
  BY DEF ServerStays, OnFailureOccured, Crash, Reboot, ResolveFailure
<1>4. CASE Method
  BY <1>1, <1>3, <1>4 DEF Method, ApplyPatch, UnapplyPatch, UninstallPatch, UnapplyAllPatches,
     RestorePatchList, LoadRequestApply, LoadRequestUnapply, PutOrder, PutApplyOnBoot, server
<1>5. CASE Queued
  BY <1>1, <1>2, <1>5 DEF Queued, DoRefreshPatchList, DoPatchHandler, DoApplyAllPatches,
     DoUninstallPatch, DoRegisterDBus, ServerFinished, server
<1>6. CASE Running
  BY <1>1, <1>6 DEF Running, Prepare, PmApply, PmUnapply, Clean, ScriptExits, EndDoPatch,
     ApplyAllResult, OriginalChangedResult, NextToApply, NextToUnapply, EndApplyAll,
     EndOriginalChanged, server
<1>7. CASE Signal
  BY <1>1, <1>3, <1>7 DEF Signal, OnOriginalFileChanged, OnContentChanged, OnLipstickFailed,
     OnArchiveDownloaded, server
<1>8. CASE Surroundings \/ Start
  BY <1>1, <1>3, <1>8 DEF Surroundings, OriginalUpdated, OriginalRemoved, PackageMakesDirectory,
     PackageWritesDiff, PackageErased, Start, server
<1>9. CASE UNCHANGED vars
  BY <1>1, <1>9 DEF vars
<1> QED
  BY <1>2, <1>4, <1>5, <1>6, <1>7, <1>8, <1>9 DEF Next, MainThread

\* Before the server runs, nothing happens but what was posted at the start, and
\* changes of files nobody has cached.
LEMMA NothingYetStep ==
  ASSUME Settled, ServerStays, TypeInv, Healthy, ~Loaded, NothingYet, [Next]_vars
  PROVE  Loaded' \/ NothingYet'
<1> USE DEF NothingYet
<1>0. thread = "stopped"
  BY DEF Healthy, Loaded
<1>1. ASSUME UNCHANGED <<cache, applied, saved, registered, job, up, applyOnBoot, queue>>
      PROVE  NothingYet'
  BY <1>1 DEF ServerFirst
<1>2. ASSUME up, up' = up, UNCHANGED <<job, registered>>,
             UNCHANGED <<cache, applied, saved>> \/ UnapplyAll,
             queue' = queue \/ queue' = Append(queue, Refresh)
      PROVE  NothingYet'
  <2>1. queue' \in Seq(Quiet) /\ ServerFirst(queue)'
    BY <1>2, ServerFirstQueue DEF ServerFirst
  <2>2. cache' = EmptyCache /\ applied' = {} /\ saved' = {}
    BY <1>2 DEF UnapplyAll
  <2> QED
    BY <1>2, <2>1, <2>2
<1>3. ~Method
  BY DEF Method, ApplyPatch, UnapplyPatch, UninstallPatch, UnapplyAllPatches, RestorePatchList,
     ResolveFailure, LoadRequestApply, LoadRequestUnapply, PutOrder, PutApplyOnBoot, Call
<1>4. CASE Queued
  <2>1. /\ up /\ up' = up
        /\ registered' = registered \/ Head(queue) = RegisterDBus
        /\ queue # <<>> /\ job = NoJob /\ cache' = cache /\ saved' = saved
    BY <1>4 DEF Queued, DoRefreshPatchList, DoPatchHandler, DoApplyAllPatches,
       DoStartLocalServer, DoUninstallPatch, DoRegisterDBus, ServerFinished, Handles, Idle,
       tmpfs, settings
  <2>2. Head(queue) \in Quiet /\ Head(queue) # RegisterDBus
    BY <2>1, ServerFirstQueue
  <2>3. CASE DoStartLocalServer
    BY <1>0, <2>3 DEF DoStartLocalServer, Loaded
  <2>4. CASE DoRefreshPatchList \/ DoApplyAllPatches
    <3>1. queue' = Tail(queue) /\ Head(queue) # StartServer
      BY <2>4 DEF DoRefreshPatchList, DoApplyAllPatches, Handles, Refresh, ApplyAll, StartServer
    <3>2. queue' \in Seq(Quiet) /\ ServerFirst(queue)'
      BY <2>1, <3>1, ServerFirstQueue DEF ServerFirst
    <3>3. applied' = {} /\ up' = up /\ registered' = registered
      BY <2>4 DEF DoRefreshPatchList, DoApplyAllPatches
    <3>4. job' = job \/ job' = Job("applyAll", {}, {})
      BY <2>4 DEF DoRefreshPatchList, DoApplyAllPatches
    <3>5. /\ job'.kind \in {"none", "applyAll"} /\ job'.phase = "next"
          /\ job'.undo = {} /\ job'.redo = {}
      BY <3>4 DEF Job
    <3> QED
      BY <2>1, <3>2, <3>3, <3>5
  <2>5. ASSUME NEW p \in Patches PROVE ~DoUninstallPatch(p) /\ \A apply \in BOOLEAN : ~DoPatchHandler(p, apply)
    BY <2>2 DEF DoUninstallPatch, DoPatchHandler, Handles, Quiet, Uninstall, DoPatch, Refresh,
       ApplyAll, StartServer, RegisterDBus
  <2>6. ~ServerFinished /\ ~DoRegisterDBus
    BY <2>2 DEF ServerFinished, DoRegisterDBus, Handles, Quiet, CloseServer, Refresh,
       ApplyAll, StartServer, RegisterDBus
  <2> QED
    BY <1>4, <2>3, <2>4, <2>5, <2>6 DEF Queued
<1>5. CASE Running
  <2>1. EndApplyAll
    BY <1>5 DEF Running, Prepare, PmApply, PmUnapply, Clean, EndDoPatch, ApplyAllResult,
       OriginalChangedResult, NextToApply, NextToUnapply, EndOriginalChanged, At, FirstListed,
       LastListed, FirstInDir
  <2>2. /\ up /\ up' = up /\ UNCHANGED <<cache, applied, registered>> /\ job' = NoJob
        /\ saved' = {} /\ (queue' = queue \/ queue' = Append(queue, Refresh))
    BY <2>1 DEF EndApplyAll, At, tmpfs
  <2>3. queue' \in Seq(Quiet) /\ ServerFirst(queue)'
    BY <2>2, ServerFirstQueue DEF ServerFirst
  <2> QED
    BY <2>2, <2>3 DEF NoJob, Job
<1>6. CASE Signal
  <2>1. ~OnFailureOccured /\ \A p \in Patches : ~OnArchiveDownloaded(p)
    BY DEF ServerStays, Settled, PatchesStay, OnFailureOccured, OnArchiveDownloaded
  <2>2. /\ up /\ up' = up /\ UNCHANGED <<job, registered>>
        /\ UNCHANGED <<cache, applied, saved>> \/ UnapplyAll
        /\ queue' = queue \/ queue' = Append(queue, Refresh)
    BY <1>6, <2>1 DEF Signal, OnOriginalFileChanged, OnContentChanged, OnLipstickFailed, Idle,
       tmpfs, settings
  <2> QED
    BY <1>2, <2>2
<1>7. CASE ServerThread
  BY <1>0, <1>7 DEF ServerThread, ServerListens, ServerThreadFinishes, ServerThreadEnds
<1>8. CASE Surroundings
  <2>1. ~Crash /\ ~Reboot
    BY DEF ServerStays, Crash, Reboot
  <2> QED
    BY <1>1, <1>8, <2>1 DEF Surroundings, OriginalUpdated, OriginalRemoved,
       PackageMakesDirectory, PackageWritesDiff, PackageErased, tmpfs, settings
<1>9. CASE Start
  <2>1. /\ up' /\ queue' = <<Refresh, ApplyAll, StartServer>> \o <<RegisterDBus>>
        /\ UNCHANGED <<cache, applied, saved, registered, job>>
    BY <1>9 DEF Start, tmpfs, settings
  <2>2. queue' \in Seq(Quiet) /\ ServerFirst(queue)'
    BY <2>1, StartPostsServerFirst DEF ServerFirst
  <2> QED
    BY <2>1, <2>2
<1>10. CASE UNCHANGED vars
  BY <1>1, <1>10 DEF vars
<1> QED
  BY <1>3, <1>4, <1>5, <1>6, <1>7, <1>8, <1>9, <1>10 DEF Next, MainThread

\* The server is started before anything is cached, and stays.
LEMMA StartInvariant ==
  ASSUME Settled, ServerStays
  PROVE  Spec => []StartInv
<1>1. Init => StartInv
  <2> SUFFICES ASSUME Init PROVE StartInv
    OBVIOUS
  <2>1. Healthy
    BY DEF Init, Healthy
  <2>2. applyOnBoot
    BY DEF Init, ServerStays
  <2>3. queue \in Seq(Quiet) /\ ServerFirst(queue)
    BY DEF Init, ServerFirst
  <2>4. job.kind = "none" /\ job.phase = "next" /\ job.undo = {} /\ job.redo = {}
    BY DEF Init, NoJob, Job
  <2> QED
    BY <2>1, <2>2, <2>3, <2>4 DEF Init, StartInv, NothingYet
<1>2. TypeInv /\ StartInv /\ [Next]_vars => StartInv'
  BY HealthyStep, NothingYetStep DEF StartInv
<1> QED
  BY <1>1, <1>2, TypeInvariant, PTL DEF Spec

---------------------------------------------------------------------------
(***************************************************************************)
(* What is cached belongs to a patch that is enabled or being worked on.   *)
(***************************************************************************)

\* The installed diff of p is the one, of all patches, that touches f.
Owns(p, f) == disk[p] \in Diffs /\ f \in Touches(disk[p])

\* Patch p is enabled, or doPatch() is about to enable it or to clean up after it.
Held(p) ==
  \/ p \in applied
  \/ p = job.patch /\ job.phase \in {"script", "clean"}
  \/ p = job.patch /\ job.phase = "return" /\ job.ret /\ job.apply

OwnedInv == \A f \in Files : cache[f] # None => \E p \in Patches : Owns(p, f) /\ Held(p)

\* When activation failed, or deactivation did not, no file of the patch is cached.
CleanedInv ==
  job.phase = "return" /\ (job.apply <=> ~job.ret)
    => \A f \in Files : Owns(job.patch, f) => cache[f] = None

\* A file belongs to one patch.
LEMMA OneOwner ==
  ASSUME SeparateFiles, OwnDiffs, NEW p \in Patches, NEW q \in Patches, NEW f \in Files,
         Owns(p, f), Owns(q, f)
  PROVE  p = q
<1>1. PatchOf[disk[p]] = p /\ PatchOf[disk[q]] = q
  BY DEF OwnDiffs, Owns
<1> QED
  BY <1>1 DEF SeparateFiles, Owns

\* doPrepareCache and the scripts: what they put into the cache is the patch's own,
\* and a copy that stays has the version it had.
LEMMA ScriptsCopy ==
  ASSUME Settled, SeparateFiles, PatchInv, [Next]_vars, Scripts, NEW f \in Files, cache'[f] # None
  PROVE  /\ ~(Clean /\ Owns(job.patch, f))
         /\ \/ cache[f] # None /\ cache'[f].base = cache[f].base
            \/ Prepare /\ Owns(job.patch, f) /\ orig[f] # 0 /\ cache'[f].base = orig[f]
            \/ PmApply /\ job'.ret /\ Owns(job.patch, f) /\ orig[f] = 0 /\ cache'[f].base = 0
<1> USE DEF Settled, PatchInv
<1> DEFINE p == job.patch
           d == disk[p]
<1>1. cache \in Cache /\ job.patch \in Patches /\ up /\ job.kind # "none"
  BY PrepareFacts, PmApplyFacts, PmUnapplyFacts, CleanFacts DEF Scripts, TypeInv, TypeOK
<1>2. known = Installed
  BY <1>1, HandlerKnows
<1>3. f \in KnownFiles(p) => Owns(p, f)
  BY <1>1, <1>2, KnownFilesOf DEF Owns
<1>4. cache[f] # None => cache[f] \in Copy
  BY <1>1 DEF Cache
<1>5. CASE Prepare
  <2>1. cache' = FilledCache(KnownFiles(p), orig, cache)
    BY <1>5, PrepareFacts
  <2>2. ~Clean
    BY <1>5 DEF Prepare, Clean, At
  <2> QED
    BY <1>3, <1>5, <2>1, <2>2 DEF FilledCache, CopyOf
<1>6. CASE PmApply
  <2>1. ~Clean
    BY <1>6 DEF PmApply, Clean, At
  <2>2. CASE cache' = cache
    BY <2>1, <2>2
  <2>3. CASE job'.ret /\ d \in Diffs /\ VerifyTextPatch(d, cache) /\ cache' = InstallTextPatch(d, cache)
    <3>1. CASE f \in Creates[d]
      <4>1. job.phase = "script" /\ job.apply
        BY <1>6, PmApplyFacts
      <4>2. orig[f] = 0
        BY <1>1, <2>3, <3>1, <4>1, CreatedHasNoOriginal
      <4> QED
        BY <1>6, <2>1, <2>3, <3>1, <4>2 DEF InstallTextPatch, Owns, Touches
    <3>2. CASE f \in Edits[d] /\ f \notin Creates[d]
      <4>1. cache[f] # None /\ cache'[f] = [cache[f] EXCEPT !.diffs = @ \union {d}]
        BY <2>3, <3>2 DEF VerifyTextPatch, InstallTextPatch
      <4>2. cache'[f].base = cache[f].base
        BY <1>4, <4>1 DEF Copy
      <4> QED
        BY <2>1, <4>1, <4>2
    <3>3. CASE f \notin Edits[d] /\ f \notin Creates[d]
      BY <2>1, <2>3, <3>3 DEF InstallTextPatch
    <3> QED
      BY <3>1, <3>2, <3>3
  <2> QED
    BY <1>6, <2>2, <2>3, PmApplyFacts
<1>7. CASE PmUnapply
  <2>1. ~Clean
    BY <1>7 DEF PmUnapply, Clean, At
  <2>2. PICK b : cache' = cache \/ cache' = RemoveTextPatch(b, cache)
    BY <1>7, PmUnapplyFacts
  <2>3. cache[f] # None /\ (cache'[f] = cache[f] \/ cache'[f] = [cache[f] EXCEPT !.diffs = @ \ {b}])
    BY <2>2 DEF RemoveTextPatch
  <2>4. cache'[f].base = cache[f].base
    BY <1>4, <2>3 DEF Copy
  <2> QED
    BY <2>1, <2>3, <2>4
<1>8. CASE Clean
  <2>1. cache' = ClearedCache(KnownFiles(p), SharedWith(p), cache)
    BY <1>8, CleanFacts
  <2>2. cache'[f] = cache[f] /\ ~(f \in KnownFiles(p) \ SharedWith(p))
    BY <2>1 DEF ClearedCache
  <2>3. Owns(p, f) => f \in KnownFiles(p) \ SharedWith(p)
    <3> SUFFICES ASSUME Owns(p, f) PROVE f \in KnownFiles(p) \ SharedWith(p)
      OBVIOUS
    <3>1. \A q \in Patches : f \in KnownFiles(q) => Owns(q, f)
      BY <1>2, KnownFilesOf DEF Owns
    <3>2. f \in KnownFiles(p)
      BY <1>1, <1>2, KnownFilesOf DEF Owns
    <3>3. \A q \in Patches : f \in KnownFiles(q) => q = p
      BY <1>1, <3>1, OneOwner DEF StoreInv
    <3> QED
      BY <3>2, <3>3 DEF SharedWith
  <2> QED
    BY <2>2, <2>3
<1> QED
  BY <1>5, <1>6, <1>7, <1>8 DEF Scripts

\* pm_unapply of an installed patch succeeds, and the clean-up follows.
LEMMA UnapplyWorks ==
  ASSUME StoreInv, TypeInv, PmUnapply, NEW f, Owns(job.patch, f)
  PROVE  job'.phase = "clean"
<1>1. disk[job.patch] \in Diffs /\ job.patch \in Patches
  BY PmUnapplyFacts DEF Owns
<1>2. ~(disk[job.patch] = None \/ (IF backup[job.patch] # None THEN backup[job.patch]
                                  ELSE disk[job.patch]) \notin Diffs)
  BY <1>1, StoreAssumption DEF StoreInv, OwnBackups
<1> QED
  BY <1>2, PmUnapplyFacts

\* A handler that waits for a script goes on with it.
LEMMA BusyGoesOn ==
  ASSUME ServerStays, [Next]_vars, ~Scripts, job.phase \in {"script", "clean"}
  PROVE  job' = job
<1>1. job # NoJob
  BY DEF NoJob, Job
<1>2. CASE Method
  BY <1>1, <1>2 DEF Method, ApplyPatch, UnapplyPatch, UninstallPatch, UnapplyAllPatches,
     RestorePatchList, ResolveFailure, LoadRequestApply, LoadRequestUnapply, PutOrder,
     PutApplyOnBoot, Call, Idle
<1>3. CASE Queued
  BY <1>1, <1>3 DEF Queued, DoRefreshPatchList, DoPatchHandler, DoApplyAllPatches,
     DoStartLocalServer, DoUninstallPatch, DoRegisterDBus, ServerFinished, Handles, Idle
<1>4. CASE Running
  BY <1>4 DEF Running, Scripts, EndDoPatch, ApplyAllResult, OriginalChangedResult, NextToApply,
     NextToUnapply, EndApplyAll, EndOriginalChanged, At
<1>5. CASE Signal
  BY <1>1, <1>5 DEF Signal, OnOriginalFileChanged, OnContentChanged, OnFailureOccured,
     OnLipstickFailed, OnArchiveDownloaded, Idle
<1>6. CASE ServerThread \/ Start \/ Surroundings
  BY <1>6 DEF ServerThread, ServerListens, ServerThreadFinishes, ServerThreadEnds, Start,
     Surroundings, OriginalUpdated, OriginalRemoved, PackageMakesDirectory, PackageWritesDiff,
     PackageErased, ServerStays, Crash, Reboot
<1>7. CASE UNCHANGED vars
  BY <1>7 DEF vars
<1> QED
  BY <1>2, <1>3, <1>4, <1>5, <1>6, <1>7 DEF Next, MainThread

\* After a clean-up nothing of the patch is left.
LEMMA CleanedStep ==
  ASSUME Settled, SeparateFiles, PatchInv, CleanedInv, [Next]_vars
  PROVE  CleanedInv'
<1> USE DEF Settled, PatchInv
<1> SUFFICES ASSUME job'.phase = "return", job'.apply <=> ~job'.ret, NEW f \in Files,
                    Owns(job.patch, f)', cache'[f] # None
             PROVE  FALSE
  BY DEF CleanedInv
<1>0. disk' = disk
  BY DirectoriesStay
<1>1. CASE Scripts
  <2>1. ~Prepare
    BY PrepareFacts
  <2>2. ~PmApply
    BY PmApplyFacts DEF SameDoPatch
  <2>3. ~PmUnapply
    <3> SUFFICES ASSUME PmUnapply PROVE FALSE
      OBVIOUS
    <3>1. Owns(job.patch, f)
      BY <1>0, PmUnapplyFacts DEF SameDoPatch, Owns
    <3> QED
      BY <3>1, UnapplyWorks
  <2>4. CASE Clean
    <3>1. Owns(job.patch, f)
      BY <1>0, <2>4, CleanFacts DEF SameDoPatch, Owns
    <3> QED
      BY <1>1, <2>4, <3>1, ScriptsCopy
  <2> QED
    BY <1>1, <2>1, <2>2, <2>3, <2>4 DEF Scripts
<1>2. CASE ~Scripts
  <2>1. UNCHANGED <<job, cache>>
    BY <1>2, ScriptUndisturbed
  <2> QED
    BY <1>0, <2>1 DEF CleanedInv, Owns
<1> QED
  BY <1>1, <1>2

\* Every step leaves in the cache what belongs to patches that are held.
LEMMA OwnedStep ==
  ASSUME Settled, ServerStays, SeparateFiles, PatchInv, EffectInv, OnlyInv, OwnedInv, CleanedInv,
         [Next]_vars
  PROVE  OwnedInv'
<1> USE DEF Settled, PatchInv, OnlyInv
<1> DEFINE d == disk[job.patch]
<1>0. disk' = disk /\ NoCrash
  BY DirectoriesStay DEF ServerStays, NoCrash
<1>1. \A p, f : Owns(p, f)' <=> Owns(p, f)
  BY <1>0 DEF Owns
<1>2. CASE Scripts
  <2>1. /\ SameDoPatch /\ job.patch \in Patches /\ applied' = applied
        /\ job'.phase # "return" => job'.phase \in {"script", "clean"}
        /\ PmApply => job.apply
        /\ PmUnapply => ~job.apply
    BY <1>2, PrepareFacts, PmApplyFacts, PmUnapplyFacts, CleanFacts DEF Scripts
  <2> SUFFICES ASSUME NEW f \in Files, cache'[f] # None
               PROVE  \E p \in Patches : Owns(p, f) /\ Held(p)'
    BY <1>1 DEF OwnedInv
  <2>2. CASE (Prepare \/ (PmApply /\ job'.ret)) /\ Owns(job.patch, f)
    <3>1. PICK p \in Patches : p = job.patch
      BY <2>1
    <3>2. Held(p)'
      BY <2>1, <2>2, <3>1, PrepareFacts, PmApplyFacts DEF Held, SameDoPatch
    <3> QED
      BY <2>2, <3>1, <3>2
  <2>3. CASE cache[f] # None
    <3>1. PICK p \in Patches : Owns(p, f) /\ Held(p)
      BY <2>3 DEF OwnedInv
    <3>2. CASE p \in applied
      BY <2>1, <3>1, <3>2 DEF Held
    <3>3. CASE p # job.patch /\ p \notin applied
      BY <3>1, <3>3 DEF Held
    <3>4. CASE p = job.patch
      <4>1. ~Clean
        BY <1>2, <3>1, <3>4, ScriptsCopy
      <4>2. PmUnapply => job'.phase = "clean"
        BY <3>1, <3>4, UnapplyWorks
      <4>3. Prepare => job'.phase = "script"
        BY PrepareFacts
      <4>4. PmApply => job'.phase = "clean" \/ (job'.phase = "return" /\ job'.ret /\ job'.apply)
        BY <2>1, PmApplyFacts DEF SameDoPatch
      <4>5. Held(p)'
        BY <1>2, <2>1, <3>4, <4>1, <4>2, <4>3, <4>4 DEF Held, SameDoPatch, Scripts
      <4> QED
        BY <3>1, <4>5
    <3> QED
      BY <3>2, <3>3, <3>4
  <2>4. cache[f] # None \/ ((Prepare \/ (PmApply /\ job'.ret)) /\ Owns(job.patch, f))
    BY <1>2, ScriptsCopy
  <2> QED
    BY <2>2, <2>3, <2>4
<1>3. CASE Emptied
  BY <1>3 DEF Emptied, EmptyCache, OwnedInv
<1>4. CASE ~Scripts /\ Untouched
  <2> SUFFICES ASSUME NEW f \in Files, cache[f] # None, NEW p \in Patches, Owns(p, f), Held(p)
               PROVE  Held(p)'
    BY <1>4, <1>1 DEF OwnedInv, Untouched
  <2>1. p = job.patch /\ job.phase = "return" => ~(job.apply <=> ~job.ret)
    BY DEF CleanedInv
  <2>2. CASE job.phase \in {"script", "clean"} /\ p = job.patch
    BY <1>4, <2>2, BusyGoesOn DEF Held
  <2>3. CASE EndDoPatch
    <3>1. /\ job.phase = "return" /\ job.apply \in BOOLEAN /\ job.ret \in BOOLEAN
          /\ applied' = IF job.ret THEN IF job.apply THEN applied \union {job.patch}
                                        ELSE applied \ {job.patch}
                        ELSE applied
      BY <2>3 DEF EndDoPatch, At, TypeInv, TypeOK, Jobs
    <3> QED
      BY <2>1, <3>1 DEF Held
  <2>4. CASE ApplyAllResult \/ OriginalChangedResult
    <3>1. /\ job.kind \in {"applyAll", "changed"} /\ job.phase = "return"
          /\ (job.kind = "applyAll" => job.apply) /\ job.patch \in applied
      BY <2>4 DEF ApplyAllResult, OriginalChangedResult, At, EffectInv, DuringLoop, LoopsOverApplied
    <3>2. applied' = applied \/ (job.apply /\ ~job.ret /\ applied' = applied \ {job.patch})
      BY <2>4, <3>1 DEF ApplyAllResult, OriginalChangedResult, At
    <3> QED
      BY <2>1, <3>1, <3>2 DEF Held
  <2>5. CASE applied \subseteq applied' /\ (job.phase # "return" \/ job' = job)
    BY <2>2, <2>5 DEF Held
  <2>6. CASE Emptied
    BY <1>4, <2>6 DEF Emptied, EmptyCache, Untouched
  <2> QED
    BY <1>0, <1>4, <2>3, <2>4, <2>5, <2>6, StepsOfTheSet
<1> QED
  BY <1>2, <1>3, <1>4, StepsOfTheCache

---------------------------------------------------------------------------
(***************************************************************************)
(* The watch of the originals.                                             *)
(***************************************************************************)

\* The copy of f is current and a change of its original will be seen, or one is to
\* be handled.  A file without an original is not going to get one.
Tracked(f) ==
  f \in changed \/ (cache[f].base = orig[f] /\ (f \in watched \/ orig[f] = 0))

\* The handler at hand is going to take the files of p out of the cache.
Withdrawn(p) ==
  \/ job.kind = "changed" /\ p \in job.undo
  \/ p = job.patch /\ ~job.apply /\ job.phase \in {"script", "clean"}

FreshInv ==
  \A f \in Files : cache[f] # None => Tracked(f) \/ \E p \in Patches : Owns(p, f) /\ Withdrawn(p)

\* doPrepareCache and the scripts keep the watch of each original they do not take
\* out of the cache.
LEMMA ScriptsWatch ==
  ASSUME Scripts, NEW f \in Files
  PROVE  /\ orig' = orig
         /\ f \in changed => f \in changed'
         /\ f \in watched => f \in watched' \/ orig[f] = 0 \/ cache'[f] = None
         /\ Prepare /\ f \in KnownFiles(job.patch) /\ orig[f] # 0 => f \in watched'
<1>1. CASE Prepare
  BY <1>1 DEF Prepare, WatchedPaths
<1>2. CASE PmApply
  <2>1. PICK new : watched' = watched \ Disturbed(new) /\ changed' = changed \union Disturbed(new)
    BY <1>2 DEF PmApply
  <2>2. orig' = orig /\ ~Prepare
    BY <1>2 DEF PmApply, ScriptExits, Prepare, At
  <2> QED
    BY <2>1, <2>2 DEF Disturbed
<1>3. CASE PmUnapply
  <2>1. PICK new : watched' = watched \ Disturbed(new) /\ changed' = changed \union Disturbed(new)
    BY <1>3 DEF PmUnapply
  <2>2. orig' = orig /\ ~Prepare
    BY <1>3 DEF PmUnapply, ScriptExits, Prepare, At
  <2> QED
    BY <2>1, <2>2 DEF Disturbed
<1>4. CASE Clean
  <2>1. /\ cache' = ClearedCache(KnownFiles(job.patch), SharedWith(job.patch), cache)
        /\ watched' = watched \ UnwatchedPaths(KnownFiles(job.patch), SharedWith(job.patch), cache)
        /\ orig' = orig /\ changed' = changed /\ ~Prepare
    BY <1>4 DEF Clean, Prepare, At
  <2> QED
    BY <2>1 DEF ClearedCache, UnwatchedPaths
<1> QED
  BY <1>1, <1>2, <1>3, <1>4 DEF Scripts

\* Other steps lose no change but the one that is handled, and no watch without
\* telling of a change.
LEMMA OthersWatch ==
  ASSUME Settled, ServerStays, TypeInv, [Next]_vars, ~Scripts, ~Emptied, NEW f \in Files
  PROVE  /\ f \in changed => f \in changed' \/ OnOriginalFileChanged(f)
         /\ f \in watched => f \in changed' \/ (f \in watched' /\ orig'[f] = orig[f])
         /\ orig[f] = 0 => orig'[f] = 0
<1>1. ASSUME UNCHANGED <<orig, changed, watched>>
      PROVE  /\ f \in changed => f \in changed' \/ OnOriginalFileChanged(f)
             /\ f \in watched => f \in changed' \/ (f \in watched' /\ orig'[f] = orig[f])
             /\ orig[f] = 0 => orig'[f] = 0
  BY <1>1
<1>2. CASE Method
  BY <1>1, <1>2 DEF Method, ApplyPatch, UnapplyPatch, UninstallPatch, UnapplyAllPatches,
     RestorePatchList, ResolveFailure, LoadRequestApply, LoadRequestUnapply, PutOrder,
     PutApplyOnBoot, UnapplyAll, Emptied, device, watches
<1>3. CASE Queued
  BY <1>1, <1>3 DEF Queued, DoRefreshPatchList, DoPatchHandler, DoApplyAllPatches,
     DoStartLocalServer, DoUninstallPatch, DoRegisterDBus, ServerFinished, device, watches
<1>4. CASE Running
  BY <1>1, <1>4 DEF Running, Scripts, EndDoPatch, ApplyAllResult, OriginalChangedResult,
     NextToApply, NextToUnapply, EndApplyAll, EndOriginalChanged, Emptied, device, watches
<1>5. CASE Signal
  <2>1. ASSUME NEW g \in Files, OnOriginalFileChanged(g)
        PROVE  /\ f \in changed => f \in changed' \/ OnOriginalFileChanged(f)
               /\ f \in watched => f \in changed' \/ (f \in watched' /\ orig'[f] = orig[f])
               /\ orig[f] = 0 => orig'[f] = 0
    BY <2>1 DEF OnOriginalFileChanged, device
  <2>2. ~OnFailureOccured /\ \A p \in Patches : ~OnArchiveDownloaded(p)
    BY DEF ServerStays, Settled, PatchesStay, OnFailureOccured, OnArchiveDownloaded
  <2> QED
    BY <1>1, <1>5, <2>1, <2>2 DEF Signal, OnContentChanged, OnLipstickFailed, UnapplyAll,
       Emptied, device
<1>6. CASE ServerThread \/ Start
  BY <1>1, <1>6 DEF ServerThread, ServerListens, ServerThreadFinishes, ServerThreadEnds, Start,
     device, watches
<1>7. CASE Surroundings
  <2>1. ~Crash /\ ~Reboot
    BY DEF ServerStays, Crash, Reboot
  <2>2. \A p \in Patches : ~PackageMakesDirectory(p) /\ ~PackageWritesDiff(p) /\ ~PackageErased(p)
    BY DEF Settled, PatchesStay, PackageMakesDirectory, PackageWritesDiff, PackageErased
  <2>3. ASSUME NEW g \in Files, OriginalUpdated(g) \/ OriginalRemoved(g)
        PROVE  /\ changed \subseteq changed' /\ (f # g => orig'[f] = orig[f])
               /\ f \in watched => f \in changed' \/ (f \in watched' /\ f # g)
               /\ orig[f] = 0 => orig'[f] = 0
    <3>1. orig \in [Files -> 0 .. MaxVersion] /\ MaxVersion \in Nat
      BY StoreAssumption DEF TypeInv, TypeOK
    <3>2. CASE OriginalUpdated(g)
      BY <3>1, <3>2 DEF OriginalUpdated
    <3>3. CASE OriginalRemoved(g)
      BY <3>1, <3>3 DEF OriginalRemoved
    <3> QED
      BY <2>3, <3>2, <3>3
  <2> QED
    BY <1>7, <2>1, <2>2, <2>3 DEF Surroundings
<1>8. CASE UNCHANGED vars
  BY <1>1, <1>8 DEF vars
<1> QED
  BY <1>2, <1>3, <1>4, <1>5, <1>6, <1>7, <1>8 DEF Next, MainThread

\* What the handler is going to take out stays on its list until it does.
LEMMA WithdrawnKept ==
  ASSUME ServerStays, TypeInv, [Next]_vars, ~Scripts, NEW p \in Patches, Withdrawn(p)
  PROVE  Withdrawn(p)'
<1>0. job \in Jobs
  BY DEF TypeInv, TypeOK
<1>1. CASE job.phase \in {"script", "clean"} \/ job' = job
  <2>1. job' = job
    BY <1>1, BusyGoesOn
  <2> QED
    BY <2>1 DEF Withdrawn
<1>2. CASE job.phase \notin {"script", "clean"}
  <2>1. job.kind = "changed" /\ p \in job.undo
    BY <1>2 DEF Withdrawn
  <2>2. job # NoJob
    BY <2>1, NoJobKind
  <2>3. CASE Method
    BY <2>2, <2>3 DEF Method, ApplyPatch, UnapplyPatch, UninstallPatch, UnapplyAllPatches,
       RestorePatchList, ResolveFailure, LoadRequestApply, LoadRequestUnapply, PutOrder,
       PutApplyOnBoot, Call, Idle
  <2>4. CASE Queued
    BY <2>2, <2>4 DEF Queued, DoRefreshPatchList, DoPatchHandler, DoApplyAllPatches,
       DoStartLocalServer, DoUninstallPatch, DoRegisterDBus, ServerFinished, Handles, Idle
  <2>5. CASE OriginalChangedResult
    <3>1. job' = [job EXCEPT !.phase = "next", !.ok = @ /\ job.ret]
      BY <2>5 DEF OriginalChangedResult
    <3>2. job'.kind = "changed" /\ job'.undo = job.undo
      BY <1>0, <2>1, <3>1 DEF Jobs
    <3> QED
      BY <2>1, <3>2 DEF Withdrawn
  <2>6. CASE NextToUnapply
    <3>1. PICK q : job' = Begin([job EXCEPT !.undo = @ \ {q}], q, FALSE)
      BY <2>6 DEF NextToUnapply
    <3>2. /\ job'.kind = "changed" /\ job'.undo = job.undo \ {q} /\ job'.patch = q
          /\ ~job'.apply /\ job'.phase = "script"
      BY <1>0, <2>1, <3>1 DEF Begin, Jobs
    <3> QED
      BY <2>1, <3>2 DEF Withdrawn
  <2>7. CASE Running /\ ~OriginalChangedResult /\ ~NextToUnapply
    BY <2>1, <2>7 DEF Running, Scripts, EndDoPatch, ApplyAllResult, NextToApply, EndApplyAll,
       EndOriginalChanged, At
  <2>8. CASE Signal
    BY <2>2, <2>8 DEF Signal, OnOriginalFileChanged, OnContentChanged, OnFailureOccured,
       OnLipstickFailed, OnArchiveDownloaded, Idle
  <2>9. CASE ServerThread \/ Start \/ Surroundings
    BY <1>1, <2>9 DEF ServerThread, ServerListens, ServerThreadFinishes, ServerThreadEnds, Start,
       Surroundings, OriginalUpdated, OriginalRemoved, PackageMakesDirectory, PackageWritesDiff,
       PackageErased, ServerStays, Crash, Reboot
  <2>10. CASE UNCHANGED vars
    BY <1>1, <2>10 DEF vars
  <2> QED
    BY <2>3, <2>4, <2>5, <2>6, <2>7, <2>8, <2>9, <2>10 DEF Next, MainThread
<1> QED
  BY <1>1, <1>2

\* The handler of a change withdraws the patch the cached file belongs to.
LEMMA ChangeIsHandled ==
  ASSUME PatchInv, StartInv, OwnedInv, NEW f \in Files, OnOriginalFileChanged(f), cache[f] # None
  PROVE  \E p \in Patches : Owns(p, f) /\ Withdrawn(p)'
<1> USE DEF PatchInv
<1> DEFINE patches == {p \in applied : f \in KnownFiles(p)}
<1>1. Loaded /\ ~failed
  BY DEF StartInv, Healthy, NothingYet, EmptyCache
<1>2. Idle /\ up /\ job.phase = "next"
  BY DEF OnOriginalFileChanged, Idle, NoJob, Job
<1>3. known = Installed
  BY <1>1, <1>2 DEF KnownInv, AwaitsRefresh, Loaded
<1>4. PICK p \in Patches : Owns(p, f) /\ p \in applied
  BY <1>2 DEF OwnedInv, Held
<1>5. f \in KnownFiles(p)
  BY <1>3, <1>4, KnownFilesOf DEF Owns
<1>6. job' = Job("changed", patches, patches)
  BY <1>1, <1>5 DEF OnOriginalFileChanged
<1>7. job'.kind = "changed" /\ p \in job'.undo
  BY <1>4, <1>5, <1>6 DEF Job
<1> QED
  BY <1>4, <1>7 DEF Withdrawn

\* Every step leaves each copy tracked, or on the list of what is taken out.
LEMMA FreshStep ==
  ASSUME Settled, ServerStays, SeparateFiles, PatchInv, StartInv, OwnedInv, FreshInv, [Next]_vars
  PROVE  FreshInv'
<1> USE DEF Settled, PatchInv
<1>0. disk' = disk
  BY DirectoriesStay
<1>1. \A p, f : Owns(p, f)' <=> Owns(p, f)
  BY <1>0 DEF Owns
<1> SUFFICES ASSUME NEW f \in Files, cache'[f] # None,
                    ~\E p \in Patches : Owns(p, f) /\ Withdrawn(p)'
             PROVE  Tracked(f)'
  BY <1>1 DEF FreshInv
<1>2. CASE Scripts
  <2>1. /\ SameDoPatch /\ job.patch \in Patches /\ up /\ job.kind # "none"
        /\ Prepare => job.phase = "prepare"
        /\ PmApply => job.apply
    BY <1>2, PrepareFacts, PmApplyFacts, PmUnapplyFacts, CleanFacts DEF Scripts
  <2>2. CASE cache[f] # None /\ cache'[f].base = cache[f].base
    <3>1. Tracked(f)
      <4> SUFFICES ASSUME NEW p \in Patches, Owns(p, f), Withdrawn(p) PROVE FALSE
        BY <2>2 DEF FreshInv
      <4>1. CASE job.kind = "changed" /\ p \in job.undo
        BY <2>1, <4>1 DEF Withdrawn, SameDoPatch
      <4>2. CASE p = job.patch /\ ~job.apply /\ job.phase \in {"script", "clean"}
        <5>1. ~Clean
          BY <1>2, <4>2, ScriptsCopy
        <5>2. PmUnapply
          BY <1>2, <2>1, <4>2, <5>1 DEF Scripts
        <5>3. job'.phase = "clean"
          BY <4>2, <5>2, UnapplyWorks
        <5> QED
          BY <2>1, <4>2, <5>3 DEF Withdrawn, SameDoPatch
      <4> QED
        BY <4>1, <4>2 DEF Withdrawn
    <3> QED
      BY <1>2, <2>2, <3>1, ScriptsWatch DEF Tracked
  <2>3. CASE Prepare /\ Owns(job.patch, f) /\ orig[f] # 0 /\ cache'[f].base = orig[f]
    <3>1. f \in KnownFiles(job.patch)
      BY <2>1, <2>3, HandlerKnows, KnownFilesOf DEF Owns
    <3> QED
      BY <1>2, <2>3, <3>1, ScriptsWatch DEF Tracked
  <2>4. CASE PmApply /\ orig[f] = 0 /\ cache'[f].base = 0
    BY <1>2, <2>4, ScriptsWatch DEF Tracked
  <2> QED
    BY <1>2, <2>2, <2>3, <2>4, ScriptsCopy
<1>3. CASE Emptied
  BY <1>3 DEF Emptied, EmptyCache
<1>4. CASE ~Scripts /\ ~Emptied /\ Untouched
  <2>1. cache' = cache
    BY <1>4 DEF Untouched
  <2>2. Tracked(f)
    BY <1>4, <2>1, WithdrawnKept DEF FreshInv
  <2>3. ~OnOriginalFileChanged(f)
    BY <2>1, ChangeIsHandled
  <2> QED
    BY <1>4, <2>1, <2>2, <2>3, OthersWatch DEF Tracked
<1> QED
  BY <1>2, <1>3, <1>4, StepsOfTheCache

\* The parts of the invariant, put together.
LEMMA CopiesInvariant ==
  ASSUME Settled, ServerStays, SeparateFiles
  PROVE  Spec => [](OwnedInv /\ CleanedInv /\ FreshInv)
<1> DEFINE CopiesInv == OwnedInv /\ CleanedInv /\ FreshInv
<1>0. NoCrash
  BY DEF ServerStays, NoCrash
<1>1. Init => CopiesInv
  BY DEF Init, OwnedInv, CleanedInv, FreshInv, EmptyCache, NoJob, Job
<1>2. /\ PatchInv /\ EffectInv /\ OnlyInv /\ StartInv /\ CopiesInv
      /\ [Next]_vars
      => CopiesInv'
  BY OwnedStep, CleanedStep, FreshStep
<1> HIDE DEF CopiesInv
<1>3. CopiesInv => OwnedInv /\ CleanedInv /\ FreshInv
  BY DEF CopiesInv
<1> QED
  BY <1>0, <1>1, <1>2, <1>3, EffectInvariant, OnlyInvariant, StartInvariant, PTL DEF Spec

\* While the server runs, each copy in the cache has the version of its original or
\* the daemon is going to be told of a change: no update between any two steps of
\* doPatch() or of the handler of an earlier change is missed, whatever fails on
\* the way.
THEOREM CopiesStayFresh ==
  ASSUME PatchesStay, NothingRestored, IndependentDiffs, ServerStays, SeparateFiles
  PROVE  Spec => []CopiesAreFresh
<1>1. FreshInv => CopiesAreFresh
  <2> SUFFICES ASSUME FreshInv, Idle, NEW f \in Files, cache[f] # None, cache[f].base # orig[f]
               PROVE  f \in changed
    BY DEF CopiesAreFresh
  <2>1. job.kind = "none" /\ job.phase = "next"
    BY DEF Idle, NoJob, Job
  <2> QED
    BY <2>1 DEF FreshInv, Tracked, Withdrawn
<1>2. Settled
  BY DEF Settled
<1> QED
  BY <1>1, <1>2, CopiesInvariant, PTL

===============================================================================
