--------------------------- MODULE PatchDaemonProofs ---------------------------
(***************************************************************************)
(* Theorems about PatchDaemon, for every value of its constants.           *)
(***************************************************************************)
EXTENDS PatchDaemon, TLAPS

---------------------------------------------------------------------------
(* What the scripts and doPrepareCache leave is a cache again. *)

\* Clearing the fakeroot leaves a cache without files.
LEMMA EmptyCacheType == EmptyCache \in Cache
  BY DEF EmptyCache, Cache

\* Copying originals into the cache (doPrepareCache, apply) keeps its type.
LEMMA FilledCacheType ==
  ASSUME NEW fs, NEW o \in [Files -> 0 .. MaxVersion], NEW c \in Cache
  PROVE  FilledCache(fs, o, c) \in Cache
  BY DEF FilledCache, Cache, Copy, CopyOf

\* pm_apply after its dry run succeeded keeps the type of the cache.
LEMMA InstallTextPatchType ==
  ASSUME NEW d \in Diffs, NEW c \in Cache, VerifyTextPatch(d, c)
  PROVE  InstallTextPatch(d, c) \in Cache
<1> SUFFICES ASSUME NEW f \in Files
             PROVE  InstallTextPatch(d, c)[f] \in Copy \union {None}
  BY DEF InstallTextPatch, Cache
<1>1. CASE f \in Creates[d]
  BY <1>1, StoreAssumption DEF InstallTextPatch, Copy
<1>2. CASE f \notin Creates[d] /\ f \in Edits[d]
  <2>1. c[f] \in Copy
    BY <1>2 DEF VerifyTextPatch, Cache
  <2> QED
    BY <1>2, <2>1 DEF InstallTextPatch, Copy
<1>3. CASE f \notin Creates[d] /\ f \notin Edits[d]
  BY <1>3 DEF InstallTextPatch, Cache
<1> QED
  BY <1>1, <1>2, <1>3

\* pm_unapply keeps the type of the cache.
LEMMA RemoveTextPatchType ==
  ASSUME NEW d \in Diffs, NEW c \in Cache
  PROVE  RemoveTextPatch(d, c) \in Cache
<1> SUFFICES ASSUME NEW f \in Files
             PROVE  RemoveTextPatch(d, c)[f] \in Copy \union {None}
  BY DEF RemoveTextPatch, Cache
<1>1. CASE f \notin Touches(d) \/ c[f] = None
  BY <1>1 DEF RemoveTextPatch, Cache
<1>2. CASE f \in Touches(d) /\ c[f] # None
  <2>1. c[f] \in Copy
    BY <1>2 DEF Cache
  <2> QED
    BY <1>2, <2>1 DEF RemoveTextPatch, Copy
<1> QED
  BY <1>1, <1>2

\* Removing files (doPrepareCache, not apply) keeps the type of the cache.
LEMMA ClearedCacheType ==
  ASSUME NEW fs, NEW shared, NEW c \in Cache
  PROVE  ClearedCache(fs, shared, c) \in Cache
  BY DEF ClearedCache, Cache

---------------------------------------------------------------------------
(* Handlers in progress. *)

\* While a script runs, the handler knows for which patch.
JobPatchKnown == job.phase # "next" => job.patch \in Patches

TypeInv == TypeOK /\ JobPatchKnown

\* A handler that begins is a well-typed one.
LEMMA JobType ==
  ASSUME NEW kind \in {"none", "patch", "applyAll", "changed"},
         NEW undo \in SUBSET Patches, NEW redo \in SUBSET Patches
  PROVE  /\ Job(kind, undo, redo) \in Jobs
         /\ Job(kind, undo, redo).phase = "next"
  BY DEF Job, Jobs

\* doPatch() begins in a phase in which its patch is known.
LEMMA BeginType ==
  ASSUME NEW j \in Jobs, NEW p \in Patches, NEW apply \in BOOLEAN
  PROVE  /\ Begin(j, p, apply) \in Jobs
         /\ Begin(j, p, apply).patch \in Patches
  BY DEF Begin, Jobs

\* Every request the daemon posts is one its event loop can handle.
LEMMA RequestType ==
  /\ \A p \in Patches, apply \in BOOLEAN : DoPatch(p, apply) \in Requests
  /\ \A p \in Patches : Uninstall(p) \in Requests
  /\ {Refresh, ApplyAll, StartServer, RegisterDBus, CloseServer} \subseteq Requests
  BY DEF Requests, DoPatch, Uninstall, Refresh, ApplyAll, StartServer, RegisterDBus, CloseServer

\* Posting one or two events, and taking the first one, leaves a queue of events.
LEMMA QueueType ==
  ASSUME NEW q \in Seq(Requests), NEW r \in Requests, NEW t \in Requests
  PROVE  /\ Append(q, r) \in Seq(Requests)
         /\ q \o <<r, t>> \in Seq(Requests)
         /\ q # <<>> => Tail(q) \in Seq(Requests)
  OBVIOUS

\* Deactivating everything keeps the types of what it resets.
LEMMA UnapplyAllType ==
  ASSUME TypeOK, UnapplyAll
  PROVE  /\ cache' \in Cache
         /\ backup' \in [Patches -> Diffs \union {None}]
         /\ changed' \in SUBSET Files
         /\ watched' \in SUBSET Files
         /\ applied' \in SUBSET Patches
         /\ saved' \in SUBSET Patches
  BY EmptyCacheType DEF TypeOK, UnapplyAll, Disturbed

---------------------------------------------------------------------------
(* Type correctness. *)

\* Calls of clients keep the types.
LEMMA MethodType == TypeInv /\ Method => TypeInv'
<1> SUFFICES ASSUME TypeInv, Method PROVE TypeInv'
  OBVIOUS
<1> USE RequestType DEF TypeInv, JobPatchKnown, device, settings, tmpfs, watches, server
<1>1. ASSUME NEW p \in Patches, ApplyPatch(p) PROVE TypeInv'
  <2>1. queue' \in Seq(Requests)
    BY <1>1, QueueType DEF ApplyPatch, TypeOK
  <2> QED
    BY <1>1, <2>1, ZenonT(40) DEF ApplyPatch, TypeOK
<1>2. ASSUME NEW p \in Patches, UnapplyPatch(p) PROVE TypeInv'
  <2>1. queue' \in Seq(Requests)
    BY <1>2, QueueType DEF UnapplyPatch, TypeOK
  <2> QED
    BY <1>2, <2>1, ZenonT(40) DEF UnapplyPatch, TypeOK
<1>3. ASSUME NEW p \in Patches, UninstallPatch(p) PROVE TypeInv'
  <2>1. queue' \in Seq(Requests)
    BY <1>3, QueueType DEF UninstallPatch, TypeOK
  <2> QED
    BY <1>3, <2>1, ZenonT(40) DEF UninstallPatch, TypeOK
<1>4. CASE UnapplyAllPatches
  BY <1>4, UnapplyAllType DEF UnapplyAllPatches, Call, TypeOK
<1>5. CASE RestorePatchList
  BY <1>5 DEF RestorePatchList, Call, TypeOK
<1>6. CASE ResolveFailure
  <2>1. queue' \in Seq(Requests)
    BY <1>6, QueueType DEF ResolveFailure, TypeOK
  <2> QED
    BY <1>6, <2>1 DEF ResolveFailure, TypeOK
<1>7. CASE LoadRequestApply
  BY <1>7 DEF LoadRequestApply, Call, TypeOK
<1>8. CASE LoadRequestUnapply
  BY <1>8, UnapplyAllType DEF LoadRequestUnapply, Call, TypeOK
<1>9. ASSUME NEW o \in Orders, PutOrder(o) PROVE TypeInv'
  BY <1>9, DaemonAssumption DEF PutOrder, Call, TypeOK
<1>10. ASSUME NEW b \in BOOLEAN, PutApplyOnBoot(b) PROVE TypeInv'
  BY <1>10 DEF PutApplyOnBoot, Call, TypeOK
<1> QED
  BY <1>1, <1>2, <1>3, <1>4, <1>5, <1>6, <1>7, <1>8, <1>9, <1>10 DEF Method

\* Handlers of queued events keep the types.
LEMMA QueuedType == TypeInv /\ Queued => TypeInv'
<1> SUFFICES ASSUME TypeInv, Queued PROVE TypeInv'
  OBVIOUS
<1> USE DEF TypeInv, JobPatchKnown, device, settings, tmpfs, watches, server
<1>1. CASE DoRefreshPatchList
  BY <1>1 DEF DoRefreshPatchList, Handles, TypeOK
<1>2. ASSUME NEW p \in Patches, NEW apply \in BOOLEAN, DoPatchHandler(p, apply) PROVE TypeInv'
  <2>1. job' \in Jobs /\ job'.patch \in Patches
    BY <1>2, JobType, BeginType DEF DoPatchHandler
  <2> QED
    BY <1>2, <2>1 DEF DoPatchHandler, Handles, TypeOK
<1>3. CASE DoApplyAllPatches
  <2>1. job' \in Jobs /\ job'.phase = "next"
    BY <1>3, JobType DEF DoApplyAllPatches, TypeOK
  <2> QED
    BY <1>3, <2>1 DEF DoApplyAllPatches, Handles, TypeOK
<1>4. CASE DoStartLocalServer
  <2>1. Tail(queue) \in Seq(Requests)
    BY <1>4 DEF DoStartLocalServer, Handles, TypeOK
  <2>2. queue' \in Seq(Requests)
    BY <1>4, <2>1, RequestType, QueueType DEF DoStartLocalServer
  <2> QED
    BY <1>4, <2>2 DEF DoStartLocalServer, TypeOK
<1>5. ASSUME NEW p \in Patches, DoUninstallPatch(p) PROVE TypeInv'
  <2>1. queue' \in Seq(Requests)
    BY <1>5 DEF DoUninstallPatch, Handles, TypeOK
  <2>2. disk' \in [Patches -> Diffs \union {Empty, None}] /\ listed' \in BOOLEAN
    BY <1>5 DEF DoUninstallPatch, TypeOK
  <2> QED
    BY <1>5, <2>1, <2>2 DEF DoUninstallPatch, TypeOK
<1>6. CASE DoRegisterDBus
  BY <1>6 DEF DoRegisterDBus, Handles, TypeOK
<1>7. CASE ServerFinished
  <2>1. queue' \in Seq(Requests)
    BY <1>7 DEF ServerFinished, Handles, TypeOK
  <2> QED
    BY <1>7, <2>1 DEF ServerFinished, TypeOK
<1> QED
  BY <1>1, <1>2, <1>3, <1>4, <1>5, <1>6, <1>7 DEF Queued

\* doPrepareCache and the scripts keep the types.
LEMMA ScriptType == TypeInv /\ (Prepare \/ PmApply \/ PmUnapply \/ Clean) => TypeInv'
<1> SUFFICES ASSUME TypeInv, Prepare \/ PmApply \/ PmUnapply \/ Clean PROVE TypeInv'
  OBVIOUS
<1> USE DEF TypeInv, JobPatchKnown, settings, server
<1>1. CASE Prepare
  <2>1. job' \in Jobs /\ job'.patch \in Patches
    BY <1>1 DEF Prepare, At, TypeOK, Jobs
  <2>2. cache' \in Cache
    BY <1>1, FilledCacheType DEF Prepare, TypeOK
  <2>3. link' \in [Files -> BOOLEAN]
    BY <1>1 DEF Prepare, PlacedLinks, TypeOK
  <2>4. KnownFiles(job.patch) \subseteq Files
    BY <1>1, StoreAssumption DEF Prepare, At, KnownFiles, Touches, TypeOK
  <2>5. watched' \in SUBSET Files
    BY <1>1, <2>4 DEF Prepare, WatchedPaths, TypeOK
  <2> QED
    BY <1>1, <2>1, <2>2, <2>3, <2>5 DEF Prepare, TypeOK
<1>2. ASSUME NEW ret \in BOOLEAN, job.phase = "script", ScriptExits(ret),
             cache' \in Cache, backup' \in [Patches -> Diffs \union {None}],
             changed' \in SUBSET Files, watched' \in SUBSET Files
      PROVE  TypeInv'
  <2>1. job' \in Jobs /\ job'.patch \in Patches
    BY <1>2 DEF ScriptExits, TypeOK, Jobs
  <2> QED
    BY <1>2, <2>1 DEF ScriptExits, TypeOK
<1>3. CASE PmApply
  <2> DEFINE p == job.patch
             d == disk[p]
             done == d \in Diffs /\ TestIfApplied(d, cache)
             works == d \in Diffs /\ ~done /\ VerifyTextPatch(d, cache)
             new == IF works THEN InstallTextPatch(d, cache) ELSE cache
  <2>1. new \in Cache
    BY InstallTextPatchType DEF TypeOK
  <2>2. cache' = new /\ ScriptExits(done \/ works) /\ job.phase = "script"
    BY <1>3 DEF PmApply, At
  <2>3. backup' \in [Patches -> Diffs \union {None}]
    BY <1>3 DEF PmApply, TypeOK
  <2>4. changed' \in SUBSET Files /\ watched' \in SUBSET Files
    BY <1>3 DEF PmApply, Disturbed, TypeOK
  <2>5. (done \/ works) \in BOOLEAN
    OBVIOUS
  <2> HIDE DEF new, works, done
  <2> QED
    BY <1>2, <2>1, <2>2, <2>3, <2>4, <2>5
<1>4. CASE PmUnapply
  <2> DEFINE p == job.patch
             d == IF backup[p] # None THEN backup[p] ELSE disk[p]
             works == disk[p] # None /\ d \in Diffs
             new == IF works THEN RemoveTextPatch(d, cache) ELSE cache
  <2>1. new \in Cache
    BY RemoveTextPatchType DEF TypeOK
  <2>2. cache' = new /\ ScriptExits(works) /\ job.phase = "script"
    BY <1>4 DEF PmUnapply, At
  <2>3. backup' \in [Patches -> Diffs \union {None}]
    BY <1>4 DEF PmUnapply, TypeOK
  <2>4. changed' \in SUBSET Files /\ watched' \in SUBSET Files
    BY <1>4 DEF PmUnapply, Disturbed, TypeOK
  <2>5. works \in BOOLEAN
    OBVIOUS
  <2> HIDE DEF new, works
  <2> QED
    BY <1>2, <2>1, <2>2, <2>3, <2>4, <2>5
<1>5. CASE Clean
  <2>1. job' \in Jobs /\ job'.patch \in Patches
    BY <1>5 DEF Clean, At, TypeOK, Jobs
  <2>2. cache' \in Cache
    BY <1>5, ClearedCacheType DEF Clean, TypeOK
  <2>3. link' \in [Files -> BOOLEAN]
    BY <1>5 DEF Clean, ClearedLinks, TypeOK
  <2>4. watched' \in SUBSET Files
    BY <1>5 DEF Clean, TypeOK
  <2> QED
    BY <1>5, <2>1, <2>2, <2>3, <2>4 DEF Clean, TypeOK
<1> QED
  BY <1>1, <1>3, <1>4, <1>5

\* What the handlers do with the results of doPatch() keeps the types.
LEMMA HandlerType ==
  TypeInv /\ (EndDoPatch \/ ApplyAllResult \/ OriginalChangedResult \/ NextToApply
              \/ NextToUnapply \/ EndApplyAll \/ EndOriginalChanged) => TypeInv'
<1> SUFFICES ASSUME TypeInv,
                    EndDoPatch \/ ApplyAllResult \/ OriginalChangedResult \/ NextToApply
                      \/ NextToUnapply \/ EndApplyAll \/ EndOriginalChanged
             PROVE  TypeInv'
  OBVIOUS
<1> USE DEF TypeInv, JobPatchKnown, device, settings, tmpfs, watches, server
<1>0. NoJob \in Jobs /\ NoJob.phase = "next"
  BY JobType DEF NoJob
<1>1. CASE EndDoPatch
  <2>1. queue' \in Seq(Requests)
    BY <1>1, RequestType, QueueType DEF EndDoPatch, TypeOK
  <2>2. applied' \in SUBSET Patches /\ saved' \in SUBSET Patches
    BY <1>1 DEF EndDoPatch, At, TypeOK
  <2> QED
    BY <1>0, <1>1, <2>1, <2>2 DEF EndDoPatch, TypeOK
<1>2. CASE ApplyAllResult
  <2>1. job' \in Jobs /\ job'.phase = "next"
    BY <1>2 DEF ApplyAllResult, At, TypeOK, Jobs
  <2> QED
    BY <1>2, <2>1 DEF ApplyAllResult, TypeOK
<1>3. CASE OriginalChangedResult
  <2>1. job' \in Jobs /\ job'.phase = "next"
    BY <1>3 DEF OriginalChangedResult, At, TypeOK, Jobs
  <2> QED
    BY <1>3, <2>1 DEF OriginalChangedResult, TypeOK
<1>4. CASE NextToApply
  <2>1. PICK p \in job.redo : job' = Begin([job EXCEPT !.redo = @ \ {p}], p, TRUE)
    BY <1>4 DEF NextToApply, FirstListed, FirstInDir
  <2>2. [job EXCEPT !.redo = @ \ {p}] \in Jobs /\ p \in Patches
    BY DEF TypeOK, Jobs
  <2>3. job' \in Jobs /\ job'.patch \in Patches
    BY <2>1, <2>2, BeginType
  <2> QED
    BY <1>4, <2>3 DEF NextToApply, TypeOK
<1>5. CASE NextToUnapply
  <2>1. PICK p \in job.undo : job' = Begin([job EXCEPT !.undo = @ \ {p}], p, FALSE)
    BY <1>5 DEF NextToUnapply, LastListed, FirstInDir
  <2>2. [job EXCEPT !.undo = @ \ {p}] \in Jobs /\ p \in Patches
    BY DEF TypeOK, Jobs
  <2>3. job' \in Jobs /\ job'.patch \in Patches
    BY <2>1, <2>2, BeginType
  <2> QED
    BY <1>5, <2>3 DEF NextToUnapply, TypeOK
<1>6. CASE EndApplyAll
  <2>1. queue' \in Seq(Requests)
    BY <1>6, RequestType, QueueType DEF EndApplyAll, TypeOK
  <2>2. working' \in SUBSET Patches /\ saved' \in SUBSET Patches
    BY <1>6 DEF EndApplyAll, TypeOK
  <2> QED
    BY <1>0, <1>6, <2>1, <2>2 DEF EndApplyAll, TypeOK
<1>7. CASE EndOriginalChanged
  <2>1. job' \in Jobs /\ job'.phase = "next"
    <3>1. Job("applyAll", {}, applied) \in Jobs /\ Job("applyAll", {}, applied).phase = "next"
      BY JobType DEF TypeOK
    <3> QED
      BY <1>0, <1>7, <3>1 DEF EndOriginalChanged
  <2>2. cache' \in Cache /\ backup' \in [Patches -> Diffs \union {None}]
    BY <1>7, EmptyCacheType DEF EndOriginalChanged, TypeOK
  <2>3. watched' \in SUBSET Files /\ changed' \in SUBSET Files
    BY <1>7 DEF EndOriginalChanged, Disturbed, TypeOK
  <2> QED
    BY <1>7, <2>1, <2>2, <2>3 DEF EndOriginalChanged, TypeOK
<1> QED
  BY <1>1, <1>2, <1>3, <1>4, <1>5, <1>6, <1>7

\* Handlers of signals keep the types.
LEMMA SignalType == TypeInv /\ Signal => TypeInv'
<1> SUFFICES ASSUME TypeInv, Signal PROVE TypeInv'
  OBVIOUS
<1> USE DEF TypeInv, JobPatchKnown, device, settings, tmpfs, watches, server
<1>1. ASSUME NEW f \in Files, OnOriginalFileChanged(f) PROVE TypeInv'
  <2>1. job' \in Jobs /\ (job' = job \/ job'.phase = "next")
    BY <1>1, JobType DEF OnOriginalFileChanged, TypeOK
  <2>2. changed' \in SUBSET Files
    BY <1>1 DEF OnOriginalFileChanged, TypeOK
  <2> QED
    BY <1>1, <2>1, <2>2 DEF OnOriginalFileChanged, TypeOK
<1>2. CASE OnContentChanged
  <2>1. queue' \in Seq(Requests)
    BY <1>2, RequestType, QueueType DEF OnContentChanged, TypeOK
  <2> QED
    BY <1>2, <2>1 DEF OnContentChanged, TypeOK
<1>3. CASE OnFailureOccured
  <2>1. queue' \in Seq(Requests)
    BY <1>3, RequestType, QueueType DEF OnFailureOccured, TypeOK
  <2>2. /\ cache' \in Cache /\ backup' \in [Patches -> Diffs \union {None}]
        /\ changed' \in SUBSET Files /\ watched' \in SUBSET Files
        /\ applied' \in SUBSET Patches /\ saved' \in SUBSET Patches
    BY <1>3, UnapplyAllType DEF OnFailureOccured, TypeOK
  <2>3. failed' \in BOOLEAN /\ applyOnBoot' \in BOOLEAN /\ listening' \in BOOLEAN
    BY <1>3 DEF OnFailureOccured, TypeOK
  <2> QED
    BY <1>3, <2>1, <2>2, <2>3 DEF OnFailureOccured, TypeOK
<1>4. CASE OnLipstickFailed
  <2>1. queue' \in Seq(Requests)
    BY <1>4, RequestType, QueueType DEF OnLipstickFailed, TypeOK
  <2> QED
    BY <1>4, <2>1, UnapplyAllType DEF OnLipstickFailed, TypeOK
<1>5. ASSUME NEW p \in Patches, OnArchiveDownloaded(p) PROVE TypeInv'
  BY <1>5 DEF OnArchiveDownloaded, TypeOK
<1> QED
  BY <1>1, <1>2, <1>3, <1>4, <1>5 DEF Signal

\* The life of the server thread keeps the types.
LEMMA ServerThreadType == TypeInv /\ ServerThread => TypeInv'
<1> SUFFICES ASSUME TypeInv, ServerThread PROVE TypeInv'
  OBVIOUS
<1> USE DEF TypeInv, JobPatchKnown, device, settings, tmpfs, watches, server
<1>1. CASE ServerListens
  BY <1>1 DEF ServerListens, TypeOK
<1>2. CASE ServerThreadFinishes
  BY <1>2 DEF ServerThreadFinishes, TypeOK
<1>3. CASE ServerThreadEnds
  <2>1. queue' \in Seq(Requests)
    BY <1>3, RequestType, QueueType DEF ServerThreadEnds, TypeOK
  <2> QED
    BY <1>3, <2>1 DEF ServerThreadEnds, TypeOK
<1> QED
  BY <1>1, <1>2, <1>3 DEF ServerThread

\* Updates, packages, the end of the process and its start keep the types.
LEMMA SurroundingsType == TypeInv /\ (Surroundings \/ Start) => TypeInv'
<1> SUFFICES ASSUME TypeInv, Surroundings \/ Start PROVE TypeInv'
  OBVIOUS
<1> USE DEF TypeInv, JobPatchKnown, device, settings, tmpfs, watches, server
<1>0. NoJob \in Jobs /\ NoJob.phase = "next"
  BY JobType DEF NoJob
<1>1. ASSUME NEW f \in Files, OriginalUpdated(f) PROVE TypeInv'
  <2>1. orig' \in [Files -> 0 .. MaxVersion]
    BY <1>1, StoreAssumption DEF OriginalUpdated, TypeOK
  <2>2. watched' \in SUBSET Files /\ changed' \in SUBSET Files
    BY <1>1 DEF OriginalUpdated, TypeOK
  <2> QED
    BY <1>1, <2>1, <2>2 DEF OriginalUpdated, TypeOK
<1>2. ASSUME NEW f \in Files, OriginalRemoved(f) PROVE TypeInv'
  <2>1. orig' \in [Files -> 0 .. MaxVersion]
    BY <1>2, StoreAssumption DEF OriginalRemoved, TypeOK
  <2>2. watched' \in SUBSET Files /\ changed' \in SUBSET Files
    BY <1>2 DEF OriginalRemoved, TypeOK
  <2> QED
    BY <1>2, <2>1, <2>2 DEF OriginalRemoved, TypeOK
<1>3. ASSUME NEW p \in Patches, PackageMakesDirectory(p) PROVE TypeInv'
  BY <1>3 DEF PackageMakesDirectory, TypeOK
<1>4. ASSUME NEW p \in Patches, PackageWritesDiff(p) PROVE TypeInv'
  BY <1>4 DEF PackageWritesDiff, TypeOK
<1>5. ASSUME NEW p \in Patches, PackageErased(p) PROVE TypeInv'
  BY <1>5 DEF PackageErased, TypeOK
<1>6. CASE Crash
  <2>1. queue' \in Seq(Requests) /\ known' \in [Patches -> Diffs \union {None}]
    BY <1>6 DEF Crash, ProcessEnds
  <2>2. job' \in Jobs /\ job'.phase = "next"
    BY <1>0, <1>6 DEF Crash, ProcessEnds
  <2> QED
    BY <1>6, <2>1, <2>2 DEF Crash, ProcessEnds, TypeOK
<1>7. CASE Reboot
  <2>1. queue' \in Seq(Requests) /\ known' \in [Patches -> Diffs \union {None}]
    BY <1>7 DEF Reboot, ProcessEnds
  <2>2. job' \in Jobs /\ job'.phase = "next"
    BY <1>0, <1>7 DEF Reboot, ProcessEnds
  <2>3. cache' \in Cache /\ backup' \in [Patches -> Diffs \union {None}]
    BY <1>7, EmptyCacheType DEF Reboot
  <2> QED
    BY <1>7, <2>1, <2>2, <2>3 DEF Reboot, ProcessEnds, TypeOK
<1>8. CASE Start
  <2>1. queue' \in Seq(Requests)
    <3>1. {<<Refresh, ApplyAll, StartServer>>, <<Refresh>>, <<RegisterDBus>>} \subseteq Seq(Requests)
      BY RequestType
    <3> QED
      BY <1>8, <3>1 DEF Start
  <2> QED
    BY <1>8, <2>1 DEF Start, TypeOK
<1> QED
  BY <1>1, <1>2, <1>3, <1>4, <1>5, <1>6, <1>7, <1>8 DEF Surroundings

\* The type invariant, with the patch of the script that runs, is inductive.
LEMMA TypeInvariant == Spec => []TypeInv
<1>1. Init => TypeInv
  <2> SUFFICES ASSUME Init PROVE TypeInv
    OBVIOUS
  <2>1. job \in Jobs /\ job.phase = "next"
    BY JobType DEF NoJob, Init
  <2>2. order \in Seq(Patches) /\ queue \in Seq(Requests)
    BY DEF Init
  <2>3. /\ orig \in [Files -> 0 .. MaxVersion]
        /\ applyOnBoot \in BOOLEAN
    BY DaemonAssumption DEF Init
  <2>4. /\ link \in [Files -> BOOLEAN]
        /\ disk \in [Patches -> Diffs \union {Empty, None}]
        /\ cache \in Cache
        /\ backup \in [Patches -> Diffs \union {None}]
        /\ known \in [Patches -> Diffs \union {None}]
    BY EmptyCacheType DEF Init
  <2> QED
    BY <2>1, <2>2, <2>3, <2>4 DEF Init, TypeInv, TypeOK, JobPatchKnown
<1>2. TypeInv /\ [Next]_vars => TypeInv'
  <2> SUFFICES ASSUME TypeInv, [Next]_vars PROVE TypeInv'
    OBVIOUS
  <2>1. CASE Next
    BY <2>1, MethodType, QueuedType, ScriptType, HandlerType, SignalType, ServerThreadType,
       SurroundingsType DEF Next, MainThread, Running
  <2>2. CASE UNCHANGED vars
    BY <2>2 DEF vars, TypeInv, TypeOK, JobPatchKnown
  <2> QED
    BY <2>1, <2>2
<1> QED
  BY <1>1, <1>2, PTL DEF Spec

\* Every reachable state is well-typed, whatever the daemon, its clients and the
\* system do.
THEOREM TypeCorrect == Spec => []TypeOK
<1>1. TypeInv => TypeOK
  BY DEF TypeInv
<1> QED
  BY <1>1, TypeInvariant, PTL

---------------------------------------------------------------------------
(***************************************************************************)
(* m_appliedPatches and settings/applied.  They may differ before the      *)
(* first refresh of a new process, and inside doApplyAllPatches() once a   *)
(* patch has failed: then patches were only dropped.                       *)
(***************************************************************************)

\* A process that does not run holds no bus name, no handler and no thread.
Down == ~up => ~registered /\ job = NoJob /\ thread = "stopped"

\* A new process has yet to read the settings, and does nothing else first.
AwaitsRefresh ==
  /\ queue # <<>> /\ Head(queue) = Refresh
  /\ job = NoJob /\ ~registered /\ thread = "stopped"

DroppedOnly == job.kind = "applyAll" /\ ~job.ok /\ applied \subseteq saved

SettingsInv == Down /\ (up => AwaitsRefresh \/ applied = saved \/ DroppedOnly)

\* Without a handler there is no doApplyAllPatches() that may have dropped patches.
LEMMA NoJobKind == NoJob.kind = "none"
  BY DEF NoJob, Job

\* Calls of clients keep the two sets together.
LEMMA MethodSettings == SettingsInv /\ Method => SettingsInv'
<1> SUFFICES ASSUME SettingsInv, Method PROVE SettingsInv'
  OBVIOUS
<1>1. up /\ registered /\ job = NoJob /\ applied = saved
  BY NoJobKind DEF Method, ApplyPatch, UnapplyPatch, UninstallPatch, UnapplyAllPatches,
     RestorePatchList, ResolveFailure, LoadRequestApply, LoadRequestUnapply, PutOrder,
     PutApplyOnBoot, Call, Idle, SettingsInv, AwaitsRefresh, DroppedOnly
<1>2. up' = up /\ applied' = saved'
  BY <1>1 DEF Method, ApplyPatch, UnapplyPatch, UninstallPatch, UnapplyAllPatches,
     RestorePatchList, ResolveFailure, LoadRequestApply, LoadRequestUnapply, PutOrder,
     PutApplyOnBoot, UnapplyAll, settings
<1> QED
  BY <1>1, <1>2 DEF SettingsInv, Down

\* Handlers of queued events: the first refresh brings the two sets together.
LEMMA QueuedSettings == SettingsInv /\ Queued => SettingsInv'
<1> SUFFICES ASSUME SettingsInv, Queued PROVE SettingsInv'
  OBVIOUS
<1>1. up /\ up' = up /\ saved' = saved /\ job = NoJob
  BY DEF Queued, DoRefreshPatchList, DoPatchHandler, DoApplyAllPatches, DoStartLocalServer,
     DoUninstallPatch, DoRegisterDBus, ServerFinished, Handles, Idle, settings
<1>2. CASE DoRefreshPatchList
  BY <1>1, <1>2 DEF DoRefreshPatchList, SettingsInv, Down
<1>3. CASE ~DoRefreshPatchList
  <2>1. Head(queue) # Refresh /\ applied' = applied
    BY <1>3 DEF Queued, DoPatchHandler, DoApplyAllPatches, DoStartLocalServer,
       DoUninstallPatch, DoRegisterDBus, ServerFinished, Handles, DoPatch, Uninstall, Refresh,
       ApplyAll, StartServer, RegisterDBus, CloseServer
  <2>2. applied = saved
    BY <1>1, <2>1, NoJobKind DEF SettingsInv, AwaitsRefresh, DroppedOnly
  <2> QED
    BY <1>1, <2>1, <2>2 DEF SettingsInv, Down
<1> QED
  BY <1>2, <1>3

\* A handler in progress: only doApplyAllPatches() lets the two sets differ, and
\* it saves what is left when it ends.
LEMMA RunningSettings == TypeInv /\ SettingsInv /\ Running => SettingsInv'
<1> SUFFICES ASSUME TypeInv, SettingsInv, Running PROVE SettingsInv'
  OBVIOUS
<1>1. up /\ up' = up /\ job.kind # "none"
  BY DEF Running, Prepare, PmApply, PmUnapply, Clean, ScriptExits, EndDoPatch, ApplyAllResult,
     OriginalChangedResult, NextToApply, NextToUnapply, EndApplyAll, EndOriginalChanged, At
<1>2. applied = saved \/ DroppedOnly
  BY <1>1, NoJobKind DEF SettingsInv, AwaitsRefresh
<1>3. SUFFICES applied' = saved' \/ DroppedOnly'
  BY <1>1 DEF SettingsInv, Down
<1>4. job \in Jobs
  BY DEF TypeInv, TypeOK
<1>5. CASE Prepare \/ PmApply \/ PmUnapply \/ Clean
  <2>1. applied' = applied /\ saved' = saved
    BY <1>5 DEF Prepare, PmApply, PmUnapply, Clean, ScriptExits, settings
  <2>2. job'.kind = job.kind /\ job'.ok = job.ok
    BY <1>4, <1>5 DEF Prepare, PmApply, PmUnapply, Clean, ScriptExits, Jobs
  <2> QED
    BY <1>2, <2>1, <2>2 DEF DroppedOnly
<1>6. CASE EndDoPatch
  BY <1>2, <1>6 DEF EndDoPatch, DroppedOnly
<1>7. CASE ApplyAllResult
  <2>1. saved' = saved /\ job'.kind = "applyAll" /\ (~job.ok \/ ~job.ret => ~job'.ok)
    BY <1>4, <1>7 DEF ApplyAllResult, At, settings, Jobs
  <2>2. applied' \subseteq saved /\ (job.ret => applied' = applied)
    BY <1>2, <1>7 DEF ApplyAllResult, DroppedOnly
  <2> QED
    BY <1>2, <2>1, <2>2 DEF DroppedOnly
<1>8. CASE OriginalChangedResult
  BY <1>2, <1>8 DEF OriginalChangedResult, At, settings, DroppedOnly
<1>9. CASE NextToApply \/ NextToUnapply
  <2>1. applied' = applied /\ saved' = saved
    BY <1>9 DEF NextToApply, NextToUnapply, settings
  <2>2. CASE NextToApply
    <3>1. PICK p : job' = Begin([job EXCEPT !.redo = @ \ {p}], p, TRUE)
      BY <2>2, Zenon DEF NextToApply
    <3>2. job'.kind = job.kind /\ job'.ok = job.ok
      BY <1>4, <3>1 DEF Begin, Jobs
    <3> QED
      BY <1>2, <2>1, <3>2 DEF DroppedOnly
  <2>3. CASE NextToUnapply
    <3>1. PICK p : job' = Begin([job EXCEPT !.undo = @ \ {p}], p, FALSE)
      BY <2>3, Zenon DEF NextToUnapply
    <3>2. job'.kind = job.kind /\ job'.ok = job.ok
      BY <1>4, <3>1 DEF Begin, Jobs
    <3> QED
      BY <1>2, <2>1, <3>2 DEF DroppedOnly
  <2> QED
    BY <1>9, <2>2, <2>3
<1>10. CASE EndApplyAll
  BY <1>2, <1>10 DEF EndApplyAll, DroppedOnly
<1>11. CASE EndOriginalChanged
  BY <1>2, <1>11 DEF EndOriginalChanged, At, settings, DroppedOnly
<1> QED
  BY <1>5, <1>6, <1>7, <1>8, <1>9, <1>10, <1>11 DEF Running

\* Signals: before the first refresh they may clear both sets, nothing else.
LEMMA SignalSettings == TypeInv /\ SettingsInv /\ Signal => SettingsInv'
<1> SUFFICES ASSUME TypeInv, SettingsInv, Signal PROVE SettingsInv'
  OBVIOUS
<1>1. up /\ up' = up /\ job = NoJob /\ registered' = registered
  BY DEF Signal, OnOriginalFileChanged, OnContentChanged, OnFailureOccured, OnLipstickFailed,
     OnArchiveDownloaded, Idle
<1>2. AwaitsRefresh \/ applied = saved
  BY <1>1, NoJobKind DEF SettingsInv, DroppedOnly
<1>3. queue \in Seq(Requests)
  BY DEF TypeInv, TypeOK
<1>4. SUFFICES AwaitsRefresh' \/ applied' = saved'
  BY <1>1 DEF SettingsInv, Down
<1>5. CASE OnLipstickFailed \/ (OnFailureOccured /\ ~failed)
  BY <1>5 DEF OnLipstickFailed, OnFailureOccured, UnapplyAll
<1>6. CASE OnFailureOccured /\ failed
  <2>1. applied' = applied /\ saved' = saved /\ queue' = queue /\ job' = job
    BY <1>6 DEF OnFailureOccured
  <2>2. thread = "stopped" => thread' = "stopped"
    BY <1>6 DEF OnFailureOccured, Loaded
  <2> QED
    BY <1>1, <1>2, <2>1, <2>2 DEF AwaitsRefresh
<1>7. ASSUME NEW f \in Files, OnOriginalFileChanged(f) PROVE AwaitsRefresh' \/ applied' = saved'
  <2>1. applied' = applied /\ saved' = saved /\ queue' = queue /\ thread' = thread
    BY <1>7 DEF OnOriginalFileChanged, settings, server
  <2>2. thread = "stopped" => job' = job
    BY <1>7 DEF OnOriginalFileChanged, Loaded
  <2> QED
    BY <1>1, <1>2, <2>1, <2>2 DEF AwaitsRefresh
<1>8. CASE OnContentChanged
  <2>1. applied' = applied /\ saved' = saved /\ thread' = thread /\ job' = job
    BY <1>8 DEF OnContentChanged, settings, server
  <2>2. queue # <<>> => queue' # <<>> /\ Head(queue') = Head(queue)
    BY <1>3, <1>8 DEF OnContentChanged
  <2> QED
    BY <1>1, <1>2, <2>1, <2>2 DEF AwaitsRefresh
<1>9. ASSUME NEW p \in Patches, OnArchiveDownloaded(p) PROVE AwaitsRefresh' \/ applied' = saved'
  BY <1>1, <1>2, <1>9 DEF OnArchiveDownloaded, AwaitsRefresh, settings, server
<1> QED
  BY <1>5, <1>6, <1>7, <1>8, <1>9 DEF Signal

\* The server thread and the surroundings touch neither set while the process runs.
LEMMA OtherSettings == SettingsInv /\ (ServerThread \/ Surroundings \/ Start) => SettingsInv'
<1> SUFFICES ASSUME SettingsInv, ServerThread \/ Surroundings \/ Start PROVE SettingsInv'
  OBVIOUS
<1>1. CASE ServerThread
  <2>1. thread # "stopped" /\ UNCHANGED <<up, job, registered, applied, saved>>
    BY <1>1 DEF ServerThread, ServerListens, ServerThreadFinishes, ServerThreadEnds, settings
  <2> QED
    BY <2>1 DEF SettingsInv, Down, AwaitsRefresh, DroppedOnly
<1>2. CASE Crash \/ Reboot
  BY <1>2 DEF Crash, Reboot, ProcessEnds, SettingsInv, Down
<1>3. CASE Start
  <2>1. ~registered /\ job = NoJob /\ thread = "stopped"
    BY <1>3 DEF Start, SettingsInv, Down
  <2>2. queue' # <<>> /\ Head(queue') = Refresh
    BY <1>3 DEF Start
  <2>3. UNCHANGED <<registered, job, thread>> /\ up'
    BY <1>3 DEF Start, server
  <2> QED
    BY <2>1, <2>2, <2>3 DEF SettingsInv, Down, AwaitsRefresh
<1>4. CASE Surroundings /\ ~Crash /\ ~Reboot
  <2>1. UNCHANGED <<up, job, registered, thread, queue, applied, saved>>
    BY <1>4 DEF Surroundings, OriginalUpdated, OriginalRemoved, PackageMakesDirectory,
       PackageWritesDiff, PackageErased, settings, server
  <2> QED
    BY <2>1 DEF SettingsInv, Down, AwaitsRefresh, DroppedOnly
<1> QED
  BY <1>1, <1>2, <1>3, <1>4

\* The relation between the two sets is inductive.
LEMMA SettingsInvariant == Spec => []SettingsInv
<1>1. Init => SettingsInv
  BY DEF Init, SettingsInv, Down
<1>2. TypeInv /\ SettingsInv /\ [Next]_vars => SettingsInv'
  <2> SUFFICES ASSUME TypeInv, SettingsInv, [Next]_vars PROVE SettingsInv'
    OBVIOUS
  <2>1. CASE Next
    BY <2>1, MethodSettings, QueuedSettings, RunningSettings, SignalSettings, OtherSettings
       DEF Next, MainThread
  <2>2. CASE UNCHANGED vars
    BY <2>2 DEF vars, SettingsInv, Down, AwaitsRefresh, DroppedOnly
  <2> QED
    BY <2>1, <2>2
<1> QED
  BY <1>1, <1>2, TypeInvariant, PTL DEF Spec

\* Whatever is called, fails or crashes, between two handlers of a registered
\* daemon m_appliedPatches is what settings/applied says.
THEOREM SettingsAlwaysAgree == Spec => []SettingsAgree
<1>1. SettingsInv => SettingsAgree
  BY NoJobKind DEF SettingsInv, SettingsAgree, Idle, AwaitsRefresh, DroppedOnly
<1> QED
  BY <1>1, SettingsInvariant, PTL

---------------------------------------------------------------------------
(* The daemon keeps the promise of PatchSet. *)

\* Every step of the daemon is a step of PatchSet, or leaves the sets alone.
LEMMA StepOfPatchSet ==
  TypeInv /\ SettingsInv /\ [Next]_vars => [Promise!Next]_<<saved, working>>
<1> SUFFICES ASSUME TypeInv, SettingsInv, [Next]_vars
             PROVE  Promise!Next \/ UNCHANGED <<saved, working>>
  OBVIOUS
<1> USE DEF Promise!Next, Promise!Enable, Promise!Drop, Promise!Remember, Promise!Restore
<1>1. CASE UnapplyAll /\ working' = working
  BY <1>1 DEF UnapplyAll
<1>2. CASE RestorePatchList
  BY <1>2 DEF RestorePatchList
<1>3. CASE Method /\ ~RestorePatchList
  <2>1. (UnapplyAll /\ working' = working) \/ UNCHANGED <<saved, working>>
    BY <1>3 DEF Method, ApplyPatch, UnapplyPatch, UninstallPatch, UnapplyAllPatches,
       ResolveFailure, LoadRequestApply, LoadRequestUnapply, PutOrder, PutApplyOnBoot, settings
  <2> QED
    BY <1>1, <2>1
<1>4. CASE Queued
  BY <1>4 DEF Queued, DoRefreshPatchList, DoPatchHandler, DoApplyAllPatches,
     DoStartLocalServer, DoUninstallPatch, DoRegisterDBus, ServerFinished, settings
<1>5. CASE EndDoPatch
  <2>1. job.patch \in Patches /\ applied = saved
    BY <1>5, NoJobKind DEF EndDoPatch, At, TypeInv, JobPatchKnown, SettingsInv, AwaitsRefresh,
       DroppedOnly
  <2> QED
    BY <1>5, <2>1 DEF EndDoPatch
<1>6. CASE EndApplyAll
  <2>1. applied = saved \/ (~job.ok /\ applied \subseteq saved)
    BY <1>6, NoJobKind DEF EndApplyAll, At, SettingsInv, AwaitsRefresh, DroppedOnly
  <2> QED
    BY <1>6, <2>1 DEF EndApplyAll
<1>7. CASE Running /\ ~EndDoPatch /\ ~EndApplyAll
  BY <1>7 DEF Running, Prepare, PmApply, PmUnapply, Clean, ScriptExits, ApplyAllResult,
     OriginalChangedResult, NextToApply, NextToUnapply, EndOriginalChanged, settings
<1>8. CASE Signal
  <2>1. (UnapplyAll /\ working' = working) \/ UNCHANGED <<saved, working>>
    BY <1>8 DEF Signal, OnOriginalFileChanged, OnContentChanged, OnFailureOccured,
       OnLipstickFailed, OnArchiveDownloaded, settings
  <2> QED
    BY <1>1, <2>1
<1>9. CASE ServerThread \/ Surroundings \/ Start
  BY <1>9 DEF ServerThread, ServerListens, ServerThreadFinishes, ServerThreadEnds, Surroundings,
     OriginalUpdated, OriginalRemoved, PackageMakesDirectory, PackageWritesDiff,
     PackageErased, Crash, Reboot, Start, settings
<1>10. CASE UNCHANGED vars
  BY <1>10 DEF vars
<1> QED
  BY <1>2, <1>3, <1>4, <1>5, <1>6, <1>7, <1>8, <1>9, <1>10 DEF Next, MainThread

\* The enabled patches survive crashes and reboots, grow only as the user asks, and
\* only a set that was enabled is remembered: the daemon implements PatchSet.
THEOREM DaemonKeepsSet == Spec => SetIsKept
<1>1. Init => Promise!Init
  BY DEF Init, Promise!Init
<1> QED
  BY <1>1, StepOfPatchSet, TypeInvariant, SettingsInvariant, PTL
  DEF Spec, SetIsKept, Promise!Spec

---------------------------------------------------------------------------
(***************************************************************************)
(* The files of patches that are gone.  A directory that disappears leaves *)
(* an event, an event a refresh in the queue; a new process knows nothing. *)
(***************************************************************************)

NoRefresh(q) == \A i \in DOMAIN q : q[i] # Refresh

GhostInv ==
  /\ ~up => \A p \in Patches : known[p] = None
  /\ ~listed /\ NoRefresh(queue) => \A p \in Patches : known[p] # None => disk[p] # None

\* A refresh that waits goes on waiting when something is posted behind it.
LEMMA PostedRefresh ==
  ASSUME NEW q \in Seq(Requests), NEW r \in Requests
  PROVE  /\ NoRefresh(Append(q, r)) => NoRefresh(q) /\ r # Refresh
         /\ q # <<>> /\ Head(q) # Refresh /\ NoRefresh(Tail(q)) => NoRefresh(q)
<1>1. ASSUME NoRefresh(Append(q, r)) PROVE NoRefresh(q) /\ r # Refresh
  <2>1. \A i \in 1 .. Len(q) + 1 : Append(q, r)[i] # Refresh
    BY <1>1 DEF NoRefresh
  <2> QED
    BY <2>1 DEF NoRefresh
<1>2. ASSUME q # <<>>, Head(q) # Refresh, NoRefresh(Tail(q)), NEW i \in DOMAIN q
      PROVE  q[i] # Refresh
  <2>1. CASE i = 1
    BY <1>2, <2>1
  <2>2. CASE i # 1
    <3>1. i - 1 \in DOMAIN Tail(q) /\ Tail(q)[i - 1] = q[i]
      BY <1>2, <2>2
    <3> QED
      BY <1>2, <3>1 DEF NoRefresh
  <2> QED
    BY <2>1, <2>2
<1> QED
  BY <1>1, <1>2 DEF NoRefresh

\* Whatever keeps the directories, what is known of them, and the event, may post
\* what it likes.
LEMMA OnlyPosts ==
  ASSUME GhostInv, UNCHANGED <<up, known, disk, listed>>, NoRefresh(queue') => NoRefresh(queue)
  PROVE  GhostInv'
  BY DEF GhostInv

\* Calls of clients only post.
LEMMA MethodGhosts == TypeInv /\ GhostInv /\ Method => GhostInv'
<1> SUFFICES ASSUME TypeInv, GhostInv, Method PROVE GhostInv'
  OBVIOUS
<1>1. queue \in Seq(Requests)
  BY DEF TypeInv, TypeOK
<1>2. UNCHANGED <<up, known, disk, listed>>
  BY DEF Method, ApplyPatch, UnapplyPatch, UninstallPatch, UnapplyAllPatches, RestorePatchList,
     ResolveFailure, LoadRequestApply, LoadRequestUnapply, PutOrder, PutApplyOnBoot, device, watches
<1>3. \/ queue' = queue
      \/ \E r \in Requests : queue' = Append(queue, r)
      \/ \E r, s \in Requests : queue' = queue \o <<r, s>>
  BY RequestType DEF Method, ApplyPatch, UnapplyPatch, UninstallPatch, UnapplyAllPatches,
     RestorePatchList, ResolveFailure, LoadRequestApply, LoadRequestUnapply, PutOrder, PutApplyOnBoot
<1>4. NoRefresh(queue') => NoRefresh(queue)
  <2>1. ASSUME NEW r \in Requests, NEW s \in Requests, queue' = queue \o <<r, s>>
        PROVE  NoRefresh(queue') => NoRefresh(queue)
    <3>1. \A i \in DOMAIN queue : i \in DOMAIN queue' /\ queue'[i] = queue[i]
      BY <1>1, <2>1
    <3> QED
      BY <3>1 DEF NoRefresh
  <2> QED
    BY <1>1, <1>3, <2>1, PostedRefresh
<1> QED
  BY <1>2, <1>4, OnlyPosts

\* Handlers of queued events: the refresh reads the directories, and uninstalling
\* leaves an event.
LEMMA QueuedGhosts == TypeInv /\ GhostInv /\ Queued => GhostInv'
<1> SUFFICES ASSUME TypeInv, GhostInv, Queued PROVE GhostInv'
  OBVIOUS
<1>1. queue \in Seq(Requests) /\ disk \in [Patches -> Diffs \union {Empty, None}] /\ listed \in BOOLEAN
  BY DEF TypeInv, TypeOK
<1>2. CASE DoRefreshPatchList
  <2>1. up' /\ \A p \in Patches : known'[p] # None => disk'[p] # None
    BY <1>2 DEF DoRefreshPatchList, Handles, Idle, device
  <2> QED
    BY <2>1 DEF GhostInv
<1>3. CASE ~DoRefreshPatchList
  <2>1. queue # <<>> /\ Head(queue) # Refresh /\ UNCHANGED <<up, known>>
    BY <1>3 DEF Queued, DoPatchHandler, DoApplyAllPatches, DoStartLocalServer,
       DoUninstallPatch, DoRegisterDBus, ServerFinished, Handles, DoPatch, Uninstall, Refresh,
       ApplyAll, StartServer, RegisterDBus, CloseServer
  <2>2. queue' = Tail(queue) \/ queue' = Append(Tail(queue), CloseServer)
    BY <1>3 DEF Queued, DoPatchHandler, DoApplyAllPatches, DoStartLocalServer,
       DoUninstallPatch, DoRegisterDBus, ServerFinished
  <2>3. NoRefresh(queue') => NoRefresh(queue)
    <3>1. Tail(queue) \in Seq(Requests) /\ CloseServer \in Requests
      BY <1>1, <2>1, RequestType
    <3> QED
      BY <1>1, <2>1, <2>2, <3>1, PostedRefresh
  <2>4. UNCHANGED <<disk, listed>>
        \/ \E p \in Patches : disk' = [disk EXCEPT ![p] = None] /\ listed' = (listed \/ disk[p] # None)
    BY <1>3 DEF Queued, DoPatchHandler, DoApplyAllPatches, DoStartLocalServer,
       DoUninstallPatch, DoRegisterDBus, ServerFinished, device, watches
  <2>5. CASE UNCHANGED <<disk, listed>>
    BY <2>1, <2>3, <2>5, OnlyPosts
  <2>6. ASSUME NEW p \in Patches, disk' = [disk EXCEPT ![p] = None],
               listed' = (listed \/ disk[p] # None)
        PROVE  GhostInv'
    <3>1. CASE disk[p] # None
      BY <2>1, <2>6, <3>1 DEF GhostInv
    <3>2. CASE disk[p] = None
      <4>1. disk' = disk /\ listed' = listed
        BY <1>1, <2>6, <3>2
      <4> QED
        BY <2>1, <2>3, <4>1, OnlyPosts
    <3> QED
      BY <3>1, <3>2
  <2> QED
    BY <2>4, <2>5, <2>6
<1> QED
  BY <1>2, <1>3

\* A handler in progress only posts.
LEMMA RunningGhosts == TypeInv /\ GhostInv /\ Running => GhostInv'
<1> SUFFICES ASSUME TypeInv, GhostInv, Running PROVE GhostInv'
  OBVIOUS
<1>1. UNCHANGED <<up, known, disk, listed>>
  BY DEF Running, Prepare, PmApply, PmUnapply, Clean, ScriptExits, EndDoPatch, ApplyAllResult,
     OriginalChangedResult, NextToApply, NextToUnapply, EndApplyAll, EndOriginalChanged, device, watches
<1>2. queue' = queue \/ queue' = Append(queue, Refresh)
  BY DEF Running, Prepare, PmApply, PmUnapply, Clean, ScriptExits, EndDoPatch, ApplyAllResult,
     OriginalChangedResult, NextToApply, NextToUnapply, EndApplyAll, EndOriginalChanged
<1>3. queue \in Seq(Requests) /\ Refresh \in Requests
  BY RequestType DEF TypeInv, TypeOK
<1> QED
  BY <1>1, <1>2, <1>3, PostedRefresh, OnlyPosts

\* Signals: the event of the directory becomes a refresh.
LEMMA SignalGhosts == TypeInv /\ GhostInv /\ Signal => GhostInv'
<1> SUFFICES ASSUME TypeInv, GhostInv, Signal PROVE GhostInv'
  OBVIOUS
<1>1. queue \in Seq(Requests) /\ Refresh \in Requests
  BY RequestType DEF TypeInv, TypeOK
<1>2. up' /\ known' = known
  <2>1. up /\ up' = up
    BY DEF Signal, OnOriginalFileChanged, OnContentChanged, OnFailureOccured, OnLipstickFailed,
       OnArchiveDownloaded, Idle
  <2>2. known' = known
    BY DEF Signal, OnOriginalFileChanged, OnContentChanged, OnFailureOccured, OnLipstickFailed,
       OnArchiveDownloaded
  <2> QED
    BY <2>1, <2>2
<1>3. CASE OnContentChanged
  <2>1. ~NoRefresh(queue')
    BY <1>1, <1>3, PostedRefresh DEF OnContentChanged
  <2> QED
    BY <1>2, <2>1 DEF GhostInv
<1>4. ASSUME NEW p \in Patches, OnArchiveDownloaded(p) PROVE GhostInv'
  <2>1. listed'
    BY <1>4 DEF OnArchiveDownloaded
  <2> QED
    BY <1>2, <2>1 DEF GhostInv
<1>5. CASE ~OnContentChanged /\ ~\E p \in Patches : OnArchiveDownloaded(p)
  <2>1. UNCHANGED <<up, disk, listed>> /\ (queue' = queue \/ queue' = Append(queue, Refresh))
    BY <1>5 DEF Signal, OnOriginalFileChanged, OnFailureOccured, OnLipstickFailed, device
  <2> QED
    BY <1>1, <1>2, <2>1, PostedRefresh, OnlyPosts
<1> QED
  BY <1>3, <1>4, <1>5

\* The package manager leaves an event with a running process; a process that ends
\* forgets, and one that starts has a refresh in its queue.
LEMMA OtherGhosts == TypeInv /\ GhostInv /\ (ServerThread \/ Surroundings \/ Start) => GhostInv'
<1> SUFFICES ASSUME TypeInv, GhostInv, ServerThread \/ Surroundings \/ Start PROVE GhostInv'
  OBVIOUS
<1>1. queue \in Seq(Requests) /\ CloseServer \in Requests
      /\ disk \in [Patches -> Diffs \union {Empty, None}]
  BY RequestType DEF TypeInv, TypeOK
<1>2. CASE ServerThread
  <2>1. UNCHANGED <<up, known, disk, listed>>
        /\ (queue' = queue \/ queue' = Append(queue, CloseServer))
    BY <1>2 DEF ServerThread, ServerListens, ServerThreadFinishes, ServerThreadEnds, device, watches
  <2> QED
    BY <1>1, <2>1, PostedRefresh, OnlyPosts
<1>3. CASE Crash \/ Reboot
  BY <1>3 DEF Crash, Reboot, ProcessEnds, GhostInv
<1>4. CASE Start
  <2>1. up' /\ known' = known /\ \A p \in Patches : known[p] = None
    BY <1>4 DEF Start, GhostInv
  <2> QED
    BY <2>1 DEF GhostInv
<1>5. ASSUME NEW p \in Patches,
             PackageMakesDirectory(p) \/ PackageWritesDiff(p) \/ PackageErased(p)
      PROVE  GhostInv'
  <2>1. UNCHANGED <<up, known, queue>>
    BY <1>5 DEF PackageMakesDirectory, PackageWritesDiff, PackageErased, watches
  <2>2. CASE PackageWritesDiff(p)
    <3>1. listed' = listed /\ \E d \in Diffs : disk' = [disk EXCEPT ![p] = d]
      BY <2>2 DEF PackageWritesDiff, watches
    <3> QED
      BY <1>1, <2>1, <3>1, StoreAssumption DEF GhostInv
  <2>3. CASE PackageMakesDirectory(p) \/ PackageErased(p)
    <3>1. listed' = up
      BY <2>3 DEF PackageMakesDirectory, PackageErased
    <3> QED
      BY <2>1, <3>1 DEF GhostInv
  <2> QED
    BY <1>5, <2>2, <2>3
<1>6. ASSUME NEW f \in Files, OriginalUpdated(f) \/ OriginalRemoved(f) PROVE GhostInv'
  BY <1>6, OnlyPosts DEF OriginalUpdated, OriginalRemoved
<1> QED
  BY <1>2, <1>3, <1>4, <1>5, <1>6 DEF Surroundings

\* What the daemon knows of a patch that is gone is on its way out.
LEMMA GhostInvariant == Spec => []GhostInv
<1>1. Init => GhostInv
  BY DEF Init, GhostInv
<1>2. TypeInv /\ GhostInv /\ [Next]_vars => GhostInv'
  <2> SUFFICES ASSUME TypeInv, GhostInv, [Next]_vars PROVE GhostInv'
    OBVIOUS
  <2>1. CASE Next
    BY <2>1, MethodGhosts, QueuedGhosts, RunningGhosts, SignalGhosts, OtherGhosts
       DEF Next, MainThread
  <2>2. CASE UNCHANGED vars
    BY <2>2, OnlyPosts DEF vars
  <2> QED
    BY <2>1, <2>2
<1> QED
  BY <1>1, <1>2, TypeInvariant, PTL DEF Spec

\* Once the event of a deletion and the refresh it posts are handled, the daemon
\* holds no file of a patch whose directory is gone, however packages, downloads
\* and restarts follow each other.
THEOREM GhostsAreForgotten == Spec => []NoGhostPatches
<1>1. GhostInv => NoGhostPatches
  BY DEF GhostInv, NoGhostPatches, NoRefresh
<1> QED
  BY <1>1, GhostInvariant, PTL

---------------------------------------------------------------------------
(* What ServerStarts rests on: a request for the server is never lost. *)

\* A request that is in the queue stays there under what the daemon does with it.
LEMMA AskedStays ==
  ASSUME NEW q \in Seq(Requests), NEW i \in DOMAIN q, q[i] = StartServer
  PROVE  /\ \A r, s \in Requests :
              /\ \E j \in DOMAIN Append(q, r) : Append(q, r)[j] = StartServer
              /\ \E j \in DOMAIN (q \o <<r, s>>) : (q \o <<r, s>>)[j] = StartServer
         /\ q # <<>> /\ Head(q) # StartServer =>
              \E j \in DOMAIN Tail(q) : Tail(q)[j] = StartServer
<1>1. ASSUME NEW r \in Requests, NEW s \in Requests
      PROVE  /\ i \in DOMAIN Append(q, r) /\ Append(q, r)[i] = StartServer
             /\ i \in DOMAIN (q \o <<r, s>>) /\ (q \o <<r, s>>)[i] = StartServer
  OBVIOUS
<1>2. ASSUME Head(q) # StartServer
      PROVE  i - 1 \in DOMAIN Tail(q) /\ Tail(q)[i - 1] = StartServer
  <2>1. i # 1
    BY <1>2
  <2> QED
    BY <2>1
<1> QED
  BY <1>1, <1>2

\* Only starting the server takes a request for it out of the queue.
LEMMA AskedStep ==
  ASSUME TypeInv, Asked, up, up', [Next]_vars
  PROVE  Asked' \/ Loaded'
<1>1. queue \in Seq(Requests)
  BY DEF TypeInv, TypeOK
<1>2. PICK i \in DOMAIN queue : queue[i] = StartServer
  BY DEF Asked
<1>3. ASSUME \/ queue' = queue
             \/ \E r \in Requests : queue' = Append(queue, r)
             \/ \E r, s \in Requests : queue' = queue \o <<r, s>>
      PROVE  Asked'
  <2>1. CASE queue' = queue
    BY <2>1 DEF Asked
  <2>2. ASSUME NEW r \in Requests, queue' = Append(queue, r) PROVE Asked'
    BY <1>1, <1>2, <2>2, AskedStays DEF Asked
  <2>3. ASSUME NEW r \in Requests, NEW s \in Requests, queue' = queue \o <<r, s>> PROVE Asked'
    BY <1>1, <1>2, <2>3, AskedStays DEF Asked
  <2> QED
    BY <1>3, <2>1, <2>2, <2>3
<1>4. ASSUME queue # <<>>, queue' = Tail(queue), Head(queue) # StartServer PROVE Asked'
  BY <1>1, <1>2, <1>4, AskedStays DEF Asked
<1>5. CASE Method
  <2>1. \/ queue' = queue
        \/ \E r \in Requests : queue' = Append(queue, r)
        \/ \E r, s \in Requests : queue' = queue \o <<r, s>>
    BY <1>5, RequestType DEF Method, ApplyPatch, UnapplyPatch, UninstallPatch, UnapplyAllPatches,
       RestorePatchList, ResolveFailure, LoadRequestApply, LoadRequestUnapply, PutOrder, PutApplyOnBoot
  <2> QED
    BY <1>3, <2>1
<1>6. CASE Queued
  <2>1. CASE DoStartLocalServer
    BY <2>1 DEF DoStartLocalServer, Loaded
  <2>2. CASE ~DoStartLocalServer
    <3>1. queue # <<>> /\ queue' = Tail(queue)
      BY <1>6, <2>2 DEF Queued, DoRefreshPatchList, DoPatchHandler, DoApplyAllPatches,
         DoUninstallPatch, DoRegisterDBus, ServerFinished, Handles
    <3>2. \/ Head(queue) \in {Refresh, ApplyAll, RegisterDBus, CloseServer}
          \/ \E p \in Patches : Head(queue) = Uninstall(p)
          \/ \E p \in Patches, apply \in BOOLEAN : Head(queue) = DoPatch(p, apply)
      BY <1>6, <2>2 DEF Queued, DoRefreshPatchList, DoPatchHandler, DoApplyAllPatches,
         DoUninstallPatch, DoRegisterDBus, ServerFinished, Handles
    <3>3. Head(queue) # StartServer
      BY <3>2 DEF DoPatch, Uninstall, Refresh, ApplyAll, StartServer, RegisterDBus, CloseServer
    <3> QED
      BY <1>4, <3>1, <3>3
  <2> QED
    BY <2>1, <2>2
<1>7. CASE Running \/ Signal \/ ServerThread
  <2>1. queue' = queue \/ \E r \in Requests : queue' = Append(queue, r)
    BY <1>7, RequestType DEF Running, Prepare, PmApply, PmUnapply, Clean, ScriptExits, EndDoPatch,
       ApplyAllResult, OriginalChangedResult, NextToApply, NextToUnapply, EndApplyAll,
       EndOriginalChanged, Signal, OnOriginalFileChanged, OnContentChanged, OnFailureOccured,
       OnLipstickFailed, OnArchiveDownloaded, ServerThread, ServerListens, ServerThreadFinishes,
       ServerThreadEnds
  <2> QED
    BY <1>3, <2>1
<1>8. CASE Surroundings
  <2>1. ~Crash /\ ~Reboot
    BY DEF Crash, Reboot, ProcessEnds
  <2>2. queue' = queue
    BY <1>8, <2>1 DEF Surroundings, OriginalUpdated, OriginalRemoved, PackageMakesDirectory,
       PackageWritesDiff, PackageErased, watches
  <2> QED
    BY <1>3, <2>2
<1>9. ~Start
  BY DEF Start
<1>10. CASE UNCHANGED vars
  BY <1>3, <1>10 DEF vars
<1> QED
  BY <1>5, <1>6, <1>7, <1>8, <1>9, <1>10 DEF Next, MainThread

\* A request to start the server stays in the queue until the server runs or the
\* process ends: neither failures nor the end of the thread before take it back.
THEOREM RequestIsKept == Spec => [][Asked /\ up /\ up' => Asked' \/ Loaded']_vars
<1>1. TypeInv /\ [Next]_vars => [Asked /\ up /\ up' => Asked' \/ Loaded']_vars
  BY AskedStep
<1> QED
  BY <1>1, TypeInvariant, PTL DEF Spec

=============================================================================
