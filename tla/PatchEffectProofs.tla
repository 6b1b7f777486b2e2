--------------------------- MODULE PatchEffectProofs ---------------------------
(***************************************************************************)
(* What is enabled is what is served: theorems about the cache, for any    *)
(* number of patches and files.  No patch is installed or removed          *)
(* meanwhile (PatchesStay).  But for the working set, no enabled list is   *)
(* restored (NothingRestored), and no patch builds on another one          *)
(* (IndependentDiffs).                                                     *)
(***************************************************************************)
EXTENDS PatchDaemonProofs

---------------------------------------------------------------------------
(* Nothing changes the patch directories. *)

\* Requests that leave the patch directories alone.
Lasting == {r \in Requests : r.op # "uninstall"}

\* No uninstallation waits in the queue.
NothingToUninstall == queue \in Seq(Lasting)

\* Every request but an uninstallation leaves the directories alone.
LEMMA LastingRequests ==
  /\ \A p \in Patches, apply \in BOOLEAN : DoPatch(p, apply) \in Lasting
  /\ \A p \in Patches : Uninstall(p) \notin Lasting
  /\ {Refresh, ApplyAll, StartServer, RegisterDBus, CloseServer} \subseteq Lasting
  BY RequestType DEF Lasting, DoPatch, Uninstall, Refresh, ApplyAll, StartServer, RegisterDBus,
     CloseServer

\* A queue of some kind of requests remains one under what the daemon does with it.
LEMMA QueueOf ==
  ASSUME NEW S, NEW q \in Seq(S), NEW r \in S, NEW t \in S
  PROVE  /\ Append(q, r) \in Seq(S)
         /\ q \o <<r, t>> \in Seq(S)
         /\ q # <<>> => Head(q) \in S /\ Tail(q) \in Seq(S)
  OBVIOUS

\* Without clients that ask for it nothing is uninstalled.
LEMMA NothingToUninstallStep ==
  ASSUME PatchesStay, NothingToUninstall, [Next]_vars
  PROVE  NothingToUninstall'
<1> USE DEF NothingToUninstall
<1>1. CASE Method
  <2>1. \/ queue' = queue
        \/ \E r \in Lasting : queue' = Append(queue, r)
        \/ \E r, s \in Lasting : queue' = queue \o <<r, s>>
    BY <1>1, LastingRequests DEF PatchesStay, Method, ApplyPatch, UnapplyPatch, UninstallPatch,
       UnapplyAllPatches, RestorePatchList, ResolveFailure, LoadRequestApply, LoadRequestUnapply,
       PutOrder, PutApplyOnBoot, Call
  <2> QED
    BY <2>1, QueueOf
<1>2. CASE Queued
  <2>1. queue # <<>> /\ (queue' = Tail(queue) \/ queue' = Append(Tail(queue), CloseServer))
    BY <1>2 DEF Queued, DoRefreshPatchList, DoPatchHandler, DoApplyAllPatches, DoStartLocalServer,
       DoUninstallPatch, DoRegisterDBus, ServerFinished, Handles
  <2> QED
    BY <2>1, QueueOf, LastingRequests
<1>3. CASE Running \/ Signal
  <2>1. queue' = queue \/ queue' = Append(queue, Refresh)
    BY <1>3 DEF Running, Prepare, PmApply, PmUnapply, Clean, ScriptExits, EndDoPatch,
       ApplyAllResult, OriginalChangedResult, NextToApply, NextToUnapply, EndApplyAll,
       EndOriginalChanged, Signal, OnOriginalFileChanged, OnContentChanged, OnFailureOccured,
       OnLipstickFailed, OnArchiveDownloaded
  <2> QED
    BY <2>1, QueueOf, LastingRequests
<1>4. CASE ServerThread
  <2>1. queue' = queue \/ queue' = Append(queue, CloseServer)
    BY <1>4 DEF ServerThread, ServerListens, ServerThreadFinishes, ServerThreadEnds
  <2> QED
    BY <2>1, QueueOf, LastingRequests
<1>5. CASE Surroundings
  <2>1. queue' = queue \/ queue' = <<>>
    BY <1>5 DEF Surroundings, OriginalUpdated, OriginalRemoved, PackageMakesDirectory,
       PackageWritesDiff, PackageErased, Crash, Reboot, ProcessEnds, watches
  <2>2. <<>> \in Seq(Lasting)
    OBVIOUS
  <2> QED
    BY <2>1, <2>2
<1>6. CASE Start
  <2>1. {<<Refresh, ApplyAll, StartServer>>, <<Refresh>>, <<RegisterDBus>>} \subseteq Seq(Lasting)
    BY LastingRequests
  <2> QED
    BY <1>6, <2>1 DEF Start
<1>7. CASE UNCHANGED vars
  BY <1>7 DEF vars
<1> QED
  BY <1>1, <1>2, <1>3, <1>4, <1>5, <1>6, <1>7 DEF Next, MainThread

\* A step leaves the patch directories as they are.
LEMMA DirectoriesStay ==
  ASSUME PatchesStay, NothingToUninstall, [Next]_vars
  PROVE  disk' = disk
<1>1. ASSUME NEW p \in Patches PROVE ~DoUninstallPatch(p)
  BY LastingRequests, QueueOf DEF DoUninstallPatch, Handles, NothingToUninstall
<1>2. CASE Method \/ Running \/ ServerThread \/ Start
  BY <1>2 DEF Method, ApplyPatch, UnapplyPatch, UninstallPatch, UnapplyAllPatches,
     RestorePatchList, ResolveFailure, LoadRequestApply, LoadRequestUnapply, PutOrder,
     PutApplyOnBoot, Running, Prepare, PmApply, PmUnapply, Clean, ScriptExits, EndDoPatch,
     ApplyAllResult, OriginalChangedResult, NextToApply, NextToUnapply, EndApplyAll,
     EndOriginalChanged, ServerThread, ServerListens, ServerThreadFinishes, ServerThreadEnds,
     Start, device
<1>3. CASE Queued
  BY <1>1, <1>3 DEF Queued, DoRefreshPatchList, DoPatchHandler, DoApplyAllPatches,
     DoStartLocalServer, DoRegisterDBus, ServerFinished, device
<1>4. CASE Signal
  BY <1>4 DEF PatchesStay, Signal, OnOriginalFileChanged, OnContentChanged, OnFailureOccured,
     OnLipstickFailed, OnArchiveDownloaded, device
<1>5. CASE Surroundings
  BY <1>5 DEF PatchesStay, Surroundings, OriginalUpdated, OriginalRemoved, PackageMakesDirectory,
     PackageWritesDiff, PackageErased, Crash, Reboot, device
<1>6. CASE UNCHANGED vars
  BY <1>6 DEF vars
<1> QED
  BY <1>2, <1>3, <1>4, <1>5, <1>6 DEF Next, MainThread

---------------------------------------------------------------------------
(* What doPrepareCache and the scripts do to the diffs that are in a cache. *)

\* The changes of diff d are in the cached copy of file f.
Has(c, f, d) == c[f] # None /\ d \in c[f].diffs

\* A copy of an original has no changes, and copies do not replace what is there.
LEMMA FilledCacheHas ==
  ASSUME NEW fs, NEW o \in [Files -> 0 .. MaxVersion], NEW c \in Cache, NEW f \in Files, NEW e
  PROVE  /\ Has(FilledCache(fs, o, c), f, e) <=> Has(c, f, e)
         /\ c[f] # None => FilledCache(fs, o, c)[f] # None
         /\ f \in fs /\ o[f] # 0 => FilledCache(fs, o, c)[f] # None
<1>1. CopyOf(o[f]) \in Copy /\ CopyOf(o[f]).diffs = {}
  BY DEF CopyOf, Copy
<1>2. CopyOf(o[f]) # None
  BY <1>1, NoneIsNoCopy
<1> QED
  BY <1>1, <1>2 DEF FilledCache, Has

\* pm_apply adds its diff to every file it touches and takes no other one out.
LEMMA InstallTextPatchHas ==
  ASSUME NEW d \in Diffs, NEW c \in Cache, VerifyTextPatch(d, c), NEW f \in Files, NEW e
  PROVE  Has(InstallTextPatch(d, c), f, e) <=> Has(c, f, e) \/ (e = d /\ f \in Touches(d))
<1> DEFINE new == InstallTextPatch(d, c)
<1>1. new \in Cache
  BY InstallTextPatchType
<1>2. CASE f \in Creates[d]
  <2>1. c[f] = None /\ new[f] = [base |-> 0, diffs |-> {d}]
    BY <1>2 DEF VerifyTextPatch, InstallTextPatch
  <2>2. new[f] \in Copy
    BY <2>1, StoreAssumption DEF Copy
  <2> QED
    BY <1>2, <2>1, <2>2, NoneIsNoCopy DEF Has, Touches
<1>3. CASE f \notin Creates[d] /\ f \in Edits[d]
  <2>1. c[f] \in Copy /\ c[f] # None
    BY <1>3, NoneIsNoCopy DEF VerifyTextPatch, Cache
  <2>2. new[f] = [c[f] EXCEPT !.diffs = @ \union {d}]
    BY <1>3 DEF InstallTextPatch
  <2>3. new[f] \in Copy /\ new[f].diffs = c[f].diffs \union {d}
    BY <2>1, <2>2 DEF Copy
  <2> QED
    BY <1>3, <2>1, <2>3, NoneIsNoCopy DEF Has, Touches
<1>4. CASE f \notin Creates[d] /\ f \notin Edits[d]
  BY <1>4 DEF InstallTextPatch, Has, Touches
<1> QED
  BY <1>2, <1>3, <1>4

\* pm_unapply takes out no diff but its own, and that one wherever it can be reversed.
LEMMA RemoveTextPatchHas ==
  ASSUME NEW d \in Diffs, NEW c \in Cache, NEW f \in Files, NEW e
  PROVE  /\ Has(RemoveTextPatch(d, c), f, e) => Has(c, f, e)
         /\ Has(c, f, e) /\ e # d => Has(RemoveTextPatch(d, c), f, e)
         /\ f \in Touches(d) /\ CanReverse(d, f, c[f]) => ~Has(RemoveTextPatch(d, c), f, d)
<1> DEFINE new == RemoveTextPatch(d, c)
<1>1. CASE f \notin Touches(d) \/ c[f] = None \/ ~CanReverse(d, f, c[f])
  BY <1>1 DEF RemoveTextPatch, Has
<1>2. CASE f \in Touches(d) /\ c[f] # None /\ CanReverse(d, f, c[f]) /\ f \in Creates[d]
  BY <1>2 DEF RemoveTextPatch, Has, CanReverse
<1>3. CASE f \in Touches(d) /\ c[f] # None /\ CanReverse(d, f, c[f]) /\ f \notin Creates[d]
  <2>1. c[f] \in Copy
    BY <1>3 DEF Cache
  <2>2. new[f] = [c[f] EXCEPT !.diffs = @ \ {d}]
    BY <1>3 DEF RemoveTextPatch
  <2>3. new[f] \in Copy /\ new[f].diffs = c[f].diffs \ {d}
    BY <2>1, <2>2 DEF Copy
  <2> QED
    BY <1>3, <2>3, NoneIsNoCopy DEF Has
<1> QED
  BY <1>1, <1>2, <1>3

\* Cleaning up removes a file with all that is in it, or leaves it as it is.
LEMMA ClearedCacheHas ==
  ASSUME NEW fs, NEW shared, NEW c, NEW f \in Files, NEW e
  PROVE  Has(ClearedCache(fs, shared, c), f, e) <=> Has(c, f, e) /\ ~(f \in fs \ shared)
  BY DEF ClearedCache, Has

\* An empty cache has no changes.
LEMMA EmptyCacheHas == ASSUME NEW f \in Files, NEW e PROVE ~Has(EmptyCache, f, e)
  BY DEF EmptyCache, Has

---------------------------------------------------------------------------
(***************************************************************************)
(* What is in the cache comes from the patches on the disk, and what a new *)
(* file holds comes from the patch that brings it.                         *)
(***************************************************************************)

\* The directory of a patch holds a diff of that patch.
OwnDiffs == \A p \in Patches : disk[p] \in Diffs => PatchOf[disk[p]] = p

\* The copy pm_apply keeps is the diff of the directory.
OwnBackups == \A p \in Patches : backup[p] = None \/ backup[p] = disk[p]

\* A diff in the cache is one of the disk; what it creates has no original.
OwnChanges ==
  \A f \in Files, d \in Diffs : Has(cache, f, d) =>
      f \in Touches(d) /\ disk[PatchOf[d]] = d /\ (f \in Creates[d] => orig[f] = 0)

StoreInv == OwnDiffs /\ OwnBackups /\ OwnChanges

\* What a refresh reads from the patch directories.
Installed == [p \in Patches |-> IF disk[p] \in Diffs THEN disk[p] ELSE None]

\* After the first refresh the daemon knows the patches that are installed.
KnownInv == up => AwaitsRefresh \/ known = Installed

\* When pm_apply is about to start, a file of the patch that is not cached is one
\* for which doPrepareCache placed a link; otherwise it would be cached.
Prepared ==
  job.phase = "script" /\ job.apply =>
    \A f \in KnownFiles(job.patch) \intersect Creates[disk[job.patch]] :
        \/ link[f] /\ orig[f] = 0
        \/ cache[f] # None /\ ~Has(cache, f, disk[job.patch])

\* Everything is deactivated at once: clearFakeroot(), or the end of /tmp.
Emptied == cache' = EmptyCache /\ backup' = [p \in Patches |-> None] /\ link' = link /\ orig' = orig

\* Cache and links stay, and no original appears.
Untouched == UNCHANGED <<link, cache, backup>> /\ \A f \in Files : orig[f] = 0 => orig'[f] = 0

Scripts == Prepare \/ PmApply \/ PmUnapply \/ Clean

\* A step runs doPrepareCache or a script, empties the cache, or leaves it alone.
LEMMA StepsOfTheCache ==
  ASSUME TypeInv, [Next]_vars
  PROVE  Scripts \/ Emptied \/ Untouched
<1>1. CASE Method
  BY <1>1 DEF Emptied, Untouched, Method, ApplyPatch, UnapplyPatch, UninstallPatch,
     UnapplyAllPatches, RestorePatchList, ResolveFailure, LoadRequestApply, LoadRequestUnapply,
     PutOrder, PutApplyOnBoot, UnapplyAll, device, tmpfs
<1>2. CASE Queued
  BY <1>2 DEF Emptied, Untouched, Queued, DoRefreshPatchList, DoPatchHandler, DoApplyAllPatches,
     DoStartLocalServer, DoUninstallPatch, DoRegisterDBus, ServerFinished, device, tmpfs
<1>3. CASE Running
  BY <1>3 DEF Scripts, Emptied, Untouched, Running, EndDoPatch, ApplyAllResult,
     OriginalChangedResult, NextToApply, NextToUnapply, EndApplyAll, EndOriginalChanged,
     device, tmpfs
<1>4. CASE Signal
  BY <1>4 DEF Emptied, Untouched, Signal, OnOriginalFileChanged, OnContentChanged,
     OnFailureOccured, OnLipstickFailed, OnArchiveDownloaded, UnapplyAll, device, tmpfs
<1>5. CASE ServerThread \/ Start \/ Crash \/ Reboot
  BY <1>5 DEF Emptied, Untouched, ServerThread, ServerListens, ServerThreadFinishes,
     ServerThreadEnds, Start, Crash, Reboot, device, tmpfs
<1>6. CASE Surroundings /\ ~Crash /\ ~Reboot
  <2>1. UNCHANGED <<link, cache, backup>>
    BY <1>6 DEF Surroundings, OriginalUpdated, OriginalRemoved, PackageMakesDirectory,
       PackageWritesDiff, PackageErased, tmpfs
  <2>2. ASSUME NEW g \in Files, OriginalUpdated(g) \/ OriginalRemoved(g),
               NEW f \in Files, orig[f] = 0
        PROVE  orig'[f] = 0
    BY <2>2 DEF OriginalUpdated, OriginalRemoved, TypeInv, TypeOK
  <2>3. ASSUME NEW p \in Patches,
               PackageMakesDirectory(p) \/ PackageWritesDiff(p) \/ PackageErased(p)
        PROVE  orig' = orig
    BY <2>3 DEF PackageMakesDirectory, PackageWritesDiff, PackageErased
  <2> QED
    BY <1>6, <2>1, <2>2, <2>3 DEF Untouched, Surroundings
<1>7. CASE UNCHANGED vars
  BY <1>7 DEF Untouched, vars
<1> QED
  BY <1>1, <1>2, <1>3, <1>4, <1>5, <1>6, <1>7 DEF Next, MainThread

\* A refresh in front of the queue is handled by doRefreshPatchList.
LEMMA OtherRequests ==
  ASSUME Queued, ~DoRefreshPatchList
  PROVE  Head(queue) # Refresh
  BY DEF Queued, DoPatchHandler, DoApplyAllPatches, DoStartLocalServer,
     DoUninstallPatch, DoRegisterDBus, ServerFinished, Handles, DoPatch, Uninstall, Refresh,
     ApplyAll, StartServer, RegisterDBus, CloseServer

\* A new process reads the directories before it does anything else.
LEMMA RefreshComesFirst ==
  ASSUME TypeInv, up, AwaitsRefresh, [Next]_vars
  PROVE  AwaitsRefresh' \/ ~up' \/ DoRefreshPatchList
<1>1. queue \in Seq(Requests) /\ queue # <<>> /\ Head(queue) = Refresh /\ Refresh \in Requests
  BY RequestType DEF TypeInv, TypeOK, AwaitsRefresh
<1>2. ~Method /\ ~ServerThread /\ ~Running /\ ~Start
  BY NoJobKind DEF AwaitsRefresh, Method, ApplyPatch, UnapplyPatch, UninstallPatch,
     UnapplyAllPatches, RestorePatchList, ResolveFailure, LoadRequestApply, LoadRequestUnapply,
     PutOrder, PutApplyOnBoot, Call, ServerThread, ServerListens, ServerThreadFinishes,
     ServerThreadEnds, Running, Prepare, PmApply, PmUnapply, Clean, EndDoPatch, ApplyAllResult,
     OriginalChangedResult, NextToApply, NextToUnapply, EndApplyAll, EndOriginalChanged, At, Start
<1>3. CASE Queued
  BY <1>1, <1>3, OtherRequests
<1>4. CASE Signal
  <2>1. queue' = queue \/ queue' = Append(queue, Refresh)
    BY <1>4 DEF Signal, OnOriginalFileChanged, OnContentChanged, OnFailureOccured,
       OnLipstickFailed, OnArchiveDownloaded
  <2>2. registered' = registered /\ thread' = thread /\ job' = job
    BY <1>4 DEF Signal, OnOriginalFileChanged, OnContentChanged, OnFailureOccured,
       OnLipstickFailed, OnArchiveDownloaded, server, AwaitsRefresh, Loaded
  <2>3. queue' # <<>> /\ Head(queue') = Refresh
    BY <1>1, <2>1
  <2> QED
    BY <2>2, <2>3 DEF AwaitsRefresh
<1>5. CASE Surroundings
  BY <1>5 DEF Surroundings, OriginalUpdated, OriginalRemoved, PackageMakesDirectory,
     PackageWritesDiff, PackageErased, Crash, Reboot, ProcessEnds, server, AwaitsRefresh
<1>6. CASE UNCHANGED vars
  BY <1>6 DEF vars, AwaitsRefresh
<1> QED
  BY <1>2, <1>3, <1>4, <1>5, <1>6 DEF Next, MainThread

\* Only systemd starts the process; what it knows changes by a refresh or with its end.
LEMMA LifeOfProcess ==
  ASSUME [Next]_vars
  PROVE  /\ up' => up \/ Start
         /\ known' = known \/ ~up' \/ DoRefreshPatchList
<1>1. ASSUME Method \/ Running \/ Signal \/ ServerThread PROVE up' = up /\ known' = known
  BY <1>1 DEF Method, ApplyPatch, UnapplyPatch, UninstallPatch, UnapplyAllPatches,
     RestorePatchList, ResolveFailure, LoadRequestApply, LoadRequestUnapply, PutOrder,
     PutApplyOnBoot, Running, Prepare, PmApply, PmUnapply, Clean, ScriptExits, EndDoPatch,
     ApplyAllResult, OriginalChangedResult, NextToApply, NextToUnapply, EndApplyAll,
     EndOriginalChanged, Signal, OnOriginalFileChanged, OnContentChanged, OnFailureOccured,
     OnLipstickFailed, OnArchiveDownloaded, ServerThread, ServerListens, ServerThreadFinishes,
     ServerThreadEnds
<1>2. ASSUME Queued PROVE up' = up /\ (known' = known \/ DoRefreshPatchList)
  BY <1>2 DEF Queued, DoRefreshPatchList, DoPatchHandler, DoApplyAllPatches,
     DoStartLocalServer, DoUninstallPatch, DoRegisterDBus, ServerFinished
<1>3. ASSUME Surroundings PROVE (up' = up /\ known' = known) \/ up' = FALSE
  BY <1>3 DEF Surroundings, OriginalUpdated, OriginalRemoved, PackageMakesDirectory,
     PackageWritesDiff, PackageErased, Crash, Reboot, ProcessEnds
<1>4. ASSUME Start PROVE known' = known
  BY <1>4 DEF Start
<1>5. ASSUME UNCHANGED vars PROVE up' = up /\ known' = known
  BY <1>5 DEF vars
<1>6. \/ up' = up /\ (known' = known \/ DoRefreshPatchList)
      \/ up' = FALSE
      \/ Start /\ known' = known
  BY <1>1, <1>2, <1>3, <1>4, <1>5 DEF Next, MainThread
<1>7. ASSUME up' = up PROVE up' => up
  BY <1>7, Zenon
<1>8. ASSUME up' = FALSE PROVE ~up'
  BY <1>8, Zenon
<1> QED
  BY <1>6, <1>7, <1>8

\* The daemon goes on knowing the patches that are installed.
LEMMA KnownStep ==
  ASSUME PatchesStay, NothingToUninstall, TypeInv, SettingsInv, KnownInv, [Next]_vars
  PROVE  KnownInv'
<1>1. Installed' = Installed
  BY DirectoriesStay DEF Installed
<1>2. CASE Start
  <2>1. ~registered /\ job = NoJob /\ thread = "stopped"
    BY <1>2 DEF Start, SettingsInv, Down
  <2>2. UNCHANGED <<registered, job, thread>>
    BY <1>2 DEF Start, server
  <2>3. queue' # <<>> /\ Head(queue') = Refresh
    BY <1>2 DEF Start
  <2> QED
    BY <2>1, <2>2, <2>3 DEF KnownInv, AwaitsRefresh
<1>3. CASE DoRefreshPatchList
  BY <1>1, <1>3 DEF DoRefreshPatchList, KnownInv, Installed
<1>4. CASE up /\ AwaitsRefresh /\ ~DoRefreshPatchList
  BY <1>4, RefreshComesFirst DEF KnownInv
<1>5. CASE up /\ known = Installed /\ ~DoRefreshPatchList
  BY <1>1, <1>5, LifeOfProcess DEF KnownInv
<1> QED
  BY <1>2, <1>3, <1>4, <1>5, LifeOfProcess DEF KnownInv

\* A handler in progress knows the patches that are installed.
LEMMA HandlerKnows ==
  ASSUME KnownInv, up, job.kind # "none"
  PROVE  known = Installed
  BY NoJobKind DEF KnownInv, AwaitsRefresh

\* It knows the files of each of them.
LEMMA KnownFilesOf ==
  ASSUME TypeInv, known = Installed, NEW p \in Patches
  PROVE  /\ disk[p] \in Diffs => KnownFiles(p) = Touches(disk[p])
         /\ disk[p] \notin Diffs => KnownFiles(p) = {}
  BY StoreAssumption DEF KnownFiles, Installed

\* From doPrepareCache on, until doPatch() returns, nothing else changes the cache.
LEMMA ScriptUndisturbed ==
  ASSUME TypeInv, [Next]_vars, ~Scripts,
         job'.phase \in {"clean", "return"} \/ (job'.phase = "script" /\ job'.apply)
  PROVE  UNCHANGED <<job, known, cache, link>> /\ \A f \in Files : orig[f] = 0 => orig'[f] = 0
<1>1. NoJob.phase = "next" /\ job \in Jobs
  BY DEF NoJob, Job, TypeInv, TypeOK
<1>2. ~Method /\ ~Signal
  <2>1. ASSUME Method \/ Signal
        PROVE  job = NoJob /\ (job' = job \/ \E P \in SUBSET Patches : job' = Job("changed", P, P))
    BY <2>1 DEF Method, ApplyPatch, UnapplyPatch, UninstallPatch, UnapplyAllPatches,
       RestorePatchList, ResolveFailure, LoadRequestApply, LoadRequestUnapply, PutOrder,
       PutApplyOnBoot, Call, Idle, Signal, OnOriginalFileChanged, OnContentChanged,
       OnFailureOccured, OnLipstickFailed, OnArchiveDownloaded, TypeInv, TypeOK
  <2> QED
    BY <1>1, <2>1 DEF Job
<1>3. ~Queued
  <2>1. ASSUME NEW p \in Patches, NEW apply \in BOOLEAN, DoPatchHandler(p, apply)
        PROVE  job'.phase = "prepare" \/ (job'.phase = "script" /\ ~job'.apply)
    BY <2>1 DEF DoPatchHandler, Begin, Job
  <2>2. ASSUME Queued, \A p \in Patches, apply \in BOOLEAN : ~DoPatchHandler(p, apply)
        PROVE  job = NoJob /\ (job' = job \/ job' = Job("applyAll", {}, applied))
    BY <2>2 DEF Queued, DoRefreshPatchList, DoApplyAllPatches, DoStartLocalServer,
       DoUninstallPatch, DoRegisterDBus, ServerFinished, Handles, Idle
  <2> QED
    BY <1>1, <2>1, <2>2 DEF Job
<1>4. ~(EndDoPatch \/ ApplyAllResult \/ OriginalChangedResult \/ EndApplyAll \/ EndOriginalChanged)
  <2>1. ~(EndDoPatch \/ EndApplyAll \/ EndOriginalChanged)
    BY <1>1 DEF EndDoPatch, EndApplyAll, EndOriginalChanged, Job
  <2>2. ~(ApplyAllResult \/ OriginalChangedResult)
    BY <1>1 DEF ApplyAllResult, OriginalChangedResult, Jobs
  <2> QED
    BY <2>1, <2>2
<1>5. ~NextToApply
  <2>1. ASSUME NEW p, job' = Begin([job EXCEPT !.redo = @ \ {p}], p, TRUE)
        PROVE  job'.phase = "prepare"
    BY <1>1, <2>1 DEF Begin, Jobs
  <2> QED
    BY <2>1, Zenon DEF NextToApply
<1>6. ~NextToUnapply
  <2>1. ASSUME NEW p, job' = Begin([job EXCEPT !.undo = @ \ {p}], p, FALSE)
        PROVE  job'.phase = "script" /\ ~job'.apply
    BY <1>1, <2>1 DEF Begin, Jobs
  <2> QED
    BY <2>1, Zenon DEF NextToUnapply
<1>7. CASE ServerThread \/ Start
  BY <1>7 DEF ServerThread, ServerListens, ServerThreadFinishes, ServerThreadEnds, Start, device, tmpfs
<1>8. CASE Surroundings
  <2>1. ~Crash /\ ~Reboot
    BY <1>1 DEF Crash, Reboot, ProcessEnds
  <2>2. UNCHANGED <<job, known, cache, link>>
    BY <1>8, <2>1 DEF Surroundings, OriginalUpdated, OriginalRemoved, PackageMakesDirectory,
       PackageWritesDiff, PackageErased, tmpfs
  <2> QED
    BY <2>2, StepsOfTheCache DEF Untouched, Emptied
<1>9. CASE UNCHANGED vars
  BY <1>9 DEF vars
<1> QED
  BY <1>2, <1>3, <1>4, <1>5, <1>6, <1>7, <1>8, <1>9 DEF Next, MainThread, Running, Scripts

---------------------------------------------------------------------------
(* What the four steps of doPatch() do. *)

\* doPatch() stays the one it is.
SameDoPatch ==
  /\ job'.kind = job.kind /\ job'.undo = job.undo /\ job'.redo = job.redo
  /\ job'.patch = job.patch /\ job'.apply = job.apply /\ job'.ok = job.ok

\* The script that ran has changed nothing but the cache and the backups.
LEMMA ScriptExitsFacts ==
  ASSUME TypeInv, NEW ret \in BOOLEAN, ScriptExits(ret)
  PROVE  /\ SameDoPatch /\ job'.ret = ret
         /\ ret = job.apply => job'.phase = "return"
         /\ ret # job.apply => job'.phase = "clean"
         /\ UNCHANGED <<orig, link, disk, saved, up, applied, known, failed, queue, thread>>
<1>1. job \in Jobs
  BY DEF TypeInv, TypeOK
<1> QED
  BY <1>1 DEF ScriptExits, SameDoPatch, Jobs, settings, server

\* doPrepareCache goes from "prepare" to "script".
LEMMA PrepareFacts ==
  ASSUME TypeInv, Prepare
  PROVE  /\ up /\ job.kind # "none" /\ job.phase = "prepare" /\ job'.phase = "script"
         /\ SameDoPatch /\ job'.ret = job.ret /\ job.patch \in Patches
         /\ cache' = FilledCache(KnownFiles(job.patch), orig, cache)
         /\ link' = PlacedLinks(KnownFiles(job.patch), orig, link)
         /\ UNCHANGED <<orig, disk, saved, backup, up, applied, known, failed, queue, thread>>
<1>1. job \in Jobs
  BY DEF TypeInv, TypeOK
<1> QED
  BY <1>1 DEF Prepare, At, SameDoPatch, Jobs, settings, server, TypeInv, JobPatchKnown

\* The second doPrepareCache goes from "clean" to "return".
LEMMA CleanFacts ==
  ASSUME TypeInv, Clean
  PROVE  /\ up /\ job.kind # "none" /\ job.phase = "clean" /\ job'.phase = "return"
         /\ SameDoPatch /\ job'.ret = job.ret /\ job.patch \in Patches
         /\ cache' = ClearedCache(KnownFiles(job.patch), SharedWith(job.patch), cache)
         /\ link' = ClearedLinks(KnownFiles(job.patch), link)
         /\ UNCHANGED <<orig, disk, saved, backup, up, applied, known, failed, queue, thread>>
<1>1. job \in Jobs
  BY DEF TypeInv, TypeOK
<1> QED
  BY <1>1 DEF Clean, At, SameDoPatch, Jobs, settings, server, TypeInv, JobPatchKnown

\* pm_apply finds the patch applied, applies it, or fails and changes nothing.
LEMMA PmApplyFacts ==
  ASSUME TypeInv, PmApply
  PROVE  LET p == job.patch
             d == disk[p]
         IN  /\ up /\ job.kind # "none" /\ job.phase = "script" /\ job.apply /\ p \in Patches
             /\ SameDoPatch
             /\ UNCHANGED <<orig, link, disk, saved, up, applied, known, failed, queue, thread>>
             /\ \/ /\ d \in Diffs /\ TestIfApplied(d, cache)
                   /\ cache' = cache /\ backup' = backup
                   /\ job'.ret /\ job'.phase = "return"
                \/ /\ d \in Diffs /\ ~TestIfApplied(d, cache) /\ VerifyTextPatch(d, cache)
                   /\ cache' = InstallTextPatch(d, cache) /\ backup' = [backup EXCEPT ![p] = d]
                   /\ job'.ret /\ job'.phase = "return"
                \/ /\ d \in Diffs => ~TestIfApplied(d, cache) /\ ~VerifyTextPatch(d, cache)
                   /\ cache' = cache /\ backup' = backup
                   /\ ~job'.ret /\ job'.phase = "clean"
<1> DEFINE p == job.patch
           d == disk[p]
           done == d \in Diffs /\ TestIfApplied(d, cache)
           works == d \in Diffs /\ ~done /\ VerifyTextPatch(d, cache)
<1>1. up /\ job.kind # "none" /\ job.phase = "script" /\ job.apply /\ p \in Patches
  BY DEF PmApply, At, TypeInv, JobPatchKnown
<1>2. ScriptExits(done \/ works) /\ (done \/ works) \in BOOLEAN
  BY DEF PmApply
<1>3. job.apply = TRUE
  BY <1>1 DEF TypeInv, TypeOK, Jobs
<1>4. /\ works => cache' = InstallTextPatch(d, cache) /\ backup' = [backup EXCEPT ![p] = d]
      /\ ~works => cache' = cache /\ backup' = backup
  BY DEF PmApply
<1>5. CASE done \/ works
  <2>1. (done \/ works) = TRUE
    BY <1>5
  <2>2. ScriptExits(TRUE)
    BY <1>2, <2>1
  <2>3. job'.ret /\ job'.phase = "return"
    BY <1>3, <2>2, ScriptExitsFacts
  <2> QED
    BY <1>1, <1>4, <1>5, <2>2, <2>3, ScriptExitsFacts
<1>6. CASE ~(done \/ works)
  <2>1. (done \/ works) = FALSE
    BY <1>6
  <2>2. ScriptExits(FALSE)
    BY <1>2, <2>1
  <2>3. ~job'.ret /\ job'.phase = "clean"
    BY <1>3, <2>2, ScriptExitsFacts
  <2> QED
    BY <1>1, <1>4, <1>6, <2>2, <2>3, ScriptExitsFacts
<1> QED
  BY <1>5, <1>6

\* pm_unapply takes the patch out, or finds none and changes nothing.
LEMMA PmUnapplyFacts ==
  ASSUME TypeInv, PmUnapply
  PROVE  LET p == job.patch
             d == IF backup[p] # None THEN backup[p] ELSE disk[p]
         IN  /\ up /\ job.kind # "none" /\ job.phase = "script" /\ ~job.apply /\ p \in Patches
             /\ SameDoPatch
             /\ UNCHANGED <<orig, link, disk, saved, up, applied, known, failed, queue, thread>>
             /\ \/ /\ disk[p] # None /\ d \in Diffs
                   /\ cache' = RemoveTextPatch(d, cache) /\ backup' = [backup EXCEPT ![p] = None]
                   /\ job'.ret /\ job'.phase = "clean"
                \/ /\ disk[p] = None \/ d \notin Diffs
                   /\ cache' = cache /\ backup' = backup
                   /\ ~job'.ret /\ job'.phase = "return"
<1> DEFINE p == job.patch
           d == IF backup[p] # None THEN backup[p] ELSE disk[p]
           works == disk[p] # None /\ d \in Diffs
<1>1. up /\ job.kind # "none" /\ job.phase = "script" /\ ~job.apply /\ p \in Patches
  BY DEF PmUnapply, At, TypeInv, JobPatchKnown
<1>2. ScriptExits(works) /\ works \in BOOLEAN
  BY DEF PmUnapply
<1>3. job.apply = FALSE
  BY <1>1 DEF TypeInv, TypeOK, Jobs
<1>4. /\ works => cache' = RemoveTextPatch(d, cache) /\ backup' = [backup EXCEPT ![p] = None]
      /\ ~works => cache' = cache /\ backup' = backup
  BY DEF PmUnapply
<1>5. CASE works
  <2>1. works = TRUE
    BY <1>5
  <2>2. ScriptExits(TRUE)
    BY <1>2, <2>1
  <2>3. job'.ret /\ job'.phase = "clean"
    BY <1>3, <2>2, ScriptExitsFacts
  <2> QED
    BY <1>1, <1>4, <1>5, <2>2, <2>3, ScriptExitsFacts
<1>6. CASE ~works
  <2>1. works = FALSE
    BY <1>6
  <2>2. ScriptExits(FALSE)
    BY <1>2, <2>1
  <2>3. ~job'.ret /\ job'.phase = "return"
    BY <1>3, <2>2, ScriptExitsFacts
  <2> QED
    BY <1>1, <1>4, <1>6, <2>2, <2>3, ScriptExitsFacts
<1> QED
  BY <1>5, <1>6

---------------------------------------------------------------------------
(* The cache keeps to the patches on the disk. *)

\* What pm_unapply takes out is the diff of its patch.
LEMMA UnappliedDiff ==
  ASSUME OwnDiffs, OwnBackups, NEW p \in Patches,
         (IF backup[p] # None THEN backup[p] ELSE disk[p]) \in Diffs
  PROVE  /\ (IF backup[p] # None THEN backup[p] ELSE disk[p]) = disk[p]
         /\ PatchOf[disk[p]] = p
  BY DEF OwnDiffs, OwnBackups

\* The files pm_apply creates have no original: there is a link in their place.
LEMMA CreatedHasNoOriginal ==
  ASSUME TypeInv, KnownInv, Prepared, up, job.kind # "none", job.phase = "script", job.apply,
         disk[job.patch] \in Diffs, VerifyTextPatch(disk[job.patch], cache),
         NEW f \in Creates[disk[job.patch]]
  PROVE  orig[f] = 0 /\ link[f]
<1> DEFINE p == job.patch
<1>1. p \in Patches
  BY DEF TypeInv, JobPatchKnown
<1>2. KnownFiles(p) = Touches(disk[p])
  BY <1>1, HandlerKnows, KnownFilesOf
<1>3. f \in KnownFiles(p) \intersect Creates[disk[p]] /\ cache[f] = None
  BY <1>2 DEF Touches, VerifyTextPatch
<1> QED
  BY <1>3 DEF Prepared

\* Every step leaves in the cache what comes from the disk.
LEMMA StoreStep ==
  ASSUME PatchesStay, NothingToUninstall, TypeInv, KnownInv, Prepared, StoreInv, [Next]_vars
  PROVE  StoreInv'
<1> USE DEF StoreInv
<1>1. disk' = disk
  BY DirectoriesStay
<1>2. OwnDiffs'
  BY <1>1 DEF OwnDiffs
<1>3. /\ orig \in [Files -> 0 .. MaxVersion] /\ cache \in Cache
      /\ backup \in [Patches -> Diffs \union {None}]
  BY DEF TypeInv, TypeOK
<1>4. CASE UNCHANGED <<backup, orig>> /\ \A f \in Files, e \in Diffs : Has(cache', f, e) => Has(cache, f, e)
  BY <1>1, <1>2, <1>4 DEF OwnBackups, OwnChanges
<1>5. CASE Untouched
  BY <1>1, <1>2, <1>5 DEF Untouched, OwnBackups, OwnChanges
<1>6. CASE Emptied
  BY <1>1, <1>2, <1>6, EmptyCacheHas DEF Emptied, OwnBackups, OwnChanges
<1>7. CASE Prepare
  <2>1. \A f \in Files, e \in Diffs : Has(cache', f, e) => Has(cache, f, e)
    BY <1>3, <1>7, PrepareFacts, FilledCacheHas
  <2> QED
    BY <1>4, <1>7, <2>1, PrepareFacts
<1>8. CASE Clean
  <2>1. cache' = ClearedCache(KnownFiles(job.patch), SharedWith(job.patch), cache)
    BY <1>8, CleanFacts
  <2>2. \A f \in Files, e \in Diffs : Has(cache', f, e) => Has(cache, f, e)
    BY <2>1, ClearedCacheHas
  <2> QED
    BY <1>4, <1>8, <2>2, CleanFacts
<1>9. CASE PmApply
  <2> DEFINE p == job.patch
             d == disk[p]
  <2>1. p \in Patches /\ orig' = orig
    BY <1>9, PmApplyFacts
  <2>2. CASE UNCHANGED <<cache, backup>>
    BY <1>4, <2>1, <2>2
  <2>3. CASE /\ d \in Diffs /\ VerifyTextPatch(d, cache)
             /\ cache' = InstallTextPatch(d, cache) /\ backup' = [backup EXCEPT ![p] = d]
    <3>1. OwnBackups'
      BY <1>1, <1>3, <2>1, <2>3 DEF OwnBackups
    <3>2. ASSUME NEW f \in Creates[d] PROVE orig[f] = 0
      BY <1>9, <2>3, <3>2, PmApplyFacts, CreatedHasNoOriginal
    <3>3. d \in Diffs /\ PatchOf[d] = p
      BY <2>1, <2>3 DEF OwnDiffs
    <3>4. ASSUME NEW f \in Files, NEW e \in Diffs, Has(cache', f, e)
          PROVE  f \in Touches(e) /\ disk[PatchOf[e]] = e /\ (f \in Creates[e] => orig[f] = 0)
      <4>1. Has(cache, f, e) \/ (e = d /\ f \in Touches(d))
        BY <1>3, <2>3, <3>4, InstallTextPatchHas
      <4>2. CASE Has(cache, f, e)
        BY <4>2 DEF OwnChanges
      <4>3. CASE e = d /\ f \in Touches(d)
        BY <3>2, <3>3, <4>3
      <4> QED
        BY <4>1, <4>2, <4>3
    <3> QED
      BY <1>1, <1>2, <2>1, <3>1, <3>4 DEF OwnChanges
  <2> QED
    BY <1>9, <2>2, <2>3, PmApplyFacts
<1>10. CASE PmUnapply
  <2> DEFINE p == job.patch
             d == IF backup[p] # None THEN backup[p] ELSE disk[p]
  <2>1. p \in Patches /\ orig' = orig
    BY <1>10, PmUnapplyFacts
  <2>2. CASE UNCHANGED <<cache, backup>>
    BY <1>4, <2>1, <2>2
  <2>3. CASE /\ d \in Diffs
             /\ cache' = RemoveTextPatch(d, cache) /\ backup' = [backup EXCEPT ![p] = None]
    <3>1. OwnBackups'
      BY <1>1, <1>3, <2>1, <2>3 DEF OwnBackups
    <3>2. \A f \in Files, e \in Diffs : Has(cache', f, e) => Has(cache, f, e)
      BY <1>3, <2>3, RemoveTextPatchHas
    <3> QED
      BY <1>1, <1>2, <2>1, <3>1, <3>2 DEF OwnChanges
  <2> QED
    BY <1>10, <2>2, <2>3, PmUnapplyFacts
<1> QED
  BY <1>5, <1>6, <1>7, <1>8, <1>9, <1>10, StepsOfTheCache DEF Scripts

\* What was prepared for pm_apply is still there when it starts.
LEMMA PreparedStep ==
  ASSUME PatchesStay, NothingToUninstall, TypeInv, KnownInv, Prepared, StoreInv, [Next]_vars
  PROVE  Prepared'
<1>1. disk' = disk
  BY DirectoriesStay
<1>2. SUFFICES ASSUME job'.phase = "script", job'.apply,
                      NEW f \in KnownFiles(job.patch)' \intersect Creates[disk'[job'.patch]]
               PROVE  \/ link'[f] /\ orig'[f] = 0
                      \/ cache'[f] # None /\ ~Has(cache', f, disk'[job'.patch])
  BY DEF Prepared
<1>3. CASE ~Scripts
  <2>1. UNCHANGED <<job, known, cache, link>> /\ \A g \in Files : orig[g] = 0 => orig'[g] = 0
    BY <1>2, <1>3, ScriptUndisturbed
  <2>2. job.patch \in Patches /\ f \in KnownFiles(job.patch) \intersect Creates[disk[job.patch]]
    BY <1>1, <1>2, <2>1 DEF KnownFiles, TypeInv, JobPatchKnown
  <2>3. f \in Files
    BY <2>2, StoreAssumption DEF KnownFiles, Touches, TypeInv, TypeOK
  <2>4. (link[f] /\ orig[f] = 0) \/ (cache[f] # None /\ ~Has(cache, f, disk[job.patch]))
    BY <1>2, <2>1, <2>2 DEF Prepared
  <2> QED
    BY <1>1, <2>1, <2>3, <2>4
<1>4. CASE PmApply \/ PmUnapply \/ Clean
  BY <1>2, <1>4, PmApplyFacts, PmUnapplyFacts, CleanFacts
<1>5. CASE Prepare
  <2> DEFINE p == job.patch
  <2>1. /\ p \in Patches /\ job'.patch = p /\ known' = known /\ orig' = orig
        /\ cache' = FilledCache(KnownFiles(p), orig, cache)
        /\ link' = PlacedLinks(KnownFiles(p), orig, link)
    BY <1>5, PrepareFacts DEF SameDoPatch
  <2>2. f \in KnownFiles(p) \intersect Creates[disk[p]]
    BY <1>1, <1>2, <2>1 DEF KnownFiles
  <2>3. f \in Files /\ disk[p] \in Diffs /\ orig \in [Files -> 0 .. MaxVersion] /\ cache \in Cache
    <3>1. known = Installed
      BY <1>5, PrepareFacts, HandlerKnows
    <3> QED
      BY <2>1, <2>2, <3>1, KnownFilesOf, StoreAssumption DEF Touches, TypeInv, TypeOK
  <2>4. CASE orig[f] = 0
    BY <2>1, <2>2, <2>3, <2>4 DEF PlacedLinks
  <2>5. CASE orig[f] # 0
    <3>1. ~Has(cache, f, disk[p])
      BY <2>2, <2>3, <2>5 DEF StoreInv, OwnChanges
    <3> QED
      BY <1>1, <2>1, <2>2, <2>3, <2>5, <3>1, FilledCacheHas
  <2> QED
    BY <2>4, <2>5
<1> QED
  BY <1>3, <1>4, <1>5 DEF Scripts

---------------------------------------------------------------------------
(***************************************************************************)
(* A patch that is whole is in effect, and passes the reverse dry run of   *)
(* pm_apply: activating it once more does nothing.                         *)
(***************************************************************************)

\* All changes of the installed diff of p are in the cache, and its new files are
\* reachable.
Whole(p) ==
  /\ disk[p] \in Diffs
  /\ \A f \in Touches(disk[p]) : Has(cache, f, disk[p])
  /\ \A f \in Creates[disk[p]] : link[f]

\* A patch that is whole is in effect.
LEMMA WholeInEffect ==
  ASSUME OwnDiffs, NEW p \in Patches, Whole(p)
  PROVE  InEffect(p)
  BY DEF OwnDiffs, Whole, InEffect, Has

\* Activation takes nothing away from any patch.
LEMMA WholeUnharmed ==
  ASSUME PatchesStay, NothingToUninstall, TypeInv, StoreInv, [Next]_vars,
         NEW q \in Patches, Whole(q), Untouched \/ Prepare \/ PmApply
  PROVE  Whole(q)'
<1> DEFINE e == disk[q]
           p == job.patch
<1>1. disk' = disk /\ e \in Diffs
  BY DirectoriesStay DEF Whole
<1>2. Touches(e) \subseteq Files /\ Creates[e] \subseteq Touches(e)
  BY <1>1, StoreAssumption DEF Touches
<1>3. cache \in Cache /\ orig \in [Files -> 0 .. MaxVersion] /\ link \in [Files -> BOOLEAN]
  BY DEF TypeInv, TypeOK
<1>4. SUFFICES /\ \A f \in Touches(e) : Has(cache', f, e)
               /\ \A f \in Creates[e] : link'[f]
  BY <1>1 DEF Whole
<1>5. CASE Untouched
  BY <1>5 DEF Untouched, Whole
<1>6. CASE Prepare
  BY <1>2, <1>3, <1>6, PrepareFacts, FilledCacheHas DEF Whole, PlacedLinks
<1>7. CASE PmApply
  <2>1. link' = link /\ (cache' = cache \/
          (disk[p] \in Diffs /\ VerifyTextPatch(disk[p], cache)
                             /\ cache' = InstallTextPatch(disk[p], cache)))
    BY <1>7, PmApplyFacts
  <2> QED
    BY <1>2, <1>3, <2>1, InstallTextPatchHas DEF Whole
<1> QED
  BY <1>5, <1>6, <1>7

\* The scripts and doPrepareCache leave a patch whole, unless it is theirs.
LEMMA WholeKept ==
  ASSUME PatchesStay, IndependentDiffs, NothingToUninstall, TypeInv, KnownInv, StoreInv, [Next]_vars,
         NEW q \in Patches, Whole(q),
         Untouched \/ Prepare \/ PmApply \/ ((PmUnapply \/ Clean) /\ q # job.patch)
  PROVE  Whole(q)'
<1> DEFINE e == disk[q]
           p == job.patch
<1>1. disk' = disk /\ e \in Diffs
  BY DirectoriesStay DEF Whole
<1>2. Touches(e) \subseteq Files /\ Creates[e] \subseteq Touches(e) /\ PatchOf[e] = q
  BY <1>1, StoreAssumption DEF Touches, StoreInv, OwnDiffs
<1>3. cache \in Cache /\ orig \in [Files -> 0 .. MaxVersion] /\ link \in [Files -> BOOLEAN]
  BY DEF TypeInv, TypeOK
<1>4. SUFFICES /\ \A f \in Touches(e) : Has(cache', f, e)
               /\ \A f \in Creates[e] : link'[f]
  BY <1>1 DEF Whole
<1>5. CASE Untouched \/ Prepare \/ PmApply
  BY <1>1, <1>5, WholeUnharmed DEF Whole
<1>8. CASE PmUnapply /\ q # p
  <2> DEFINE d == IF backup[p] # None THEN backup[p] ELSE disk[p]
  <2>1. link' = link /\ p \in Patches
        /\ (cache' = cache \/ (d \in Diffs /\ cache' = RemoveTextPatch(d, cache)))
    BY <1>8, PmUnapplyFacts
  <2>2. CASE cache' = cache
    BY <2>1, <2>2 DEF Whole
  <2>3. CASE d \in Diffs /\ cache' = RemoveTextPatch(d, cache)
    <3>1. e # d
      BY <1>2, <1>8, <2>1, <2>3, UnappliedDiff DEF StoreInv
    <3> QED
      BY <1>2, <1>3, <2>1, <2>3, <3>1, RemoveTextPatchHas DEF Whole
  <2> QED
    BY <2>1, <2>2, <2>3
<1>9. CASE Clean /\ q # p
  <2>1. /\ p \in Patches /\ known = Installed
        /\ cache' = ClearedCache(KnownFiles(p), SharedWith(p), cache)
        /\ link' = ClearedLinks(KnownFiles(p), link)
    BY <1>9, CleanFacts, HandlerKnows
  <2>2. Touches(e) \subseteq SharedWith(p)
    BY <1>1, <1>2, <1>9, <2>1, KnownFilesOf DEF SharedWith
  <2>3. Creates[e] \intersect KnownFiles(p) = {}
    <3>1. CASE disk[p] \in Diffs
      BY <1>1, <1>2, <1>9, <2>1, <3>1, KnownFilesOf DEF IndependentDiffs, StoreInv, OwnDiffs
    <3>2. CASE disk[p] \notin Diffs
      BY <2>1, <3>2, KnownFilesOf
    <3> QED
      BY <3>1, <3>2
  <2>4. ASSUME NEW f \in Touches(e) PROVE Has(cache', f, e)
    <3>1. f \in Files /\ Has(cache, f, e) /\ ~(f \in KnownFiles(p) \ SharedWith(p))
      BY <1>2, <2>2 DEF Whole
    <3> QED
      BY <2>1, <3>1, ClearedCacheHas
  <2>5. \A f \in Creates[e] : link'[f]
    BY <1>2, <2>1, <2>3 DEF Whole, ClearedLinks
  <2> QED
    BY <2>4, <2>5
<1> QED
  BY <1>5, <1>8, <1>9

\* When pm_apply succeeds, the patch is whole.
LEMMA AppliedIsWhole ==
  ASSUME PatchesStay, NothingToUninstall, TypeInv, KnownInv, StoreInv, Prepared, [Next]_vars,
         PmApply, job'.ret
  PROVE  Whole(job.patch)'
<1> DEFINE p == job.patch
           d == disk[p]
<1>1. /\ disk' = disk /\ link' = link /\ job'.patch = p /\ d \in Diffs
      /\ up /\ job.kind # "none" /\ job.phase = "script" /\ job.apply /\ p \in Patches
  BY PmApplyFacts DEF SameDoPatch
<1>2. cache \in Cache /\ Touches(d) \subseteq Files
  BY <1>1, StoreAssumption DEF Touches, TypeInv, TypeOK
<1>3. CASE TestIfApplied(d, cache) /\ cache' = cache
  <2>1. \A f \in Touches(d) : Has(cache, f, d)
    BY <1>3 DEF TestIfApplied, CanReverse, Has
  <2>2. ASSUME NEW f \in Creates[d] PROVE link[f]
    <3>1. f \in KnownFiles(p) /\ Has(cache, f, d)
      BY <1>1, <2>1, HandlerKnows, KnownFilesOf DEF Touches
    <3> QED
      BY <1>1, <3>1 DEF Prepared
  <2> QED
    BY <1>1, <1>3, <2>1, <2>2 DEF Whole
<1>4. CASE VerifyTextPatch(d, cache) /\ cache' = InstallTextPatch(d, cache)
  <2>1. \A f \in Touches(d) : Has(cache', f, d)
    BY <1>1, <1>2, <1>4, InstallTextPatchHas
  <2>2. \A f \in Creates[d] : link[f]
    BY <1>1, <1>4, CreatedHasNoOriginal
  <2> QED
    BY <1>1, <2>1, <2>2 DEF Whole
<1> QED
  BY <1>3, <1>4, PmApplyFacts

\* pm_apply succeeds for a patch that is whole.
LEMMA WholeApplies ==
  ASSUME IndependentDiffs, TypeInv, StoreInv, PmApply, Whole(job.patch)
  PROVE  job'.ret
<1> DEFINE p == job.patch
           d == disk[p]
<1>1. p \in Patches /\ d \in Diffs
  BY PmApplyFacts DEF Whole
<1>2. SUFFICES TestIfApplied(d, cache)
  BY <1>1, PmApplyFacts
<1>3. SUFFICES ASSUME NEW f \in Touches(d)
               PROVE  cache[f] # None /\ CanReverse(d, f, cache[f])
  BY DEF TestIfApplied
<1>4. f \in Files /\ Has(cache, f, d) /\ cache[f].diffs \subseteq Diffs /\ PatchOf[d] = p
  BY <1>1, StoreAssumption
  DEF Whole, Has, Touches, StoreInv, OwnDiffs, TypeInv, TypeOK, Cache, Copy
<1>5. \A e \in cache[f].diffs : d \notin Needs[e]
  BY <1>4 DEF IndependentDiffs
<1>6. ASSUME f \in Creates[d], NEW e \in cache[f].diffs PROVE e = d
  <2>1. f \in Touches(e) /\ disk[PatchOf[e]] = e /\ e \in Diffs
    BY <1>4, <1>6 DEF Has, StoreInv, OwnChanges
  <2>2. PatchOf[e] = PatchOf[d]
    BY <1>1, <1>6, <2>1 DEF IndependentDiffs
  <2> QED
    BY <1>4, <2>1, <2>2
<1> QED
  BY <1>4, <1>5, <1>6 DEF CanReverse, Has

---------------------------------------------------------------------------
(***************************************************************************)
(* The induction.  Without a handler, every enabled patch is whole, or the *)
(* server does not run and will not before all patches are applied.  With  *)
(* one, this is true of the patches it is not concerned with.              *)
(***************************************************************************)

\* No server is started from this queue before the patches are applied.
AppliedFirst(q) ==
  \A i \in DOMAIN q : q[i] = StartServer => \E j \in DOMAIN q : j < i /\ q[j] = ApplyAll

Owing == ~Loaded /\ ~failed /\ AppliedFirst(queue)

AllWhole == \A p \in saved : Whole(p)

\* The patch that doPatch() has just deactivated.
Taken == ~job.apply /\ job.ret /\ job.phase \in {"clean", "return"}

\* doPatch() for one patch: only what it takes out may be incomplete, and if
\* pm_apply failed, the patch was not enabled.
DuringPatch ==
  /\ job.phase # "next"
  /\ \A q \in saved : Whole(q) \/ (q = job.patch /\ Taken)
  /\ job.phase = "clean" /\ job.apply => job.patch \notin saved

\* The loops over several patches: what is not to be applied again is whole, but
\* for the patch at hand; after a failure of "changed" everything is applied anew.
DuringLoop ==
  /\ job.undo \subseteq job.redo
  /\ job.kind = "applyAll" => job.undo = {} /\ (job.phase # "next" => job.apply)
  /\ job.phase # "next" /\ ~job.apply => job.patch \in job.redo
  /\ job.kind = "applyAll" \/ job.ok =>
       \A q \in applied \ job.redo : Whole(q) \/ (job.phase # "next" /\ q = job.patch)

\* The second doPrepareCache runs when activation failed or deactivation did not;
\* a patch that was activated is whole.
ScriptInv ==
  /\ job.phase = "clean" => (job.apply <=> ~job.ret)
  /\ job.phase = "return" /\ job.apply /\ job.ret => Whole(job.patch)

EffectInv ==
  /\ job.kind = "none" => AllWhole \/ Owing
  /\ job.kind = "patch" => DuringPatch \/ Owing
  /\ job.kind \in {"applyAll", "changed"} => DuringLoop

\* The circumstances, and what was shown above.
Settled == PatchesStay /\ NothingRestored /\ IndependentDiffs
PatchInv == /\ TypeInv /\ SettingsInv /\ NothingToUninstall
            /\ KnownInv /\ Prepared /\ StoreInv /\ ScriptInv

\* What the daemon posts and takes keeps the order of ApplyAll and StartServer.
LEMMA AppliedFirstQueue ==
  ASSUME NEW q \in Seq(Requests), AppliedFirst(q)
  PROVE  /\ \A r \in Requests : r # StartServer => AppliedFirst(Append(q, r))
         /\ AppliedFirst(q \o <<ApplyAll, StartServer>>)
         /\ q # <<>> => Head(q) # StartServer
         /\ q # <<>> /\ Head(q) # ApplyAll => AppliedFirst(Tail(q))
<1>1. ASSUME NEW r \in Requests, r # StartServer PROVE AppliedFirst(Append(q, r))
  <2> SUFFICES ASSUME NEW i \in DOMAIN Append(q, r), Append(q, r)[i] = StartServer
               PROVE  \E j \in DOMAIN Append(q, r) : j < i /\ Append(q, r)[j] = ApplyAll
    BY DEF AppliedFirst
  <2>1. i \in DOMAIN q /\ q[i] = StartServer
    BY <1>1
  <2>2. PICK j \in DOMAIN q : j < i /\ q[j] = ApplyAll
    BY <2>1 DEF AppliedFirst
  <2> QED
    BY <2>2
<1>2. AppliedFirst(q \o <<ApplyAll, StartServer>>)
  <2> DEFINE t == q \o <<ApplyAll, StartServer>>
  <2>0. ApplyAll \in Requests /\ StartServer \in Requests /\ ApplyAll # StartServer
    BY RequestType DEF ApplyAll, StartServer
  <2>1. /\ DOMAIN t = 1 .. Len(q) + 2 /\ t[Len(q) + 1] = ApplyAll
        /\ \A k \in DOMAIN q : k \in DOMAIN t /\ t[k] = q[k]
    BY <2>0
  <2> HIDE DEF t
  <2> SUFFICES ASSUME NEW i \in DOMAIN t, t[i] = StartServer
               PROVE  \E j \in DOMAIN t : j < i /\ t[j] = ApplyAll
    BY DEF AppliedFirst, t
  <2>2. CASE i \in DOMAIN q
    <3>1. PICK j \in DOMAIN q : j < i /\ q[j] = ApplyAll
      BY <2>1, <2>2 DEF AppliedFirst
    <3> QED
      BY <2>1, <3>1
  <2>3. CASE i \notin DOMAIN q
    <3>1. i = Len(q) + 2
      BY <2>0, <2>1, <2>3
    <3> QED
      BY <2>1, <3>1
  <2> QED
    BY <2>2, <2>3
<1>3. q # <<>> => Head(q) # StartServer
  <2> SUFFICES ASSUME q # <<>>, Head(q) = StartServer PROVE FALSE
    OBVIOUS
  <2>1. 1 \in DOMAIN q /\ q[1] = StartServer
    OBVIOUS
  <2>2. PICK j \in DOMAIN q : j < 1
    BY <2>1 DEF AppliedFirst
  <2> QED
    BY <2>2
<1>4. ASSUME q # <<>>, Head(q) # ApplyAll PROVE AppliedFirst(Tail(q))
  <2> SUFFICES ASSUME NEW i \in DOMAIN Tail(q), Tail(q)[i] = StartServer
               PROVE  \E j \in DOMAIN Tail(q) : j < i /\ Tail(q)[j] = ApplyAll
    BY DEF AppliedFirst
  <2>1. i + 1 \in DOMAIN q /\ q[i + 1] = StartServer
    BY <1>4
  <2>2. PICK j \in DOMAIN q : j < i + 1 /\ q[j] = ApplyAll
    BY <2>1 DEF AppliedFirst
  <2>3. j # 1
    BY <1>4, <2>2
  <2>4. j - 1 \in DOMAIN Tail(q) /\ Tail(q)[j - 1] = ApplyAll /\ j - 1 < i
    BY <1>4, <2>2, <2>3
  <2> QED
    BY <2>4
<1> QED
  BY <1>1, <1>2, <1>3, <1>4

\* The results of the scripts mean what they say.
LEMMA ScriptInvStep ==
  ASSUME PatchesStay, PatchInv, [Next]_vars
  PROVE  ScriptInv'
<1> USE DEF PatchInv
<1>1. CASE ~Scripts
  <2> SUFFICES ASSUME job'.phase \in {"clean", "return"} PROVE ScriptInv'
    BY DEF ScriptInv
  <2>1. UNCHANGED <<job, cache, link, disk>>
    BY <1>1, ScriptUndisturbed, DirectoriesStay
  <2> QED
    BY <2>1 DEF ScriptInv, Whole
<1>2. CASE Prepare
  BY <1>2, PrepareFacts DEF ScriptInv
<1>3. CASE PmApply
  <2>1. job'.ret => Whole(job.patch)' /\ job'.phase = "return"
    BY <1>3, AppliedIsWhole, PmApplyFacts
  <2>2. ~job'.ret => job'.phase = "clean" /\ job'.apply
    BY <1>3, PmApplyFacts DEF SameDoPatch
  <2> QED
    BY <2>1, <2>2 DEF ScriptInv
<1>4. CASE PmUnapply
  BY <1>4, PmUnapplyFacts DEF ScriptInv, SameDoPatch
<1>5. CASE Clean
  BY <1>5, CleanFacts DEF ScriptInv, SameDoPatch
<1> QED
  BY <1>1, <1>2, <1>3, <1>4, <1>5 DEF Scripts

\* A step that starts no server and posts no request to start one owes what it owed.
LEMMA OwingKept ==
  ASSUME TypeInv, Owing, UNCHANGED <<thread, failed>>,
         queue' = queue \/ \E r \in Requests : r # StartServer /\ queue' = Append(queue, r)
  PROVE  Owing'
<1>1. queue \in Seq(Requests)
  BY DEF TypeInv, TypeOK
<1>2. AppliedFirst(queue')
  BY <1>1, AppliedFirstQueue DEF Owing
<1> QED
  BY <1>2 DEF Owing, Loaded

\* Only ApplyAll and StartServer mean something to Owing.
LEMMA PostsNoServer ==
  /\ Refresh \in Requests /\ Refresh # StartServer /\ Refresh # ApplyAll
  /\ CloseServer \in Requests /\ CloseServer # StartServer /\ CloseServer # ApplyAll
  /\ RegisterDBus # ApplyAll /\ StartServer # ApplyAll
  /\ \A p \in Patches, apply \in BOOLEAN :
        DoPatch(p, apply) \in Requests /\ DoPatch(p, apply) # StartServer
        /\ DoPatch(p, apply) # ApplyAll
  BY RequestType DEF Refresh, StartServer, ApplyAll, CloseServer, RegisterDBus, DoPatch

\* doPrepareCache and the scripts.
LEMMA ScriptsEffect ==
  ASSUME Settled, PatchInv, EffectInv, [Next]_vars, Scripts
  PROVE  EffectInv'
<1> USE DEF Settled, PatchInv
<1>1. /\ SameDoPatch /\ job.phase # "next" /\ job'.phase # "next" /\ job.kind # "none"
      /\ job.patch \in Patches
      /\ UNCHANGED <<saved, applied, queue, failed, thread>>
  BY PrepareFacts, PmApplyFacts, PmUnapplyFacts, CleanFacts DEF Scripts
<1>2. saved \subseteq Patches /\ applied \subseteq Patches /\ job \in Jobs
  BY DEF TypeInv, TypeOK
<1>3. ASSUME Owing PROVE Owing'
  BY <1>1, <1>3, OwingKept
<1>4. \A q \in Patches : Whole(q) /\ (q # job.patch \/ Prepare \/ PmApply) => Whole(q)'
  BY WholeKept DEF Scripts
<1>5. ASSUME DuringPatch PROVE DuringPatch'
  <2>1. CASE Prepare
    <3>1. job.phase = "prepare" /\ job'.phase = "script"
      BY <2>1, PrepareFacts
    <3> QED
      BY <1>1, <1>2, <1>4, <1>5, <2>1, <3>1 DEF DuringPatch, Taken, SameDoPatch
  <2>2. CASE PmApply
    <3>1. job.apply /\ job'.apply /\ (job'.phase = "clean" => ~job'.ret)
      BY <2>2, PmApplyFacts DEF SameDoPatch
    <3>2. \A q \in saved : Whole(q) /\ Whole(q)'
      BY <1>2, <1>4, <1>5, <2>2, <3>1 DEF DuringPatch, Taken
    <3>3. ~job'.ret => job.patch \notin saved
      BY <2>2, <3>2, WholeApplies
    <3> QED
      BY <1>1, <3>1, <3>2, <3>3 DEF DuringPatch, SameDoPatch
  <2>3. CASE PmUnapply
    <3>1. ~job.apply /\ ~job'.apply /\ job.phase = "script"
      BY <2>3, PmUnapplyFacts DEF SameDoPatch
    <3>2. \A q \in saved : Whole(q)
      BY <1>5, <3>1 DEF DuringPatch, Taken
    <3>3. CASE job'.ret /\ job'.phase = "clean"
      <4>1. Taken'
        BY <3>1, <3>3 DEF Taken
      <4>2. \A q \in saved : q # job.patch => Whole(q)'
        BY <1>2, <1>4, <3>2
      <4> QED
        BY <1>1, <3>1, <4>1, <4>2 DEF DuringPatch, SameDoPatch
    <3>4. CASE ~job'.ret /\ job'.phase = "return"
      <4>1. UNCHANGED <<link, cache, disk>>
        BY <2>3, <3>4, PmUnapplyFacts
      <4>2. \A q \in saved : Whole(q)'
        BY <3>2, <4>1 DEF Whole
      <4> QED
        BY <1>1, <3>4, <4>2 DEF DuringPatch
    <3> QED
      BY <2>3, <3>3, <3>4, PmUnapplyFacts
  <2>4. CASE Clean
    <3>1. job.phase = "clean" /\ job'.phase = "return" /\ job'.ret = job.ret
      BY <2>4, CleanFacts
    <3>2. \A q \in saved : q # job.patch => Whole(q)'
      BY <1>2, <1>4, <1>5 DEF DuringPatch
    <3>3. CASE job.apply
      BY <1>1, <1>5, <3>1, <3>2, <3>3 DEF DuringPatch, SameDoPatch
    <3>4. CASE ~job.apply
      <4>1. Taken'
        BY <1>1, <3>1, <3>4 DEF Taken, ScriptInv, SameDoPatch
      <4> QED
        BY <1>1, <3>1, <3>2, <4>1 DEF DuringPatch, SameDoPatch
    <3> QED
      BY <3>3, <3>4
  <2> QED
    BY <2>1, <2>2, <2>3, <2>4 DEF Scripts
<1>6. ASSUME DuringLoop PROVE DuringLoop'
  <2>1. ASSUME NEW q \in applied \ job.redo, Whole(q) \/ q = job.patch
        PROVE  Whole(q)' \/ q = job.patch
    BY <1>2, <1>4, <2>1
  <2>2. (job'.kind = "applyAll" \/ job'.ok) => \A q \in applied' \ job'.redo : Whole(q)' \/ q = job'.patch
    BY <1>1, <1>6, <2>1 DEF DuringLoop, SameDoPatch
  <2>3. /\ job'.undo \subseteq job'.redo
        /\ job'.kind = "applyAll" => job'.undo = {} /\ (job'.phase # "next" => job'.apply)
        /\ job'.phase # "next" /\ ~job'.apply => job'.patch \in job'.redo
    BY <1>1, <1>6 DEF DuringLoop, SameDoPatch
  <2> QED
    BY <1>1, <2>2, <2>3 DEF DuringLoop
<1> QED
  BY <1>1, <1>3, <1>5, <1>6 DEF EffectInv, SameDoPatch

\* Steps that leave the cache, the links and the directories alone keep patches whole.
LEMMA UntouchedWhole ==
  ASSUME PatchesStay, NothingToUninstall, [Next]_vars, Untouched
  PROVE  \A q \in Patches : Whole(q) => Whole(q)'
  BY DirectoriesStay DEF Untouched, Whole

\* The handler of one patch ends.
LEMMA EndDoPatchEffect ==
  ASSUME Settled, PatchInv, EffectInv, [Next]_vars, EndDoPatch
  PROVE  EffectInv'
<1> USE DEF Settled, PatchInv
<1>1. /\ up /\ job.kind = "patch" /\ job.phase = "return" /\ job' = NoJob
      /\ UNCHANGED <<thread, failed>> /\ job.patch \in Patches
  BY DEF EndDoPatch, At, server, TypeInv, JobPatchKnown
<1>2. Untouched /\ saved \subseteq Patches /\ job.apply \in BOOLEAN /\ job.ret \in BOOLEAN
  BY DEF EndDoPatch, device, tmpfs, Untouched, TypeInv, TypeOK, Jobs
<1>3. applied = saved
  BY <1>1, NoJobKind DEF SettingsInv, AwaitsRefresh, DroppedOnly
<1>4. CASE Owing
  <2>1. queue' = queue \/ queue' = Append(queue, Refresh)
    BY DEF EndDoPatch
  <2>2. Owing'
    BY <1>1, <1>4, <2>1, OwingKept, PostsNoServer
  <2> QED
    BY <1>1, <2>2, NoJobKind DEF EffectInv
<1>5. CASE DuringPatch
  <2>1. \A q \in saved' : Whole(q)
    <3>1. CASE ~job.ret
      BY <1>5, <3>1 DEF EndDoPatch, DuringPatch, Taken
    <3>2. CASE job.ret /\ job.apply
      <4>1. saved' = saved \union {job.patch} /\ Whole(job.patch)
        BY <1>1, <1>3, <3>2 DEF EndDoPatch, ScriptInv
      <4> QED
        BY <1>5, <3>2, <4>1 DEF DuringPatch, Taken
    <3>3. CASE job.ret /\ ~job.apply
      <4>1. saved' = saved \ {job.patch}
        BY <1>3, <3>3 DEF EndDoPatch
      <4> QED
        BY <1>5, <4>1 DEF DuringPatch
    <3> QED
      BY <3>1, <3>2, <3>3
  <2>2. saved' \subseteq Patches
    BY <1>1, <1>2, <1>3 DEF EndDoPatch
  <2>3. AllWhole'
    BY <1>2, <2>1, <2>2, UntouchedWhole DEF AllWhole
  <2> QED
    BY <1>1, <2>3, NoJobKind DEF EffectInv
<1> QED
  BY <1>1, <1>4, <1>5 DEF EffectInv

\* The loops take the result of doPatch(): a patch that failed is dropped, or the
\* failure is remembered.
LEMMA ResultsEffect ==
  ASSUME Settled, PatchInv, EffectInv, [Next]_vars, ApplyAllResult \/ OriginalChangedResult
  PROVE  EffectInv'
<1> USE DEF Settled, PatchInv
<1>1. /\ job.phase = "return" /\ job.patch \in Patches /\ job \in Jobs /\ applied \subseteq Patches
      /\ job' = [job EXCEPT !.phase = "next", !.ok = @ /\ job.ret]
      /\ job.kind \in {"applyAll", "changed"}
  BY DEF ApplyAllResult, OriginalChangedResult, At, TypeInv, JobPatchKnown, TypeOK
<1>2. /\ job'.phase = "next" /\ job'.kind = job.kind /\ job'.undo = job.undo /\ job'.redo = job.redo
      /\ (job'.ok => job.ok /\ job.ret)
  BY <1>1 DEF Jobs
<1>3. Untouched
  BY DEF ApplyAllResult, OriginalChangedResult, device, tmpfs, Untouched
<1>4. DuringLoop
  BY <1>1 DEF EffectInv
<1>5. ASSUME job'.kind = "applyAll" \/ job'.ok, NEW q \in applied' \ job'.redo
      PROVE  Whole(q)'
  <2>1. q \in applied \ job.redo /\ (Whole(q) \/ q = job.patch)
    BY <1>2, <1>4, <1>5 DEF DuringLoop, ApplyAllResult, OriginalChangedResult
  <2>2. CASE Whole(q)
    BY <1>1, <1>3, <2>1, <2>2, UntouchedWhole
  <2>3. CASE q = job.patch
    <3>1. job.ret
      BY <1>1, <1>2, <1>5, <2>3 DEF ApplyAllResult, OriginalChangedResult, At
    <3>2. job.apply
      BY <1>1, <1>4, <2>1, <2>3 DEF DuringLoop
    <3>3. Whole(q)
      BY <1>1, <2>3, <3>1, <3>2 DEF ScriptInv
    <3> QED
      BY <2>2, <3>3
  <2> QED
    BY <2>1, <2>2, <2>3
<1>6. DuringLoop'
  BY <1>2, <1>4, <1>5 DEF DuringLoop
<1> QED
  BY <1>1, <1>2, <1>6 DEF EffectInv

\* The loops turn to the next patch.
LEMMA NextPatchEffect ==
  ASSUME Settled, PatchInv, EffectInv, [Next]_vars, NextToApply \/ NextToUnapply
  PROVE  EffectInv'
<1> USE DEF Settled, PatchInv
<1>1. /\ job.phase = "next" /\ job.kind # "none" /\ job \in Jobs /\ applied' = applied
      /\ applied \subseteq Patches
  BY DEF NextToApply, NextToUnapply, At, TypeInv, TypeOK
<1>2. Untouched
  BY DEF NextToApply, NextToUnapply, device, tmpfs, Untouched
<1>3. \/ \E p \in job.redo : job.undo = {} /\ job' = Begin([job EXCEPT !.redo = @ \ {p}], p, TRUE)
      \/ \E p \in job.undo : job' = Begin([job EXCEPT !.undo = @ \ {p}], p, FALSE)
  BY DEF NextToApply, NextToUnapply, FirstListed, LastListed, FirstInDir
<1>4. job.kind # "patch" \/ Owing
  BY <1>1 DEF EffectInv, DuringPatch
<1>5. /\ job'.kind = job.kind /\ job'.phase # "next" /\ job'.ok = job.ok
      /\ \/ \E p \in job.redo : /\ job.undo = {} /\ job'.undo = {} /\ job'.redo = job.redo \ {p}
                                /\ job'.patch = p /\ job'.apply
         \/ \E p \in job.undo : /\ job'.undo = job.undo \ {p} /\ job'.redo = job.redo
                                /\ job'.patch = p /\ ~job'.apply
  BY <1>1, <1>3 DEF Begin, Jobs
<1>6. ASSUME DuringLoop PROVE DuringLoop'
  <2>1. /\ job'.undo \subseteq job'.redo
        /\ job'.kind = "applyAll" => job'.undo = {} /\ job'.apply
        /\ ~job'.apply => job'.patch \in job'.redo
    BY <1>1, <1>5, <1>6 DEF DuringLoop
  <2>2. ASSUME job'.kind = "applyAll" \/ job'.ok, NEW q \in applied' \ job'.redo
        PROVE  Whole(q)' \/ q = job'.patch
    <3>1. q \in Patches /\ (Whole(q) \/ q = job'.patch)
      BY <1>1, <1>5, <1>6, <2>2 DEF DuringLoop
    <3> QED
      BY <1>2, <3>1, UntouchedWhole
  <2> QED
    BY <1>5, <2>1, <2>2 DEF DuringLoop
<1>7. ASSUME Owing PROVE Owing'
  <2>1. UNCHANGED <<thread, failed, queue>>
    BY DEF NextToApply, NextToUnapply, server
  <2> QED
    BY <1>7, <2>1, OwingKept
<1> QED
  BY <1>1, <1>4, <1>5, <1>6, <1>7 DEF EffectInv

\* The loops end: what is enabled then is whole, or everything is applied anew.
LEMMA EndLoopEffect ==
  ASSUME Settled, PatchInv, EffectInv, [Next]_vars, EndApplyAll \/ EndOriginalChanged
  PROVE  EffectInv'
<1> USE DEF Settled, PatchInv
<1>1. /\ up /\ job.phase = "next" /\ job.kind \in {"applyAll", "changed"} /\ job.redo = {}
      /\ applied \subseteq Patches
  BY DEF EndApplyAll, EndOriginalChanged, At, TypeInv, TypeOK
<1>2. DuringLoop
  BY <1>1 DEF EffectInv
<1>3. applied = saved \/ DroppedOnly
  BY <1>1, NoJobKind DEF SettingsInv, AwaitsRefresh
<1>4. CASE EndApplyAll \/ (EndOriginalChanged /\ job.ok)
  <2>1. job' = NoJob /\ Untouched /\ (job.kind = "applyAll" \/ job.ok)
    BY <1>4 DEF EndApplyAll, EndOriginalChanged, device, tmpfs, Untouched
  <2>2. saved' = applied
    BY <1>3, <1>4 DEF EndApplyAll, EndOriginalChanged, DroppedOnly, settings
  <2>3. \A q \in applied : Whole(q)
    BY <1>1, <1>2, <2>1 DEF DuringLoop
  <2>4. AllWhole'
    BY <1>1, <2>1, <2>2, <2>3, UntouchedWhole DEF AllWhole
  <2> QED
    BY <2>1, <2>4, NoJobKind DEF EffectInv
<1>5. CASE EndOriginalChanged /\ ~job.ok
  <2>1. job' = Job("applyAll", {}, applied) /\ applied' = applied
    BY <1>5 DEF EndOriginalChanged
  <2>2. DuringLoop' /\ job'.kind = "applyAll"
    BY <2>1 DEF DuringLoop, Job
  <2> QED
    BY <2>2 DEF EffectInv
<1> QED
  BY <1>4, <1>5

\* Calls of clients: they post requests, deactivate everything, or clear a failure.
LEMMA MethodEffect ==
  ASSUME Settled, PatchInv, EffectInv, [Next]_vars, Method
  PROVE  EffectInv'
<1> USE DEF Settled, PatchInv
<1>1. job = NoJob /\ job.kind = "none" /\ saved \subseteq Patches /\ queue \in Seq(Requests)
  BY NoJobKind DEF Method, ApplyPatch, UnapplyPatch, UninstallPatch, UnapplyAllPatches,
     RestorePatchList, ResolveFailure, LoadRequestApply, LoadRequestUnapply, PutOrder,
     PutApplyOnBoot, Call, Idle, TypeInv, TypeOK
<1>2. job' = job
  BY DEF Method, ApplyPatch, UnapplyPatch, UninstallPatch, UnapplyAllPatches, RestorePatchList,
     ResolveFailure, LoadRequestApply, LoadRequestUnapply, PutOrder, PutApplyOnBoot
<1>3. SUFFICES AllWhole' \/ Owing'
  BY <1>1, <1>2 DEF EffectInv
<1>4. AllWhole \/ Owing
  BY <1>1 DEF EffectInv
<1>5. CASE UnapplyAllPatches \/ LoadRequestUnapply
  <2>1. saved' = {}
    BY <1>5 DEF UnapplyAllPatches, LoadRequestUnapply, UnapplyAll
  <2> QED
    BY <2>1 DEF AllWhole
<1>6. CASE ~(UnapplyAllPatches \/ LoadRequestUnapply)
  <2>1. Untouched /\ saved' = saved /\ thread' = thread
    BY <1>6 DEF Method, ApplyPatch, UnapplyPatch, UninstallPatch, PatchesStay, Call,
       RestorePatchList, NothingRestored, ResolveFailure, LoadRequestApply, PutOrder,
       PutApplyOnBoot, device, tmpfs, settings, server, Untouched
  <2>2. CASE AllWhole
    BY <1>1, <2>1, <2>2, UntouchedWhole DEF AllWhole
  <2>3. CASE Owing
    <3>1. ~ResolveFailure
      BY <2>3 DEF ResolveFailure, Owing
    <3>2. failed' = failed
      BY <1>6, <3>1 DEF Method, ApplyPatch, UnapplyPatch, UninstallPatch,
         RestorePatchList, LoadRequestApply, PutOrder, PutApplyOnBoot
    <3>3. CASE LoadRequestApply
      <4>1. AppliedFirst(queue')
        BY <1>1, <2>3, <3>3, AppliedFirstQueue DEF LoadRequestApply, Owing
      <4> QED
        BY <2>1, <2>3, <3>2, <4>1 DEF Owing, Loaded
    <3>4. CASE ~LoadRequestApply
      <4>1. queue' = queue \/ \E p \in Patches, apply \in BOOLEAN : queue' = Append(queue, DoPatch(p, apply))
        BY <1>6, <3>1, <3>4 DEF Method, ApplyPatch, UnapplyPatch, UninstallPatch, PatchesStay,
           Call, RestorePatchList, NothingRestored, PutOrder, PutApplyOnBoot
      <4> QED
        BY <2>1, <2>3, <3>2, <4>1, OwingKept, PostsNoServer
    <3> QED
      BY <3>3, <3>4
  <2> QED
    BY <1>4, <2>2, <2>3
<1> QED
  BY <1>5, <1>6

\* Handlers of queued events begin a handler, or start the server once its patches
\* are applied.
LEMMA QueuedEffect ==
  ASSUME Settled, PatchInv, EffectInv, [Next]_vars, Queued
  PROVE  EffectInv'
<1> USE DEF Settled, PatchInv
<1>1. /\ job = NoJob /\ job.kind = "none" /\ saved \subseteq Patches
      /\ queue \in Seq(Requests) /\ queue # <<>>
  BY NoJobKind DEF Queued, DoRefreshPatchList, DoPatchHandler, DoApplyAllPatches,
     DoStartLocalServer, DoUninstallPatch, DoRegisterDBus, ServerFinished, Handles, Idle,
     TypeInv, TypeOK
<1>2. Untouched /\ saved' = saved /\ failed' = failed
  BY DEF Queued, DoRefreshPatchList, DoPatchHandler, DoApplyAllPatches, DoStartLocalServer,
     DoUninstallPatch, DoRegisterDBus, ServerFinished, device, tmpfs, settings, Untouched
<1>3. AllWhole \/ Owing
  BY <1>1 DEF EffectInv
<1>4. AllWhole => AllWhole'
  BY <1>1, <1>2, UntouchedWhole DEF AllWhole
<1>5. ASSUME Owing, Head(queue) # ApplyAll, queue' = Tail(queue), thread' = thread PROVE Owing'
  <2>1. AppliedFirst(Tail(queue))
    BY <1>1, <1>5, AppliedFirstQueue DEF Owing
  <2> QED
    BY <1>2, <1>5, <2>1 DEF Owing, Loaded
<1>6. CASE DoApplyAllPatches
  <2>1. job' = Job("applyAll", {}, applied) /\ applied' = applied
    BY <1>6 DEF DoApplyAllPatches
  <2>2. DuringLoop' /\ job'.kind = "applyAll"
    BY <2>1 DEF DuringLoop, Job
  <2> QED
    BY <2>2 DEF EffectInv
<1>7. ASSUME NEW p \in Patches, NEW apply \in BOOLEAN, DoPatchHandler(p, apply) PROVE EffectInv'
  <2>1. job'.kind = "patch" /\ job'.phase \in {"prepare", "script"}
    BY <1>7 DEF DoPatchHandler, Begin, Job
  <2>2. Owing => Owing'
    BY <1>5, <1>7, PostsNoServer DEF DoPatchHandler, Handles, server
  <2>3. AllWhole' => DuringPatch'
    BY <2>1 DEF AllWhole, DuringPatch
  <2> QED
    BY <1>3, <1>4, <2>1, <2>2, <2>3 DEF EffectInv
<1>8. CASE DoStartLocalServer
  <2>1. ~Owing /\ job' = job
    BY <1>1, <1>8, AppliedFirstQueue DEF DoStartLocalServer, Handles, Owing
  <2> QED
    BY <1>1, <1>3, <1>4, <2>1 DEF EffectInv
<1>9. CASE DoRefreshPatchList \/ DoRegisterDBus \/ ServerFinished
  <2>1. /\ job' = job /\ queue' = Tail(queue) /\ thread' = thread
        /\ Head(queue) \in {Refresh, RegisterDBus, CloseServer}
    BY <1>9 DEF DoRefreshPatchList, DoRegisterDBus, ServerFinished, Handles, server
  <2> QED
    BY <1>1, <1>3, <1>4, <1>5, <2>1, PostsNoServer DEF EffectInv
<1>10. ASSUME NEW p \in Patches PROVE ~DoUninstallPatch(p)
  BY <1>1, LastingRequests, QueueOf DEF DoUninstallPatch, Handles, NothingToUninstall
<1> QED
  BY <1>6, <1>7, <1>8, <1>9, <1>10 DEF Queued

\* Signals: a changed original starts the loop over its patches only while the
\* server runs, when every enabled patch is whole.
LEMMA SignalEffect ==
  ASSUME Settled, PatchInv, EffectInv, [Next]_vars, Signal
  PROVE  EffectInv'
<1> USE DEF Settled, PatchInv
<1>1. /\ up /\ job = NoJob /\ job.kind = "none" /\ saved \subseteq Patches
      /\ applied \subseteq Patches
  BY NoJobKind DEF Signal, OnOriginalFileChanged, OnContentChanged, OnFailureOccured,
     OnLipstickFailed, OnArchiveDownloaded, Idle, TypeInv, TypeOK
<1>2. AllWhole \/ Owing
  BY <1>1 DEF EffectInv
<1>3. ASSUME NEW f \in Files, OnOriginalFileChanged(f) PROVE EffectInv'
  <2>1. /\ Untouched /\ applied' = applied /\ saved' = saved
        /\ UNCHANGED <<thread, failed, queue>>
    BY <1>3 DEF OnOriginalFileChanged, device, tmpfs, settings, server, Untouched
  <2>2. AllWhole => AllWhole'
    BY <1>1, <2>1, UntouchedWhole DEF AllWhole
  <2>3. CASE job' = job
    BY <1>1, <1>2, <2>1, <2>2, <2>3, OwingKept DEF EffectInv
  <2>4. CASE job' # job
    <3> DEFINE patches == {p \in applied : f \in KnownFiles(p)}
    <3>1. Loaded /\ job' = Job("changed", patches, patches)
      BY <1>3, <2>4 DEF OnOriginalFileChanged
    <3>2. AllWhole' /\ applied = saved
      BY <1>1, <1>2, <2>2, <3>1, NoJobKind DEF Owing, Loaded, SettingsInv, AwaitsRefresh, DroppedOnly
    <3>3. /\ job'.kind = "changed" /\ job'.phase = "next"
          /\ job'.undo = patches /\ job'.redo = patches
      BY <3>1 DEF Job
    <3>4. DuringLoop'
      BY <2>1, <3>2, <3>3 DEF DuringLoop, AllWhole
    <3> QED
      BY <3>3, <3>4 DEF EffectInv
  <2> QED
    BY <2>3, <2>4
<1>4. CASE OnContentChanged
  <2>1. /\ Untouched /\ saved' = saved /\ job' = job
        /\ UNCHANGED <<thread, failed>> /\ queue' = Append(queue, Refresh)
    BY <1>4 DEF OnContentChanged, device, tmpfs, settings, server, Untouched
  <2>2. AllWhole => AllWhole'
    BY <1>1, <2>1, UntouchedWhole DEF AllWhole
  <2>3. Owing => Owing'
    BY <2>1, OwingKept, PostsNoServer
  <2> QED
    BY <1>1, <1>2, <2>1, <2>2, <2>3 DEF EffectInv
<1>5. CASE OnFailureOccured /\ failed
  <2>1. Untouched /\ saved' = saved /\ job' = job
    BY <1>5 DEF OnFailureOccured, device, Untouched
  <2>2. AllWhole'
    BY <1>1, <1>2, <1>5, <2>1, UntouchedWhole DEF AllWhole, Owing
  <2> QED
    BY <1>1, <2>1, <2>2 DEF EffectInv
<1>6. CASE (OnFailureOccured /\ ~failed) \/ OnLipstickFailed
  <2>1. saved' = {} /\ job' = job
    BY <1>6 DEF OnFailureOccured, OnLipstickFailed, UnapplyAll
  <2> QED
    BY <1>1, <2>1 DEF EffectInv, AllWhole
<1>7. ASSUME NEW p \in Patches PROVE ~OnArchiveDownloaded(p)
  BY DEF PatchesStay, OnArchiveDownloaded
<1> QED
  BY <1>3, <1>4, <1>5, <1>6, <1>7 DEF Signal

\* The queue of a new process applies the patches before it starts the server.
LEMMA StartQueueOrder ==
  /\ AppliedFirst(<<>>)
  /\ AppliedFirst(<<Refresh, ApplyAll, StartServer>> \o <<RegisterDBus>>)
  /\ AppliedFirst(<<Refresh>> \o <<RegisterDBus>>)
<1>1. AppliedFirst(<<Refresh, ApplyAll, StartServer>> \o <<RegisterDBus>>)
  <2> DEFINE q == <<Refresh, ApplyAll, StartServer>> \o <<RegisterDBus>>
  <2>1. /\ DOMAIN q = 1 .. 4 /\ q[1] = Refresh /\ q[2] = ApplyAll /\ q[4] = RegisterDBus
    OBVIOUS
  <2>2. Refresh # StartServer /\ ApplyAll # StartServer /\ RegisterDBus # StartServer
    BY DEF Refresh, StartServer, ApplyAll, RegisterDBus
  <2> HIDE DEF q
  <2> SUFFICES ASSUME NEW i \in DOMAIN q, q[i] = StartServer
               PROVE  \E j \in DOMAIN q : j < i /\ q[j] = ApplyAll
    BY DEF AppliedFirst, q
  <2>3. 2 \in DOMAIN q /\ 2 < i
    BY <2>1, <2>2
  <2> QED
    BY <2>1, <2>3
<1>2. AppliedFirst(<<Refresh>> \o <<RegisterDBus>>)
  <2> DEFINE q == <<Refresh>> \o <<RegisterDBus>>
  <2>1. DOMAIN q = 1 .. 2 /\ q[1] = Refresh /\ q[2] = RegisterDBus
    OBVIOUS
  <2>2. Refresh # StartServer /\ RegisterDBus # StartServer
    BY DEF Refresh, StartServer, RegisterDBus
  <2> HIDE DEF q
  <2>3. \A i \in DOMAIN q : q[i] # StartServer
    BY <2>1, <2>2
  <2> QED
    BY <2>3 DEF AppliedFirst, q
<1> QED
  BY <1>1, <1>2 DEF AppliedFirst

\* The server thread, updates of the system, the end of the process and its start.
LEMMA OtherEffect ==
  ASSUME Settled, PatchInv, EffectInv, [Next]_vars, ServerThread \/ Surroundings \/ Start
  PROVE  EffectInv'
<1> USE DEF Settled, PatchInv
<1>1. saved \subseteq Patches /\ applied \subseteq Patches
  BY DEF TypeInv, TypeOK
<1>2. ASSUME Untouched, UNCHANGED <<saved, applied, job>>, Owing => Owing' PROVE EffectInv'
  <2>1. \A q \in Patches : Whole(q) => Whole(q)'
    BY <1>2, UntouchedWhole
  <2>2. AllWhole => AllWhole'
    BY <1>1, <1>2, <2>1 DEF AllWhole
  <2>3. DuringPatch => DuringPatch'
    BY <1>1, <1>2, <2>1 DEF DuringPatch, Taken
  <2>4. DuringLoop => DuringLoop'
    BY <1>1, <1>2, <2>1 DEF DuringLoop
  <2> QED
    BY <1>2, <2>2, <2>3, <2>4 DEF EffectInv
<1>3. CASE ServerThread
  <2>1. Untouched /\ UNCHANGED <<saved, applied, job, failed>>
    BY <1>3 DEF ServerThread, ServerListens, ServerThreadFinishes, ServerThreadEnds, device,
       tmpfs, settings, Untouched
  <2>2. ASSUME Owing PROVE Owing'
    <3>1. ~ServerListens /\ ~ServerThreadFinishes
      BY <2>2 DEF Owing, Loaded, ServerListens, ServerThreadFinishes
    <3>2. thread' = "stopped" /\ queue' = Append(queue, CloseServer)
      BY <1>3, <3>1 DEF ServerThread, ServerThreadEnds
    <3>3. AppliedFirst(queue')
      BY <2>2, <3>2, AppliedFirstQueue, PostsNoServer DEF Owing, TypeInv, TypeOK
    <3> QED
      BY <2>1, <2>2, <3>2, <3>3 DEF Owing, Loaded
  <2> QED
    BY <1>2, <2>1, <2>2
<1>4. CASE Crash \/ Reboot
  <2>1. job' = NoJob /\ thread' = "stopped" /\ ~failed' /\ queue' = <<>>
    BY <1>4 DEF Crash, Reboot, ProcessEnds
  <2>2. Owing'
    BY <2>1, StartQueueOrder DEF Owing, Loaded
  <2> QED
    BY <2>1, <2>2, NoJobKind DEF EffectInv
<1>5. CASE Surroundings /\ ~Crash /\ ~Reboot
  <2>1. UNCHANGED <<saved, applied, job, thread, failed, queue>>
    BY <1>5 DEF Surroundings, OriginalUpdated, OriginalRemoved, PackageMakesDirectory,
       PackageWritesDiff, PackageErased, settings, server
  <2>2. UNCHANGED <<link, cache, backup>>
    BY <1>5 DEF Surroundings, OriginalUpdated, OriginalRemoved, PackageMakesDirectory,
       PackageWritesDiff, PackageErased, tmpfs
  <2>3. ~Scripts
    BY <2>1, PrepareFacts, PmApplyFacts, PmUnapplyFacts, CleanFacts DEF Scripts
  <2>4. Untouched
    BY <2>2, <2>3, StepsOfTheCache DEF Untouched, Emptied
  <2> QED
    BY <1>2, <2>1, <2>4, OwingKept
<1>6. CASE Start
  <2>1. Untouched /\ UNCHANGED <<saved, applied, job, failed, thread>>
    BY <1>6 DEF Start, device, tmpfs, settings, server, Untouched
  <2>2. AppliedFirst(queue')
    BY <1>6, StartQueueOrder DEF Start
  <2> QED
    BY <1>2, <2>1, <2>2 DEF Owing, Loaded
<1> QED
  BY <1>3, <1>4, <1>5, <1>6

\* Every step keeps what is enabled whole, or the server off.
LEMMA EffectStep ==
  ASSUME Settled, PatchInv, EffectInv, [Next]_vars
  PROVE  EffectInv'
<1>1. CASE Next
  BY <1>1, ScriptsEffect, EndDoPatchEffect, ResultsEffect, NextPatchEffect, EndLoopEffect,
     MethodEffect, QueuedEffect, SignalEffect, OtherEffect
  DEF Next, MainThread, Running, Scripts
<1>2. CASE UNCHANGED vars
  BY <1>2 DEF vars, EffectInv, AllWhole, Owing, Loaded, DuringPatch, Taken, DuringLoop, Whole
<1> QED
  BY <1>1, <1>2

\* What the daemon knows, the cache and the scripts keep to the patches on disk.
LEMMA PatchInvariant ==
  ASSUME PatchesStay
  PROVE  Spec => []PatchInv
<1> DEFINE Rest == NothingToUninstall /\ KnownInv /\ Prepared /\ StoreInv /\ ScriptInv
<1>1. Init => Rest
  <2> SUFFICES ASSUME Init PROVE Rest
    OBVIOUS
  <2>1. job.kind = "none" /\ job.phase = "next"
    BY DEF Init, NoJob, Job
  <2>2. OwnDiffs
    BY StoreAssumption, DaemonAssumption DEF Init, OwnDiffs
  <2>3. OwnBackups /\ OwnChanges
    BY EmptyCacheHas DEF Init, OwnBackups, OwnChanges
  <2>4. KnownInv /\ Prepared /\ ScriptInv /\ NothingToUninstall
    BY <2>1 DEF Init, KnownInv, Prepared, ScriptInv, NothingToUninstall
  <2> QED
    BY <2>2, <2>3, <2>4 DEF StoreInv
<1>2. TypeInv /\ SettingsInv /\ Rest /\ [Next]_vars => Rest'
  <2> SUFFICES ASSUME TypeInv, SettingsInv, Rest, [Next]_vars PROVE Rest'
    OBVIOUS
  <2>1. PatchInv
    BY DEF PatchInv
  <2> QED
    BY <2>1, NothingToUninstallStep, KnownStep, PreparedStep, StoreStep, ScriptInvStep
<1> HIDE DEF Rest
<1>3. TypeInv /\ SettingsInv /\ Rest => PatchInv
  BY DEF PatchInv, Rest
<1> QED
  BY <1>1, <1>2, <1>3, TypeInvariant, SettingsInvariant, PTL DEF Spec

\* All of it holds in every reachable state.
LEMMA EffectInvariant ==
  ASSUME Settled
  PROVE  Spec => [](PatchInv /\ EffectInv)
<1>1. Init => EffectInv
  <2> SUFFICES ASSUME Init PROVE EffectInv
    OBVIOUS
  <2>1. job.kind = "none" /\ AllWhole
    BY DEF Init, NoJob, Job, AllWhole
  <2> QED
    BY <2>1 DEF EffectInv
<1>2. PatchInv /\ EffectInv /\ [Next]_vars => EffectInv'
  BY EffectStep
<1>3. PatchesStay
  BY DEF Settled
<1> QED
  BY <1>1, <1>2, <1>3, PatchInvariant, PTL DEF Spec

\* While the server answers, every enabled patch is in effect, whatever is
\* activated and deactivated, fails, is updated, crashes or restarts, in any order
\* and for any number of patches that edit the same files.
THEOREM EnabledStaysInEffect ==
  ASSUME PatchesStay, NothingRestored, IndependentDiffs
  PROVE  Spec => []EnabledIsInEffect
<1>1. PatchInv /\ EffectInv => EnabledIsInEffect
  <2> SUFFICES ASSUME PatchInv, EffectInv, Loaded, Idle, NEW p \in applied PROVE InEffect(p)
    BY DEF EnabledIsInEffect
  <2>1. AllWhole
    BY NoJobKind DEF Idle, EffectInv, Owing
  <2>2. applied = saved
    BY NoJobKind DEF Idle, Loaded, PatchInv, SettingsInv, AwaitsRefresh, DroppedOnly
  <2>3. p \in Patches
    BY DEF PatchInv, TypeInv, TypeOK
  <2> QED
    BY <2>1, <2>2, <2>3, WholeInEffect DEF AllWhole, PatchInv, StoreInv
<1>2. Settled
  BY DEF Settled
<1> QED
  BY <1>1, <1>2, EffectInvariant, PTL

---------------------------------------------------------------------------
(***************************************************************************)
(* The working set.  A loop of doApplyAllPatches() that has not failed has *)
(* only activated patches, and activation harms no other patch: this needs *)
(* neither that the diffs are independent nor that nothing was restored.   *)
(***************************************************************************)

\* The doPatch() at hand has failed, which the loop is about to note.
Failing == job.phase \in {"clean", "return"} /\ ~job.ret

\* Auto-apply activates, and what it has been through without a failure is whole.
LoopInv ==
  job.kind = "applyAll" =>
    /\ job.undo = {} /\ (job.phase # "next" => job.apply)
    /\ job.ok /\ ~Failing =>
         \A q \in applied \ job.redo : Whole(q) \/ (job.phase # "next" /\ q = job.patch)

\* What starts an auto-apply run, or takes its result.
LEMMA HandlersOfTheLoop ==
  ASSUME TypeInv, [Next]_vars, job'.kind = "applyAll", ~Scripts, ~Running
  PROVE  \/ job' = Job("applyAll", {}, applied) /\ applied' = applied
         \/ UNCHANGED <<job, applied>> /\ Untouched
<1>1. NoJob.kind = "none"
  BY NoJobKind
<1>2. CASE Method \/ Queued \/ Signal
  <2>1. job = NoJob
    BY <1>2 DEF Method, ApplyPatch, UnapplyPatch, UninstallPatch, UnapplyAllPatches,
       RestorePatchList, ResolveFailure, LoadRequestApply, LoadRequestUnapply, PutOrder,
       PutApplyOnBoot, Call, Queued, DoRefreshPatchList, DoPatchHandler, DoApplyAllPatches,
       DoStartLocalServer, DoUninstallPatch, DoRegisterDBus, ServerFinished, Handles, Signal,
       OnOriginalFileChanged, OnContentChanged, OnFailureOccured, OnLipstickFailed,
       OnArchiveDownloaded, Idle
  <2>2. job' # job
    BY <1>1, <2>1
  <2>3. ASSUME NEW p \in Patches, NEW apply \in BOOLEAN PROVE ~DoPatchHandler(p, apply)
    BY DEF DoPatchHandler, Begin, Job
  <2>4. ASSUME NEW f \in Files PROVE ~OnOriginalFileChanged(f)
    BY <2>2 DEF OnOriginalFileChanged, Job
  <2>5. DoApplyAllPatches
    BY <1>2, <2>2, <2>3, <2>4 DEF Method, ApplyPatch, UnapplyPatch, UninstallPatch,
       UnapplyAllPatches, RestorePatchList, ResolveFailure, LoadRequestApply, LoadRequestUnapply,
       PutOrder, PutApplyOnBoot, Queued, DoRefreshPatchList, DoStartLocalServer,
       DoUninstallPatch, DoRegisterDBus, ServerFinished, Signal, OnContentChanged,
       OnFailureOccured, OnLipstickFailed, OnArchiveDownloaded
  <2> QED
    BY <2>5 DEF DoApplyAllPatches
<1>3. CASE ServerThread \/ Start
  BY <1>3 DEF ServerThread, ServerListens, ServerThreadFinishes, ServerThreadEnds, Start,
     Untouched, device, tmpfs
<1>4. CASE Surroundings
  <2>1. ~Crash /\ ~Reboot
    BY <1>1 DEF Crash, Reboot, ProcessEnds
  <2>2. UNCHANGED <<job, applied, cache, link, backup>>
    BY <1>4, <2>1 DEF Surroundings, OriginalUpdated, OriginalRemoved, PackageMakesDirectory,
       PackageWritesDiff, PackageErased, tmpfs
  <2>3. Untouched \/ orig' = orig
    BY StepsOfTheCache DEF Emptied
  <2> QED
    BY <2>2, <2>3 DEF Untouched
<1>5. CASE UNCHANGED vars
  BY <1>5 DEF vars, Untouched
<1> QED
  BY <1>2, <1>3, <1>4, <1>5 DEF Next, MainThread

\* Every step keeps it.
LEMMA LoopStep ==
  ASSUME PatchesStay, PatchInv, LoopInv, [Next]_vars
  PROVE  LoopInv'
<1> USE DEF PatchInv
<1> SUFFICES ASSUME job'.kind = "applyAll" PROVE LoopInv'
  BY DEF LoopInv
<1>1. job \in Jobs /\ applied \subseteq Patches
  BY DEF TypeInv, TypeOK
<1>2. ASSUME job' = Job("applyAll", {}, applied), applied' = applied PROVE LoopInv'
  BY <1>2 DEF LoopInv, Job
<1>3. CASE ~Scripts /\ ~Running
  <2>1. CASE UNCHANGED <<job, applied>> /\ Untouched
    <3>1. \A q \in Patches : Whole(q) => Whole(q)'
      BY <2>1, WholeUnharmed
    <3> QED
      BY <1>1, <2>1, <3>1 DEF LoopInv, Failing
  <2> QED
    BY <1>2, <1>3, <2>1, HandlersOfTheLoop
<1>4. CASE Prepare \/ PmApply
  <2>1. /\ SameDoPatch /\ applied' = applied /\ job.phase \in {"prepare", "script"}
        /\ job'.phase # "next"
    BY <1>4, PrepareFacts, PmApplyFacts
  <2>2. \A q \in Patches : Whole(q) => Whole(q)'
    BY <1>4, WholeUnharmed
  <2> QED
    BY <1>1, <2>1, <2>2 DEF LoopInv, SameDoPatch, Failing
<1>5. CASE PmUnapply
  <2>1. SameDoPatch /\ job.phase = "script" /\ ~job.apply
    BY <1>5, PmUnapplyFacts
  <2> QED
    BY <2>1 DEF LoopInv, SameDoPatch
<1>6. CASE Clean
  <2>1. /\ SameDoPatch /\ job.phase = "clean" /\ job'.phase = "return" /\ job'.ret = job.ret
        /\ applied' = applied
    BY <1>6, CleanFacts
  <2>2. job.apply /\ ~job.ret
    BY <2>1 DEF LoopInv, ScriptInv, SameDoPatch
  <2> QED
    BY <2>1, <2>2 DEF LoopInv, SameDoPatch, Failing
<1>7. CASE ApplyAllResult \/ OriginalChangedResult
  <2>1. /\ job.phase = "return" /\ job' = [job EXCEPT !.phase = "next", !.ok = @ /\ job.ret]
        /\ Untouched
    BY <1>7 DEF ApplyAllResult, OriginalChangedResult, At, Untouched, device, tmpfs
  <2>2. /\ job'.phase = "next" /\ job'.kind = job.kind /\ job'.undo = job.undo
        /\ job'.redo = job.redo /\ (job'.ok => job.ok /\ job.ret)
    BY <1>1, <2>1 DEF Jobs
  <2>3. ASSUME job'.ok, NEW q \in applied' \ job'.redo PROVE Whole(q)'
    <3>1. job.ret /\ job.ok /\ job.apply /\ applied' = applied
      BY <1>7, <2>1, <2>2, <2>3 DEF LoopInv, ApplyAllResult, OriginalChangedResult
    <3>2. Whole(q)
      BY <2>1, <2>2, <2>3, <3>1 DEF LoopInv, ScriptInv, Failing
    <3> QED
      BY <1>1, <2>1, <2>3, <3>1, <3>2, WholeUnharmed
  <2> QED
    BY <2>2, <2>3 DEF LoopInv
<1>8. CASE NextToApply \/ NextToUnapply
  <2>1. /\ job.phase = "next" /\ applied' = applied /\ Untouched
        /\ \/ \E p \in job.redo : job' = Begin([job EXCEPT !.redo = @ \ {p}], p, TRUE)
           \/ \E p \in job.undo : job' = Begin([job EXCEPT !.undo = @ \ {p}], p, FALSE)
    BY <1>8 DEF NextToApply, NextToUnapply, At, FirstListed, LastListed, FirstInDir, Untouched,
       device, tmpfs
  <2>2. /\ job'.kind = job.kind /\ job'.ok = job.ok /\ job'.phase # "next"
        /\ \/ \E p \in job.redo : /\ job'.undo = job.undo /\ job'.redo = job.redo \ {p}
                                  /\ job'.patch = p /\ job'.apply
           \/ job.undo # {}
    BY <1>1, <2>1 DEF Begin, Jobs
  <2>3. \A q \in Patches : Whole(q) => Whole(q)'
    BY <2>1, WholeUnharmed
  <2> QED
    BY <1>1, <2>1, <2>2, <2>3 DEF LoopInv, Failing
<1>9. CASE EndDoPatch \/ EndApplyAll \/ EndOriginalChanged
  <2>1. job' = NoJob \/ (job' = Job("applyAll", {}, applied) /\ applied' = applied)
    BY <1>9 DEF EndDoPatch, EndApplyAll, EndOriginalChanged
  <2> QED
    BY <1>2, <2>1, NoJobKind
<1> QED
  BY <1>3, <1>4, <1>5, <1>6, <1>7, <1>8, <1>9 DEF Running, Scripts

\* What doApplyAllPatches() remembers as the working set is in effect, even when
\* patches clash, build on each other, fail or were dropped on the way, and
\* whatever was restored before.
THEOREM WorkingSetIsInEffect ==
  ASSUME PatchesStay
  PROVE  Spec => WorkingSetWasInEffect
<1>1. Init => LoopInv
  BY NoJobKind DEF Init, LoopInv
<1>2. PatchInv /\ LoopInv /\ [Next]_vars => LoopInv'
  BY LoopStep
<1>3. PatchInv /\ LoopInv /\ [Next]_vars
        => [working' # working => \A p \in working' : InEffect(p)]_vars
  <2> SUFFICES ASSUME PatchInv, LoopInv, [Next]_vars, working' # working, NEW p \in working'
               PROVE  InEffect(p)
    OBVIOUS
  <2>1. EndApplyAll /\ job.ok
    BY DEF Next, MainThread, Method, ApplyPatch, UnapplyPatch, UninstallPatch, UnapplyAllPatches,
       RestorePatchList, ResolveFailure, LoadRequestApply, LoadRequestUnapply, PutOrder,
       PutApplyOnBoot, Queued, DoRefreshPatchList, DoPatchHandler, DoApplyAllPatches,
       DoStartLocalServer, DoUninstallPatch, DoRegisterDBus, ServerFinished, Running, Prepare,
       PmApply, PmUnapply, Clean, ScriptExits, EndDoPatch, ApplyAllResult, OriginalChangedResult,
       NextToApply, NextToUnapply, EndApplyAll, EndOriginalChanged, Signal, OnOriginalFileChanged,
       OnContentChanged, OnFailureOccured, OnLipstickFailed, OnArchiveDownloaded, ServerThread,
       ServerListens, ServerThreadFinishes, ServerThreadEnds, Surroundings, OriginalUpdated,
       OriginalRemoved, PackageMakesDirectory, PackageWritesDiff, PackageErased, Crash, Reboot,
       Start, settings, vars
  <2>2. /\ job.kind = "applyAll" /\ job.phase = "next" /\ job.redo = {} /\ working' = applied
        /\ applied \subseteq Patches
    BY <2>1 DEF EndApplyAll, At, PatchInv, TypeInv, TypeOK
  <2>3. Whole(p)
    BY <2>1, <2>2 DEF LoopInv, Failing
  <2> QED
    BY <2>2, <2>3, WholeInEffect DEF PatchInv, StoreInv
<1> QED
  BY <1>1, <1>2, <1>3, PatchInvariant, PTL DEF Spec, WorkingSetWasInEffect

---------------------------------------------------------------------------
(***************************************************************************)
(* Nothing else is served: the cache holds no change of a patch that is    *)
(* not enabled.  This needs a process that ends only with the device: one  *)
(* that crashes between the end of pm_apply and the saving of the settings *)
(* leaves changes nobody enabled (NoCrash).                                *)
(***************************************************************************)

\* Some change of diff d is in the cache.
IsIn(d) == \E f \in Files : Has(cache, f, d)

\* A diff is in all files it touches, or in none.
WhollyIn == \A d \in Diffs : IsIn(d) => \A f \in Touches(d) : Has(cache, f, d)

\* A diff in the cache is that of an applied patch, or of the one just activated.
Accounted ==
  \A d \in Diffs : IsIn(d) =>
      \/ PatchOf[d] \in applied
      \/ PatchOf[d] = job.patch /\ job.phase = "return" /\ job.ret /\ job.apply

\* When activation failed, or deactivation did not, nothing of the patch is left.
NothingLeft ==
  job.phase \in {"clean", "return"} /\ (job.apply <=> ~job.ret) /\ disk[job.patch] \in Diffs
    => ~IsIn(disk[job.patch])

\* The loops are over applied patches; the one to be applied is taken off the list.
LoopsOverApplied ==
  job.kind \in {"applyAll", "changed"} =>
    /\ job.redo \subseteq applied
    /\ job.phase # "next" => job.patch \in applied /\ (job.apply => job.patch \notin job.redo)

\* A new process believes nothing applied, and between handlers memory is not
\* ahead of the settings.
NotAhead == (~up => applied = {}) /\ (job.kind = "none" => applied \subseteq saved)

OnlyInv == WhollyIn /\ Accounted /\ NothingLeft /\ LoopsOverApplied /\ NotAhead

\* What is wholly in the cache can be reversed there.
LEMMA WhollyInReverses ==
  ASSUME IndependentDiffs, TypeInv, StoreInv, NEW p \in Patches, disk[p] \in Diffs,
         NEW f \in Touches(disk[p]), Has(cache, f, disk[p])
  PROVE  cache[f] # None /\ CanReverse(disk[p], f, cache[f])
<1> DEFINE d == disk[p]
<1>1. f \in Files /\ cache[f] # None /\ d \in cache[f].diffs /\ PatchOf[d] = p
  BY StoreAssumption DEF Has, Touches, StoreInv, OwnDiffs
<1>2. cache[f].diffs \subseteq Diffs
  BY <1>1 DEF TypeInv, TypeOK, Cache, Copy
<1>3. \A e \in cache[f].diffs : d \notin Needs[e]
  BY <1>2 DEF IndependentDiffs
<1>4. ASSUME f \in Creates[d], NEW e \in cache[f].diffs PROVE e = d
  <2>1. f \in Touches(e) /\ disk[PatchOf[e]] = e /\ e \in Diffs
    BY <1>1, <1>2, <1>4 DEF Has, StoreInv, OwnChanges
  <2>2. PatchOf[e] = PatchOf[d]
    BY <1>4, <2>1 DEF IndependentDiffs
  <2> QED
    BY <1>1, <2>1, <2>2
<1> QED
  BY <1>1, <1>3, <1>4 DEF CanReverse

\* doPrepareCache and the scripts.
LEMMA ScriptsOnly ==
  ASSUME Settled, PatchInv, WhollyIn, Accounted, NothingLeft, [Next]_vars, Scripts
  PROVE  WhollyIn' /\ Accounted' /\ NothingLeft'
<1> USE DEF Settled, PatchInv
<1> DEFINE p == job.patch
           d == disk[p]
<1>1. /\ SameDoPatch /\ p \in Patches /\ applied' = applied /\ disk' = disk
      /\ up /\ job.kind # "none" /\ job.phase # "return"
  BY PrepareFacts, PmApplyFacts, PmUnapplyFacts, CleanFacts DEF Scripts
<1>2. cache \in Cache /\ orig \in [Files -> 0 .. MaxVersion]
  BY DEF TypeInv, TypeOK
<1>3. \A e \in Diffs : IsIn(e) => PatchOf[e] \in applied
  BY <1>1 DEF Accounted
<1>4. \A e \in Diffs : Touches(e) \subseteq Files
  BY StoreAssumption DEF Touches
<1>5. ASSUME \A f \in Files, e \in Diffs : Has(cache', f, e) <=> Has(cache, f, e)
      PROVE  WhollyIn' /\ Accounted' /\ \A e \in Diffs : IsIn(e)' => IsIn(e)
  BY <1>1, <1>3, <1>4, <1>5 DEF WhollyIn, Accounted, IsIn
<1>6. CASE Prepare
  <2>1. \A f \in Files, e \in Diffs : Has(cache', f, e) <=> Has(cache, f, e)
    BY <1>2, <1>6, PrepareFacts, FilledCacheHas
  <2>2. job'.phase = "script"
    BY <1>6, PrepareFacts
  <2> QED
    BY <1>5, <2>1, <2>2 DEF NothingLeft
<1>7. CASE PmApply
  <2>1. CASE ~job'.ret
    <3>1. cache' = cache /\ (d \in Diffs => ~TestIfApplied(d, cache))
      BY <1>7, <2>1, PmApplyFacts
    <3>2. d \in Diffs => ~IsIn(d)
      BY <1>1, <3>1, WhollyInReverses DEF WhollyIn, TestIfApplied
    <3>3. WhollyIn' /\ Accounted' /\ \A e \in Diffs : IsIn(e)' => IsIn(e)
      BY <1>5, <3>1
    <3> QED
      BY <1>1, <3>2, <3>3 DEF NothingLeft, SameDoPatch
  <2>2. CASE job'.ret
    <3>1. job'.apply /\ job'.phase = "return" /\ d \in Diffs
      BY <1>7, <2>2, PmApplyFacts DEF SameDoPatch
    <3>2. NothingLeft'
      BY <2>2, <3>1 DEF NothingLeft
    <3>3. CASE cache' = cache
      BY <1>5, <3>2, <3>3
    <3>4. CASE VerifyTextPatch(d, cache) /\ cache' = InstallTextPatch(d, cache)
      <4>1. \A f \in Files, e \in Diffs :
               Has(cache', f, e) <=> Has(cache, f, e) \/ (e = d /\ f \in Touches(d))
        BY <1>2, <3>1, <3>4, InstallTextPatchHas
      <4>2. PatchOf[d] = job'.patch
        BY <1>1, <3>1 DEF StoreInv, OwnDiffs, SameDoPatch
      <4>3. \A e \in Diffs : IsIn(e)' => IsIn(e) \/ e = d
        BY <4>1 DEF IsIn
      <4>4. WhollyIn'
        BY <1>4, <4>1, <4>3 DEF WhollyIn
      <4>5. Accounted'
        BY <1>1, <1>3, <2>2, <3>1, <4>2, <4>3 DEF Accounted
      <4> QED
        BY <3>2, <4>4, <4>5
    <3> QED
      BY <1>7, <2>2, <3>3, <3>4, PmApplyFacts
  <2> QED
    BY <2>1, <2>2
<1>8. CASE PmUnapply
  <2> DEFINE b == IF backup[p] # None THEN backup[p] ELSE disk[p]
  <2>1. CASE job'.ret
    <3>1. b \in Diffs /\ cache' = RemoveTextPatch(b, cache)
      BY <1>8, <2>1, PmUnapplyFacts
    <3>2. b = d /\ PatchOf[d] = p
      BY <1>1, <3>1, UnappliedDiff DEF StoreInv
    <3> HIDE DEF b
    <3>3. \A f \in Files, e \in Diffs : e # d => (Has(cache', f, e) <=> Has(cache, f, e))
      BY <1>2, <3>1, <3>2, RemoveTextPatchHas
    <3>4. ASSUME NEW f \in Files, Has(cache', f, d) PROVE FALSE
      <4>1. Has(cache, f, d)
        BY <1>2, <3>1, <3>2, <3>4, RemoveTextPatchHas
      <4>2. f \in Touches(d)
        BY <3>1, <3>2, <4>1 DEF StoreInv, OwnChanges
      <4>3. CanReverse(d, f, cache[f])
        BY <1>1, <3>1, <3>2, <4>1, <4>2, WhollyInReverses
      <4> QED
        BY <1>2, <3>1, <3>2, <3>4, <4>2, <4>3, RemoveTextPatchHas
    <3>5. ~IsIn(d)' /\ \A e \in Diffs : IsIn(e)' => IsIn(e) /\ e # d
      BY <1>1, <3>3, <3>4 DEF IsIn, SameDoPatch
    <3>6. WhollyIn'
      BY <1>4, <3>3, <3>5 DEF WhollyIn
    <3> QED
      BY <1>1, <1>3, <3>5, <3>6 DEF Accounted, NothingLeft, SameDoPatch
  <2>2. CASE ~job'.ret
    <3>1. cache' = cache /\ ~job'.apply
      BY <1>8, <2>2, PmUnapplyFacts DEF SameDoPatch
    <3> QED
      BY <1>5, <2>2, <3>1 DEF NothingLeft
  <2> QED
    BY <2>1, <2>2
<1>9. CASE Clean
  <2>1. /\ known = Installed /\ job.phase = "clean" /\ job'.phase = "return" /\ job'.ret = job.ret
        /\ cache' = ClearedCache(KnownFiles(p), SharedWith(p), cache)
    BY <1>9, CleanFacts, HandlerKnows
  <2>2. d \in Diffs => ~IsIn(d)
    BY <2>1 DEF NothingLeft, ScriptInv
  <2>3. ASSUME NEW f \in Files, NEW e \in Diffs, Has(cache, f, e)
        PROVE  ~(f \in KnownFiles(p) \ SharedWith(p))
    <3>1. f \in Touches(e) /\ disk[PatchOf[e]] = e /\ PatchOf[e] \in Patches
      BY <2>3, StoreAssumption DEF StoreInv, OwnChanges
    <3>2. f \in KnownFiles(PatchOf[e])
      BY <2>1, <3>1, KnownFilesOf
    <3>3. PatchOf[e] # p
      BY <2>2, <2>3, <3>1 DEF IsIn
    <3> QED
      BY <3>1, <3>2, <3>3 DEF SharedWith
  <2>4. ASSUME NEW f \in Files, NEW e \in Diffs PROVE Has(cache', f, e) <=> Has(cache, f, e)
    BY <2>1, <2>3, ClearedCacheHas
  <2>5. WhollyIn' /\ Accounted' /\ \A e \in Diffs : IsIn(e)' => IsIn(e)
    BY <1>5, <2>4
  <2> QED
    BY <1>1, <2>2, <2>5 DEF NothingLeft, SameDoPatch
<1> QED
  BY <1>6, <1>7, <1>8, <1>9 DEF Scripts

\* Outside the scripts, the applied set only grows, unless a handler ends with a
\* result or everything is deactivated; and a result is not taken twice.
LEMMA StepsOfTheSet ==
  ASSUME Settled, NoCrash, PatchInv, NotAhead, [Next]_vars, ~Scripts
  PROVE  \/ Emptied
         \/ EndDoPatch \/ ApplyAllResult \/ OriginalChangedResult
         \/ Untouched /\ applied \subseteq applied' /\ (job.phase # "return" \/ job' = job)
<1> USE DEF Settled, PatchInv
<1>1. NoJob.phase = "next"
  BY DEF NoJob, Job
<1>2. ASSUME ~Emptied PROVE Untouched
  BY <1>2, StepsOfTheCache
<1>3. CASE Method
  <2>1. ~Emptied => applied' = applied /\ job' = job
    BY <1>3 DEF Method, ApplyPatch, UnapplyPatch, UninstallPatch, UnapplyAllPatches, Emptied,
       RestorePatchList, NothingRestored, ResolveFailure, LoadRequestApply, LoadRequestUnapply,
       PutOrder, PutApplyOnBoot, UnapplyAll, Call, device
  <2> QED
    BY <1>2, <2>1
<1>4. CASE Queued
  <2>1. job.phase # "return" /\ job.kind = "none"
    BY <1>1, <1>4, NoJobKind DEF Queued, DoRefreshPatchList, DoPatchHandler, DoApplyAllPatches,
       DoStartLocalServer, DoUninstallPatch, DoRegisterDBus, ServerFinished, Handles, Idle
  <2>2. applied' = applied \/ applied' = saved
    BY <1>4 DEF Queued, DoRefreshPatchList, DoPatchHandler, DoApplyAllPatches,
       DoStartLocalServer, DoUninstallPatch, DoRegisterDBus, ServerFinished
  <2> QED
    BY <1>2, <2>1, <2>2 DEF NotAhead
<1>5. CASE Running
  <2>1. CASE NextToApply \/ NextToUnapply \/ EndApplyAll \/ EndOriginalChanged
    <3>1. applied' = applied /\ job.phase = "next"
      BY <2>1 DEF NextToApply, NextToUnapply, EndApplyAll, EndOriginalChanged, At
    <3> QED
      BY <1>2, <3>1
  <2> QED
    BY <1>5, <2>1 DEF Running, Scripts
<1>6. CASE Signal
  <2>1. job.phase # "return"
    BY <1>1, <1>6 DEF Signal, OnOriginalFileChanged, OnContentChanged, OnFailureOccured,
       OnLipstickFailed, OnArchiveDownloaded, Idle
  <2>2. Emptied \/ applied' = applied
    BY <1>6 DEF Signal, OnOriginalFileChanged, OnContentChanged, OnFailureOccured, Emptied,
       OnLipstickFailed, OnArchiveDownloaded, UnapplyAll, device
  <2> QED
    BY <1>2, <2>1, <2>2
<1>7. CASE ServerThread \/ Start \/ (Surroundings /\ ~Crash /\ ~Reboot)
  <2>1. applied' = applied /\ job' = job
    BY <1>7 DEF ServerThread, ServerListens, ServerThreadFinishes, ServerThreadEnds, Start,
       Surroundings, OriginalUpdated, OriginalRemoved, PackageMakesDirectory, PackageWritesDiff,
       PackageErased
  <2> QED
    BY <1>2, <2>1
<1>8. CASE Crash \/ Reboot
  BY <1>8 DEF NoCrash, Crash, Reboot, Emptied, device
<1>9. CASE UNCHANGED vars
  BY <1>2, <1>9 DEF vars
<1> QED
  BY <1>3, <1>4, <1>5, <1>6, <1>7, <1>8, <1>9 DEF Next, MainThread

\* Every step accounts for what is in the cache.
LEMMA AccountedStep ==
  ASSUME Settled, NoCrash, PatchInv, EffectInv, OnlyInv, [Next]_vars
  PROVE  WhollyIn' /\ Accounted' /\ NothingLeft'
<1> USE DEF Settled, PatchInv, OnlyInv
<1>1. CASE Scripts
  BY <1>1, ScriptsOnly
<1>2. CASE Emptied
  <2>1. \A e \in Diffs : ~IsIn(e)'
    BY <1>2, EmptyCacheHas DEF Emptied, IsIn
  <2> QED
    BY <2>1 DEF WhollyIn, Accounted, NothingLeft
<1>3. CASE ~Scripts /\ Untouched
  <2>1. cache' = cache /\ disk' = disk
    BY <1>3, DirectoriesStay DEF Untouched
  <2>2. WhollyIn' /\ \A e \in Diffs : IsIn(e)' <=> IsIn(e)
    BY <2>1 DEF WhollyIn, IsIn
  <2>3. NothingLeft'
    <3> SUFFICES ASSUME job'.phase \in {"clean", "return"} PROVE NothingLeft'
      BY DEF NothingLeft
    <3>1. job' = job
      BY <1>3, ScriptUndisturbed
    <3> QED
      BY <2>1, <2>2, <3>1 DEF NothingLeft
  <2>4. Accounted'
    <3> SUFFICES ASSUME NEW e \in Diffs, IsIn(e)
                 PROVE  \/ PatchOf[e] \in applied'
                        \/ PatchOf[e] = job'.patch /\ job'.phase = "return" /\ job'.ret /\ job'.apply
      BY <2>2 DEF Accounted
    <3> DEFINE p == job.patch
    <3>1. \/ PatchOf[e] \in applied
          \/ PatchOf[e] = p /\ job.phase = "return" /\ job.ret /\ job.apply
      BY DEF Accounted
    <3>2. disk[PatchOf[e]] = e
      BY DEF StoreInv, OwnChanges, IsIn
    <3>3. CASE EndDoPatch
      <4>1. /\ job.phase = "return" /\ job.apply \in BOOLEAN /\ job.ret \in BOOLEAN
            /\ applied' = IF job.ret THEN IF job.apply THEN applied \union {p} ELSE applied \ {p}
                          ELSE applied
        BY <3>3 DEF EndDoPatch, At, TypeInv, TypeOK, Jobs
      <4>2. job.ret /\ ~job.apply => PatchOf[e] # p
        BY <3>2, <4>1 DEF NothingLeft
      <4> QED
        BY <3>1, <4>1, <4>2
    <3>4. CASE ApplyAllResult \/ OriginalChangedResult
      <4>1. /\ job.kind \in {"applyAll", "changed"} /\ job.phase = "return"
            /\ (job.kind = "applyAll" => job.apply) /\ p \in applied
        BY <3>4 DEF ApplyAllResult, OriginalChangedResult, At, EffectInv, DuringLoop, LoopsOverApplied
      <4>2. PatchOf[e] \in applied
        BY <3>1, <4>1
      <4>3. applied' = applied \/ (job.apply /\ ~job.ret /\ applied' = applied \ {p})
        BY <3>4, <4>1 DEF ApplyAllResult, OriginalChangedResult, At
      <4>4. job.apply /\ ~job.ret => PatchOf[e] # p
        BY <3>2, <4>1 DEF NothingLeft
      <4> QED
        BY <4>2, <4>3, <4>4
    <3>5. CASE applied \subseteq applied' /\ (job.phase # "return" \/ job' = job)
      BY <3>1, <3>5
    <3>6. CASE Emptied
      BY <2>1, <3>6, EmptyCacheHas DEF Emptied, IsIn
    <3> QED
      BY <1>3, <3>3, <3>4, <3>5, <3>6, StepsOfTheSet
  <2> QED
    BY <2>2, <2>3, <2>4
<1> QED
  BY <1>1, <1>2, <1>3, StepsOfTheCache

\* The loops stay over patches that are applied.
LEMMA LoopsStep ==
  ASSUME Settled, PatchInv, EffectInv, OnlyInv, [Next]_vars
  PROVE  LoopsOverApplied'
<1> USE DEF Settled, PatchInv, OnlyInv
<1>1. NoJob.kind = "none" /\ job \in Jobs /\ applied \subseteq Patches
  BY NoJobKind DEF TypeInv, TypeOK
<1>2. ASSUME UNCHANGED <<job, applied>> PROVE LoopsOverApplied'
  BY <1>2 DEF LoopsOverApplied
<1>3. ASSUME job' = NoJob PROVE LoopsOverApplied'
  BY <1>1, <1>3 DEF LoopsOverApplied
<1>4. ASSUME NEW kind, NEW undo, NEW redo \in SUBSET applied, job' = Job(kind, undo, redo),
             applied' = applied
      PROVE  LoopsOverApplied'
  BY <1>4 DEF LoopsOverApplied, Job
<1>5. CASE Scripts
  <2>1. SameDoPatch /\ applied' = applied /\ job.phase # "next"
    BY <1>5, PrepareFacts, PmApplyFacts, PmUnapplyFacts, CleanFacts DEF Scripts
  <2> QED
    BY <2>1 DEF LoopsOverApplied, SameDoPatch
<1>6. CASE ApplyAllResult \/ OriginalChangedResult
  <2>1. /\ job.phase = "return" /\ job.kind \in {"applyAll", "changed"}
        /\ job' = [job EXCEPT !.phase = "next", !.ok = @ /\ job.ret]
        /\ (applied' = applied \/ (job.kind = "applyAll" /\ applied' = applied \ {job.patch}))
    BY <1>6 DEF ApplyAllResult, OriginalChangedResult, At
  <2>2. job'.phase = "next" /\ job'.redo = job.redo
    BY <1>1, <2>1 DEF Jobs
  <2>3. job.redo \subseteq applied /\ (job.apply => job.patch \notin job.redo)
        /\ (job.kind = "applyAll" => job.apply)
    BY <2>1 DEF LoopsOverApplied, EffectInv, DuringLoop
  <2> QED
    BY <2>1, <2>2, <2>3 DEF LoopsOverApplied
<1>7. CASE NextToApply \/ NextToUnapply
  <2>1. applied' = applied /\ job.phase = "next"
    BY <1>7 DEF NextToApply, NextToUnapply, At
  <2>2. \/ \E p \in job.redo : job' = Begin([job EXCEPT !.redo = @ \ {p}], p, TRUE)
        \/ \E p \in job.undo : job' = Begin([job EXCEPT !.undo = @ \ {p}], p, FALSE)
    BY <1>7 DEF NextToApply, NextToUnapply, FirstListed, LastListed, FirstInDir
  <2>3. job'.kind = job.kind
        /\ \/ \E p \in job.redo : job'.redo = job.redo \ {p} /\ job'.patch = p
           \/ \E p \in job.undo : job'.redo = job.redo /\ job'.patch = p /\ ~job'.apply
    BY <1>1, <2>2 DEF Begin, Jobs
  <2>4. job.kind \in {"applyAll", "changed"} => job.undo \subseteq job.redo /\ job.redo \subseteq applied
    BY DEF EffectInv, DuringLoop, LoopsOverApplied
  <2> QED
    BY <2>1, <2>3, <2>4 DEF LoopsOverApplied
<1>8. CASE EndDoPatch \/ EndApplyAll \/ EndOriginalChanged
  <2>1. job' = NoJob \/ (job' = Job("applyAll", {}, applied) /\ applied' = applied)
    BY <1>8 DEF EndDoPatch, EndApplyAll, EndOriginalChanged
  <2> QED
    BY <1>3, <1>4, <2>1
<1>9. CASE Method \/ Queued \/ Signal
  <2>1. job = NoJob
    BY <1>9 DEF Method, ApplyPatch, UnapplyPatch, UninstallPatch, UnapplyAllPatches,
       RestorePatchList, ResolveFailure, LoadRequestApply, LoadRequestUnapply, PutOrder,
       PutApplyOnBoot, Call, Queued, DoRefreshPatchList, DoPatchHandler, DoApplyAllPatches,
       DoStartLocalServer, DoUninstallPatch, DoRegisterDBus, ServerFinished, Handles, Signal,
       OnOriginalFileChanged, OnContentChanged, OnFailureOccured, OnLipstickFailed,
       OnArchiveDownloaded, Idle
  <2>2. CASE job' = job
    BY <1>3, <2>1, <2>2
  <2>3. ASSUME NEW p \in Patches, NEW apply \in BOOLEAN, DoPatchHandler(p, apply)
        PROVE  LoopsOverApplied'
    <3>1. job'.kind = "patch"
      BY <2>3 DEF DoPatchHandler, Begin, Job
    <3> QED
      BY <3>1 DEF LoopsOverApplied
  <2>4. CASE DoApplyAllPatches
    BY <1>4, <2>4 DEF DoApplyAllPatches
  <2>5. ASSUME NEW f \in Files, OnOriginalFileChanged(f) PROVE LoopsOverApplied'
    <3> DEFINE patches == {p \in applied : f \in KnownFiles(p)}
    <3>1. applied' = applied /\ (job' = job \/ job' = Job("changed", patches, patches))
      BY <2>5 DEF OnOriginalFileChanged
    <3>2. patches \in SUBSET applied
      OBVIOUS
    <3> HIDE DEF patches
    <3> QED
      BY <1>4, <2>2, <3>1, <3>2
  <2>6. \/ job' = job \/ DoApplyAllPatches
        \/ \E p \in Patches, apply \in BOOLEAN : DoPatchHandler(p, apply)
        \/ \E f \in Files : OnOriginalFileChanged(f)
    BY <1>9 DEF Method, ApplyPatch, UnapplyPatch, UninstallPatch, UnapplyAllPatches,
       RestorePatchList, ResolveFailure, LoadRequestApply, LoadRequestUnapply, PutOrder,
       PutApplyOnBoot, Queued, DoRefreshPatchList, DoStartLocalServer, DoUninstallPatch,
       DoRegisterDBus, ServerFinished, Signal, OnContentChanged, OnFailureOccured,
       OnLipstickFailed, OnArchiveDownloaded
  <2> QED
    BY <2>2, <2>3, <2>4, <2>5, <2>6
<1>10. CASE ServerThread \/ Start \/ (Surroundings /\ ~Crash /\ ~Reboot)
  <2>1. applied' = applied /\ job' = job
    BY <1>10 DEF ServerThread, ServerListens, ServerThreadFinishes, ServerThreadEnds, Start,
       Surroundings, OriginalUpdated, OriginalRemoved, PackageMakesDirectory, PackageWritesDiff,
       PackageErased
  <2> QED
    BY <1>2, <2>1
<1>11. CASE Crash \/ Reboot
  BY <1>3, <1>11 DEF Crash, Reboot, ProcessEnds
<1>12. CASE UNCHANGED vars
  BY <1>2, <1>12 DEF vars
<1> QED
  BY <1>5, <1>6, <1>7, <1>8, <1>9, <1>10, <1>11, <1>12 DEF Next, MainThread, Running, Scripts

\* Memory is not ahead of the settings, in handlers as between them.
LEMMA NotAheadStep ==
  ASSUME SettingsInv, OnlyInv, [Next]_vars
  PROVE  NotAhead'
<1>1. applied \subseteq saved
  BY NoJobKind DEF OnlyInv, NotAhead, SettingsInv, Down, AwaitsRefresh, DroppedOnly
<1>2. ASSUME up' = up, applied' = applied, saved' = saved PROVE NotAhead'
  BY <1>1, <1>2 DEF OnlyInv, NotAhead
<1>3. ASSUME up, up' = up, applied' \subseteq saved' PROVE NotAhead'
  BY <1>3 DEF NotAhead
<1>4. CASE Method
  <2>1. up /\ up' = up
    BY <1>4 DEF Method, ApplyPatch, UnapplyPatch, UninstallPatch, UnapplyAllPatches,
       RestorePatchList, ResolveFailure, LoadRequestApply, LoadRequestUnapply, PutOrder,
       PutApplyOnBoot, Call, Idle
  <2>2. UNCHANGED <<applied, saved>> \/ applied' = saved'
    BY <1>4 DEF Method, ApplyPatch, UnapplyPatch, UninstallPatch, UnapplyAllPatches,
       RestorePatchList, ResolveFailure, LoadRequestApply, LoadRequestUnapply, PutOrder,
       PutApplyOnBoot, UnapplyAll, settings
  <2> QED
    BY <1>1, <1>3, <2>1, <2>2
<1>5. CASE Queued
  <2>1. up /\ up' = up /\ (applied' = applied \/ applied' = saved) /\ saved' = saved
    BY <1>5 DEF Queued, DoRefreshPatchList, DoPatchHandler, DoApplyAllPatches,
       DoStartLocalServer, DoUninstallPatch, DoRegisterDBus, ServerFinished, Handles, Idle, settings
  <2> QED
    BY <1>1, <1>3, <2>1
<1>6. CASE Running
  <2>1. up /\ up' = up
    BY <1>6 DEF Running, Prepare, PmApply, PmUnapply, Clean, ScriptExits, EndDoPatch,
       ApplyAllResult, OriginalChangedResult, NextToApply, NextToUnapply, EndApplyAll,
       EndOriginalChanged, At
  <2>2. applied' = saved' \/ (applied' \subseteq applied /\ saved' = saved)
    BY <1>6 DEF Running, Prepare, PmApply, PmUnapply, Clean, ScriptExits, EndDoPatch,
       ApplyAllResult, OriginalChangedResult, NextToApply, NextToUnapply, EndApplyAll,
       EndOriginalChanged, settings
  <2> QED
    BY <1>1, <1>3, <2>1, <2>2
<1>7. CASE Signal
  <2>1. /\ up /\ up' = up
        /\ applied' = saved' \/ UNCHANGED <<applied, saved>>
    BY <1>7 DEF Signal, OnOriginalFileChanged, OnContentChanged, OnFailureOccured,
       OnLipstickFailed, OnArchiveDownloaded, UnapplyAll, Idle, settings
  <2> QED
    BY <1>1, <1>3, <2>1
<1>8. CASE Start
  BY <1>8 DEF Start, OnlyInv, NotAhead, settings
<1>9. CASE ServerThread \/ (Surroundings /\ ~Crash /\ ~Reboot) \/ UNCHANGED vars
  BY <1>2, <1>9 DEF ServerThread, ServerListens, ServerThreadFinishes, ServerThreadEnds,
     Surroundings, OriginalUpdated, OriginalRemoved, PackageMakesDirectory, PackageWritesDiff,
     PackageErased, settings, vars
<1>10. CASE Crash \/ Reboot
  BY <1>10 DEF Crash, Reboot, ProcessEnds, NotAhead
<1> QED
  BY <1>4, <1>5, <1>6, <1>7, <1>8, <1>9, <1>10 DEF Next, MainThread

\* The parts of the invariant, put together.
LEMMA OnlyInvariant ==
  ASSUME Settled, NoCrash
  PROVE  Spec => []OnlyInv
<1>1. Init => OnlyInv
  <2> SUFFICES ASSUME Init PROVE OnlyInv
    OBVIOUS
  <2>1. \A d \in Diffs : ~IsIn(d)
    BY EmptyCacheHas DEF Init, IsIn
  <2>2. job.kind = "none" /\ applied = {}
    BY DEF Init, NoJob, Job
  <2> QED
    BY <2>1, <2>2 DEF OnlyInv, WhollyIn, Accounted, NothingLeft, LoopsOverApplied, NotAhead
<1>2. PatchInv /\ EffectInv /\ OnlyInv /\ [Next]_vars => OnlyInv'
  <2> SUFFICES ASSUME PatchInv, EffectInv, OnlyInv, [Next]_vars PROVE OnlyInv'
    OBVIOUS
  <2>1. SettingsInv
    BY DEF PatchInv
  <2> QED
    BY <2>1, AccountedStep, LoopsStep, NotAheadStep DEF OnlyInv
<1> QED
  BY <1>1, <1>2, EffectInvariant, PTL DEF Spec

\* Between two handlers the cache holds no change of a patch that is not enabled:
\* what a failed activation, a deactivation, a dropped patch or a rebuilt cache
\* leaves behind is nothing, whichever patches edit the same files.
THEOREM OnlyEnabledIsServed ==
  ASSUME PatchesStay, NothingRestored, NoCrash, IndependentDiffs
  PROVE  Spec => []OnlyEnabledInCache
<1>1. PatchInv /\ OnlyInv => OnlyEnabledInCache
  <2> SUFFICES ASSUME PatchInv, OnlyInv, Idle, NEW f \in Files, cache[f] # None,
                      NEW d \in cache[f].diffs
               PROVE  PatchOf[d] \in applied
    BY DEF OnlyEnabledInCache
  <2>1. d \in Diffs
    BY DEF PatchInv, TypeInv, TypeOK, Cache, Copy
  <2>2. IsIn(d)
    BY DEF IsIn, Has
  <2>3. job.phase = "next"
    BY DEF Idle, NoJob, Job
  <2> QED
    BY <2>1, <2>2, <2>3 DEF OnlyInv, Accounted
<1>2. Settled
  BY DEF Settled
<1> QED
  BY <1>1, <1>2, EffectInvariant, OnlyInvariant, PTL

=============================================================================
