------------------------------ MODULE PatchDaemon ------------------------------
(***************************************************************************)
(* The main thread of the daemon (PatchManagerObject), the life of its     *)
(* server thread, and what surrounds them: D-Bus clients, the file system, *)
(* the package manager, the journal, crashes and reboots.                  *)
(*                                                                         *)
(* A handler that runs to its end without starting a script is one action. *)
(* doPatch(), which starts pm_apply or pm_unapply and waits for it, and    *)
(* the loops around it are several, so that the server thread, the file    *)
(* system and a crash can come between; the main thread does nothing else  *)
(* until the handler is done (job).  Calls through                         *)
(* QMetaObject::invokeMethod(..., Qt::QueuedConnection) wait in queue.     *)
(***************************************************************************)
EXTENDS PatchStore, Sequences

CONSTANTS
    Empty,      \* a patch directory that holds no unified_diff.patch
    DirRank,    \* the order in which QDir lists the patch directories
    Systems,    \* the originals a device can start with
    BootSettings, \* values settings/applyOnBoot can start with
    Orders,     \* lists that clients store in settings/order
    Inputs,     \* the kinds of calls and events the instance considers
    MaxQueue    \* bound: clients, packages and the network wait for a shorter queue

ASSUME DaemonAssumption ==
    /\ Empty \notin Diffs /\ Empty # None
    /\ DirRank \in [Patches -> Nat]
    /\ \A p, q \in Patches : DirRank[p] = DirRank[q] => p = q
    /\ Systems \subseteq [Files -> 0 .. MaxVersion]
    /\ BootSettings \subseteq BOOLEAN
    /\ Orders \subseteq Seq(Patches)
    /\ MaxQueue \in Nat

VARIABLES
    orig,        \* version of the original of each file, 0: there is none
    link,        \* is the real path a symbolic link into the cache?
    disk,        \* what PATCHES_DIR holds for each patch
    saved,       \* settings/applied
    working,     \* settings/workingPatches
    order,       \* settings/order
    applyOnBoot, \* settings/applyOnBoot
    cache,       \* /tmp/patchmanager
    backup,      \* PATCHES_ADDITIONAL_DIR: the diff pm_apply kept a copy of
    up,          \* the process runs
    registered,  \* m_dbusRegistered
    applied,     \* m_appliedPatches
    known,       \* m_patchFiles and m_fileToPatch, as the diff they come from
    failed,      \* m_failed
    watched,     \* paths of m_originalWatcher
    changed,     \* paths whose fileChanged() is not handled yet
    listed,      \* PATCHES_DIR changed and contentChanged() is not handled yet
    queue,       \* events posted to the main thread
    job,         \* the handler in progress
    thread,      \* m_serverThread
    listening    \* m_localServer listens

device == <<orig, link, disk>>
settings == <<saved, working, order, applyOnBoot>>
tmpfs == <<cache, backup>>
watches == <<watched, changed, listed>>
server == <<thread, listening>>
vars == <<orig, link, disk, saved, working, order, applyOnBoot, cache, backup, up,
          registered, applied, known, failed, watched, changed, listed, queue, job,
          thread, listening>>

---------------------------------------------------------------------------
(* Values. *)

Requests == [op : {"doPatch"}, patch : Patches, apply : BOOLEAN]
            \union [op : {"uninstall"}, patch : Patches]
            \union [op : {"refresh", "applyAll", "startServer", "registerDBus", "closeServer"}]

DoPatch(p, apply) == [op |-> "doPatch", patch |-> p, apply |-> apply]
Uninstall(p) == [op |-> "uninstall", patch |-> p]
Refresh == [op |-> "refresh"]
ApplyAll == [op |-> "applyAll"]
StartServer == [op |-> "startServer"]
RegisterDBus == [op |-> "registerDBus"]
CloseServer == [op |-> "closeServer"]

\* kind: the handler; undo, redo: patches its loops still have to unapply and
\* apply; patch, apply, ret: the doPatch() in progress; ok: the loops' success.
Jobs == [kind : {"none", "patch", "applyAll", "changed"},
         phase : {"next", "prepare", "script", "clean", "return"},
         undo : SUBSET Patches, redo : SUBSET Patches,
         patch : Patches \union {None}, apply : BOOLEAN, ret : BOOLEAN, ok : BOOLEAN]

Job(kind, undo, redo) ==
    [kind |-> kind, phase |-> "next", undo |-> undo, redo |-> redo,
     patch |-> None, apply |-> FALSE, ret |-> TRUE, ok |-> TRUE]
NoJob == Job("none", {}, {})

\* doPatch(p, apply) of the script begins; only activation prepares the cache.
Begin(j, p, apply) ==
    [j EXCEPT !.phase = IF apply THEN "prepare" ELSE "script", !.patch = p, !.apply = apply]

TypeOK ==
    /\ orig \in [Files -> 0 .. MaxVersion]
    /\ link \in [Files -> BOOLEAN]
    /\ disk \in [Patches -> Diffs \union {Empty, None}]
    /\ saved \in SUBSET Patches
    /\ working \in SUBSET Patches
    /\ order \in Seq(Patches)
    /\ applyOnBoot \in BOOLEAN
    /\ cache \in Cache
    /\ backup \in [Patches -> Diffs \union {None}]
    /\ up \in BOOLEAN
    /\ registered \in BOOLEAN
    /\ applied \in SUBSET Patches
    /\ known \in [Patches -> Diffs \union {None}]
    /\ failed \in BOOLEAN
    /\ watched \in SUBSET Files
    /\ changed \in SUBSET Files
    /\ listed \in BOOLEAN
    /\ queue \in Seq(Requests)
    /\ job \in Jobs
    /\ thread \in {"stopped", "starting", "running", "quitting", "finishing"}
    /\ listening \in BOOLEAN

---------------------------------------------------------------------------
(* Helpers. *)

Idle == up /\ job = NoJob

\* getLoaded(): m_serverThread->isRunning(), false from the moment the thread
\* begins to finish, which is before it emits finished().
Loaded == thread \notin {"stopped", "finishing"}

KnownFiles(p) == IF known[p] = None THEN {} ELSE Touches(known[p])
\* m_fileToPatch.value(f).length() > 1, seen from patch p.
SharedWith(p) == {f \in Files : \E q \in Patches \ {p} : f \in KnownFiles(q)}

Listed == {order[i] : i \in DOMAIN order}
Rank(p) == CHOOSE i \in DOMAIN order : order[i] = p
FirstListed(S) == {p \in S \intersect Listed : \A q \in S \intersect Listed : Rank(p) <= Rank(q)}
LastListed(S) == {p \in S \intersect Listed : \A q \in S \intersect Listed : Rank(q) <= Rank(p)}
FirstInDir(S) == {p \in S : \A q \in S : DirRank[p] <= DirRank[q]}

\* mutant: the copies in the cache are watched, not the originals.
DisturbedCopies(newCache) == {f \in watched : newCache[f] # cache[f]}

\* Files removed or rewritten in the cache that are watched through a link.
Disturbed(newCache) == {f \in watched : orig[f] = 0 /\ newCache[f] # cache[f]}

\* clearFakeroot() and the resetting of variables of unapplyAllPatches().
UnapplyAll ==
    /\ cache' = EmptyCache
    /\ backup' = [p \in Patches |-> None]
    /\ changed' = changed \union Disturbed(EmptyCache)
    /\ watched' = watched \ Disturbed(EmptyCache)
    /\ applied' = {}
    /\ saved' = {}

---------------------------------------------------------------------------
(* D-Bus methods.  They run in the main thread once it is registered. *)

Call(name) == name \in Inputs /\ Idle /\ registered /\ Len(queue) < MaxQueue

ApplyPatch(p) ==
    /\ Call("applyPatch")
    /\ queue' = Append(queue, DoPatch(p, TRUE))
    /\ UNCHANGED <<device, settings, tmpfs, up, registered, applied, known, failed, watches, job, server>>

\* A patch that is not applied is answered at once.
UnapplyPatch(p) ==
    /\ Call("unapplyPatch")
    /\ p \in applied
    /\ queue' = Append(queue, DoPatch(p, FALSE))
    /\ UNCHANGED <<device, settings, tmpfs, up, registered, applied, known, failed, watches, job, server>>

UnapplyAllPatches ==
    /\ Call("unapplyAllPatches")
    /\ UnapplyAll
    /\ queue' = Append(queue, Refresh)
    /\ UNCHANGED <<device, working, order, applyOnBoot, up, registered, known, failed, listed, job, server>>

UninstallPatch(p) ==
    /\ Call("uninstallPatch")
    /\ queue' = IF p \in applied THEN queue \o <<DoPatch(p, FALSE), Uninstall(p)>>
                ELSE Append(queue, Uninstall(p))
    /\ UNCHANGED <<device, settings, tmpfs, up, registered, applied, known, failed, watches, job, server>>

\* mutant: the restored set is not saved.
RestoreInMemory ==
    /\ Call("restorePatchList")
    /\ working # {}
    /\ applied' = working
    /\ queue' = Append(queue, Refresh)
    /\ UNCHANGED <<device, settings, tmpfs, up, registered, known, failed, watches, job, server>>

RestorePatchList ==
    /\ Call("restorePatchList")
    /\ working # {}
    /\ applied' = working
    /\ saved' = working
    /\ queue' = Append(queue, Refresh)
    /\ UNCHANGED <<device, working, order, applyOnBoot, tmpfs, up, registered, known, failed, watches, job, server>>

ResolveFailure ==
    /\ Call("resolveFailure")
    /\ failed
    /\ queue' = IF Loaded THEN queue ELSE Append(queue, StartServer)
    /\ failed' = FALSE
    /\ UNCHANGED <<device, settings, tmpfs, up, registered, applied, known, watches, job, server>>

LoadRequestApply ==
    /\ Call("loadRequest")
    /\ ~Loaded
    /\ queue' = queue \o <<ApplyAll, StartServer>>
    /\ UNCHANGED <<device, settings, tmpfs, up, registered, applied, known, failed, watches, job, server>>

LoadRequestUnapply ==
    /\ Call("loadRequest")
    /\ ~Loaded
    /\ UnapplyAll
    /\ queue' = queue \o <<Refresh, StartServer>>
    /\ UNCHANGED <<device, working, order, applyOnBoot, up, registered, known, failed, listed, job, server>>

PutOrder(o) ==
    /\ Call("order")
    /\ order' = o
    /\ UNCHANGED <<device, saved, working, applyOnBoot, tmpfs, up, registered, applied, known, failed, watches, queue, job, server>>

PutApplyOnBoot(b) ==
    /\ Call("applyOnBoot")
    /\ applyOnBoot' = b
    /\ UNCHANGED <<device, saved, working, order, tmpfs, up, registered, applied, known, failed, watches, queue, job, server>>

Method ==
    \/ \E p \in Patches : ApplyPatch(p) \/ UnapplyPatch(p) \/ UninstallPatch(p)
    \/ UnapplyAllPatches \/ RestorePatchList \/ ResolveFailure
    \/ LoadRequestApply \/ LoadRequestUnapply
    \/ \E o \in Orders : PutOrder(o)
    \/ \E b \in BOOLEAN : PutApplyOnBoot(b)

---------------------------------------------------------------------------
(* Handlers of queued events: the head of the queue, when nothing else runs. *)

Handles(request) == Idle /\ queue # <<>> /\ Head(queue) = request

\* mutant: an empty list is read back as a list of one empty name.
RefreshReadsEmptyName ==
    /\ Handles(Refresh)
    /\ applied' = IF saved = {} THEN {None} ELSE saved
    /\ known' = [p \in Patches |-> IF disk[p] \in Diffs THEN disk[p] ELSE None]
    /\ queue' = Tail(queue)
    /\ UNCHANGED <<device, settings, tmpfs, up, registered, failed, watches, job, server>>

DoRefreshPatchList ==
    /\ Handles(Refresh)
    /\ applied' = saved
    /\ known' = [p \in Patches |-> IF disk[p] \in Diffs THEN disk[p] ELSE None]
    /\ queue' = Tail(queue)
    /\ UNCHANGED <<device, settings, tmpfs, up, registered, failed, watches, job, server>>

DoPatchHandler(p, apply) ==
    /\ Handles(DoPatch(p, apply))
    /\ job' = Begin(Job("patch", {}, {}), p, apply)
    /\ queue' = Tail(queue)
    /\ UNCHANGED <<device, settings, tmpfs, up, registered, applied, known, failed, watches, server>>

\* mutant: the patches that are not in settings/order are forgotten.
ApplyListedPatches ==
    /\ Handles(ApplyAll)
    /\ job' = Job("applyAll", {}, applied \intersect Listed)
    /\ queue' = Tail(queue)
    /\ UNCHANGED <<device, settings, tmpfs, up, registered, applied, known, failed, watches, server>>

DoApplyAllPatches ==
    /\ Handles(ApplyAll)
    /\ job' = Job("applyAll", {}, applied)
    /\ queue' = Tail(queue)
    /\ UNCHANGED <<device, settings, tmpfs, up, registered, applied, known, failed, watches, server>>

\* mutant: no server in failed state.
StartServerUnlessFailed ==
    /\ Handles(StartServer)
    /\ thread' = IF Loaded \/ failed THEN thread ELSE "starting"
    /\ queue' = Tail(queue)
    /\ UNCHANGED <<device, settings, tmpfs, up, registered, applied, known, failed, watches, job, listening>>

\* QThread::start() waits for a thread that is finishing, which posts its
\* finished() meanwhile.
DoStartLocalServer ==
    /\ Handles(StartServer)
    /\ thread' = IF Loaded THEN thread ELSE "starting"
    /\ queue' = IF thread = "finishing" THEN Append(Tail(queue), CloseServer) ELSE Tail(queue)
    /\ UNCHANGED <<device, settings, tmpfs, up, registered, applied, known, failed, watches, job, listening>>

\* The directory is deleted, or the package removed; either may fail.
DoUninstallPatch(p) ==
    /\ Handles(Uninstall(p))
    /\ \/ disk' = [disk EXCEPT ![p] = None] /\ listed' = (listed \/ disk[p] # None)
       \/ UNCHANGED <<disk, listed>>
    /\ queue' = Tail(queue)
    /\ UNCHANGED <<orig, link, settings, tmpfs, up, registered, applied, known, failed, watched, changed, job, server>>

DoRegisterDBus ==
    /\ Handles(RegisterDBus)
    /\ registered' = TRUE
    /\ queue' = Tail(queue)
    /\ UNCHANGED <<device, settings, tmpfs, up, applied, known, failed, watches, job, server>>

\* The server thread has finished: m_localServer->close().
ServerFinished ==
    /\ Handles(CloseServer)
    /\ listening' = FALSE
    /\ queue' = Tail(queue)
    /\ UNCHANGED <<device, settings, tmpfs, up, registered, applied, known, failed, watches, job, thread>>

Queued ==
    \/ DoRefreshPatchList \/ DoApplyAllPatches \/ DoStartLocalServer
    \/ DoRegisterDBus \/ ServerFinished
    \/ \E p \in Patches : DoUninstallPatch(p) \/ \E apply \in BOOLEAN : DoPatchHandler(p, apply)

---------------------------------------------------------------------------
(* doPatch(): doPrepareCache, the script, doPrepareCache again to clean up. *)

At(phase) == up /\ job.kind # "none" /\ job.phase = phase

Prepare ==
    /\ At("prepare")
    /\ LET fs == KnownFiles(job.patch) IN
       /\ cache' = FilledCache(fs, orig, cache)
       /\ link' = PlacedLinks(fs, orig, link)
       /\ watched' = watched \union WatchedPaths(fs, orig, link, cache)
    /\ job' = [job EXCEPT !.phase = "script"]
    /\ UNCHANGED <<orig, disk, settings, backup, up, registered, applied, known, failed, changed, listed, queue, server>>

\* The script leaves the cache and the backups as they are and exits with ret.
ScriptExits(ret) ==
    /\ job' = [job EXCEPT !.ret = ret, !.phase = IF ret = job.apply THEN "return" ELSE "clean"]
    /\ UNCHANGED <<orig, link, disk, settings, up, registered, applied, known, failed, listed, queue, server>>

\* mutant: the copy of the diff is made before the dry run, as for a mangled diff.
PmApplyKeepsFirst ==
    /\ At("script") /\ job.apply
    /\ LET p == job.patch
           d == disk[p]
           present == d \in Diffs
           done == present /\ TestIfApplied(d, cache)
           works == present /\ ~done /\ VerifyTextPatch(d, cache)
           new == IF works THEN InstallTextPatch(d, cache) ELSE cache
       IN  /\ cache' = new
           /\ backup' = IF present /\ ~done THEN [backup EXCEPT ![p] = d] ELSE backup
           /\ changed' = changed \union Disturbed(new)
           /\ watched' = watched \ Disturbed(new)
           /\ ScriptExits(done \/ works)

PmApply ==
    /\ At("script") /\ job.apply
    /\ LET p == job.patch
           d == disk[p]
           present == d \in Diffs
           done == present /\ TestIfApplied(d, cache)
           works == present /\ ~done /\ VerifyTextPatch(d, cache)
           new == IF works THEN InstallTextPatch(d, cache) ELSE cache
       IN  /\ cache' = new
           /\ backup' = IF works THEN [backup EXCEPT ![p] = d] ELSE backup
           /\ changed' = changed \union Disturbed(new)
           /\ watched' = watched \ Disturbed(new)
           /\ ScriptExits(done \/ works)

PmUnapply ==
    /\ At("script") /\ ~job.apply
    /\ LET p == job.patch
           d == IF backup[p] # None THEN backup[p] ELSE disk[p]
           works == disk[p] # None /\ d \in Diffs
           new == IF works THEN RemoveTextPatch(d, cache) ELSE cache
       IN  /\ cache' = new
           /\ backup' = IF works THEN [backup EXCEPT ![p] = None] ELSE backup
           /\ changed' = changed \union Disturbed(new)
           /\ watched' = watched \ Disturbed(new)
           /\ ScriptExits(works)

Clean ==
    /\ At("clean")
    /\ LET fs == KnownFiles(job.patch)
           shared == SharedWith(job.patch)
       IN  /\ link' = ClearedLinks(fs, link)
           /\ cache' = ClearedCache(fs, shared, cache)
           /\ watched' = watched \ UnwatchedPaths(fs, shared, cache)
    /\ job' = [job EXCEPT !.phase = "return"]
    /\ UNCHANGED <<orig, disk, settings, backup, up, registered, applied, known, failed, changed, listed, queue, server>>

---------------------------------------------------------------------------
(* What the handlers do with the result of doPatch(). *)

\* mutant: a set is remembered as soon as the user changed it.
EndDoPatchRemembered ==
    /\ At("return") /\ job.kind = "patch"
    /\ IF job.ret
       THEN /\ applied' = IF job.apply THEN applied \union {job.patch} ELSE applied \ {job.patch}
            /\ saved' = applied' /\ working' = applied'
            /\ queue' = Append(queue, Refresh)
       ELSE UNCHANGED <<applied, saved, working, queue>>
    /\ job' = NoJob
    /\ UNCHANGED <<device, order, applyOnBoot, tmpfs, up, registered, known, failed, watches, server>>

\* doPatch(params, message, apply), called for one patch.
EndDoPatch ==
    /\ At("return") /\ job.kind = "patch"
    /\ IF job.ret
       THEN /\ applied' = IF job.apply THEN applied \union {job.patch} ELSE applied \ {job.patch}
            /\ saved' = applied'
            /\ queue' = Append(queue, Refresh)
       ELSE UNCHANGED <<applied, saved, queue>>
    /\ job' = NoJob
    /\ UNCHANGED <<device, working, order, applyOnBoot, tmpfs, up, registered, known, failed, watches, server>>

\* doApplyAllPatches: a patch that cannot be applied is dropped.
ApplyAllResult ==
    /\ At("return") /\ job.kind = "applyAll"
    /\ applied' = IF job.ret THEN applied ELSE applied \ {job.patch}
    /\ job' = [job EXCEPT !.phase = "next", !.ok = @ /\ job.ret]
    /\ UNCHANGED <<device, settings, tmpfs, up, registered, known, failed, watches, queue, server>>

\* onOriginalFileChanged: only remembers whether everything succeeded.
OriginalChangedResult ==
    /\ At("return") /\ job.kind = "changed"
    /\ job' = [job EXCEPT !.phase = "next", !.ok = @ /\ job.ret]
    /\ UNCHANGED <<device, settings, tmpfs, up, registered, applied, known, failed, watches, queue, server>>

\* The loop over settings/order first, then the other patches.
NextToApply ==
    /\ At("next") /\ job.undo = {}
    /\ \E p \in IF job.redo \intersect Listed # {} THEN FirstListed(job.redo)
                ELSE IF job.kind = "changed" THEN FirstInDir(job.redo)
                ELSE job.redo :
          job' = Begin([job EXCEPT !.redo = @ \ {p}], p, TRUE)
    /\ UNCHANGED <<device, settings, tmpfs, up, registered, applied, known, failed, watches, queue, server>>

\* onOriginalFileChanged unapplies in the reverse order first.
NextToUnapply ==
    /\ At("next")
    /\ \E p \in IF job.undo \intersect Listed # {} THEN LastListed(job.undo)
                ELSE FirstInDir(job.undo) :
          job' = Begin([job EXCEPT !.undo = @ \ {p}], p, FALSE)
    /\ UNCHANGED <<device, settings, tmpfs, up, registered, applied, known, failed, watches, queue, server>>

\* mutant: the patches that failed are not dropped from the settings.
EndApplyAllUnsaved ==
    /\ At("next") /\ job.kind = "applyAll" /\ job.redo = {}
    /\ IF job.ok THEN working' = applied /\ UNCHANGED queue
       ELSE queue' = Append(queue, Refresh) /\ UNCHANGED working
    /\ job' = NoJob
    /\ UNCHANGED <<device, saved, order, applyOnBoot, tmpfs, up, registered, applied, known, failed, watches, server>>

\* mutant: what is left after a failure is remembered before it is saved.
EndApplyAllRemembered ==
    /\ At("next") /\ job.kind = "applyAll" /\ job.redo = {}
    /\ working' = applied
    /\ IF job.ok THEN UNCHANGED <<saved, queue>>
       ELSE saved' = applied /\ queue' = Append(queue, Refresh)
    /\ job' = NoJob
    /\ UNCHANGED <<device, order, applyOnBoot, tmpfs, up, registered, applied, known, failed, watches, server>>

EndApplyAll ==
    /\ At("next") /\ job.kind = "applyAll" /\ job.redo = {}
    /\ IF job.ok
       THEN working' = applied /\ UNCHANGED <<saved, queue>>
       ELSE saved' = applied /\ queue' = Append(queue, Refresh) /\ UNCHANGED working
    /\ job' = NoJob
    /\ UNCHANGED <<device, order, applyOnBoot, tmpfs, up, registered, applied, known, failed, watches, server>>

\* mutant: after a failure the cache is cleared and nothing is applied again.
EndOriginalChangedCleared ==
    /\ At("next") /\ job.kind = "changed" /\ job.undo = {} /\ job.redo = {}
    /\ IF job.ok THEN UNCHANGED <<tmpfs, watched, changed>>
       ELSE /\ cache' = EmptyCache
            /\ backup' = [p \in Patches |-> None]
            /\ UNCHANGED <<watched, changed>>
    /\ job' = NoJob
    /\ UNCHANGED <<device, settings, up, registered, applied, known, failed, listed, queue, server>>

\* After a failure: clearFakeroot(), and doApplyAllPatches() is called directly.
EndOriginalChanged ==
    /\ At("next") /\ job.kind = "changed" /\ job.undo = {} /\ job.redo = {}
    /\ IF job.ok
       THEN job' = NoJob /\ UNCHANGED <<tmpfs, watched, changed>>
       ELSE /\ cache' = EmptyCache
            /\ backup' = [p \in Patches |-> None]
            /\ changed' = changed \union Disturbed(EmptyCache)
            /\ watched' = watched \ Disturbed(EmptyCache)
            /\ job' = Job("applyAll", {}, applied)
    /\ UNCHANGED <<device, settings, up, registered, applied, known, failed, listed, queue, server>>

Running ==
    \/ Prepare \/ PmApply \/ PmUnapply \/ Clean
    \/ EndDoPatch \/ ApplyAllResult \/ OriginalChangedResult
    \/ NextToApply \/ NextToUnapply \/ EndApplyAll \/ EndOriginalChanged

---------------------------------------------------------------------------
(* Signals handled by the main thread. *)

\* mutant: the patches that are not applied are not filtered out.
OnOriginalFileChangedForAll(f) ==
    /\ Idle
    /\ f \in changed
    /\ changed' = changed \ {f}
    /\ LET patches == {p \in Patches : f \in KnownFiles(p)}
       IN  job' = IF Loaded /\ ~failed /\ patches # {} THEN Job("changed", patches, patches) ELSE job
    /\ UNCHANGED <<device, settings, tmpfs, up, registered, applied, known, failed, watched, listed, queue, server>>

\* QFileSystemWatcher::fileChanged.
OnOriginalFileChanged(f) ==
    /\ Idle
    /\ f \in changed
    /\ changed' = changed \ {f}
    /\ LET patches == {p \in applied : f \in KnownFiles(p)}
           handled == Loaded /\ ~failed /\ \E p \in Patches : f \in KnownFiles(p)
       IN  job' = IF handled THEN Job("changed", patches, patches) ELSE job
    /\ UNCHANGED <<device, settings, tmpfs, up, registered, applied, known, failed, watched, listed, queue, server>>

\* mutant: the patch list is not refreshed.
OnContentChangedIgnored ==
    /\ Idle
    /\ listed
    /\ listed' = FALSE
    /\ UNCHANGED <<device, settings, tmpfs, up, registered, applied, known, failed, watched, changed, queue, job, server>>

\* INotifyWatcher::contentChanged of PATCHES_DIR.
OnContentChanged ==
    /\ Idle
    /\ listed
    /\ listed' = FALSE
    /\ queue' = Append(queue, Refresh)
    /\ UNCHANGED <<device, settings, tmpfs, up, registered, applied, known, failed, watched, changed, job, server>>

\* Journal::matchFound: a crash was logged.  A thread told to quit before it
\* entered its event loop has still called listen() in its started() handler.
OnFailureOccured ==
    /\ "failure" \in Inputs /\ Idle
    /\ thread' = IF Loaded THEN "quitting" ELSE thread
    /\ listening' = (listening \/ thread = "starting")
    /\ IF failed
       THEN UNCHANGED <<failed, applyOnBoot, cache, backup, changed, watched, applied, saved, queue>>
       ELSE /\ failed' = TRUE
            /\ applyOnBoot' = FALSE
            /\ UnapplyAll
            /\ queue' = Append(queue, Refresh)
    /\ UNCHANGED <<device, working, order, up, registered, known, listed, job>>

\* onLipstickChanged with ActiveState "failed", onOsUpdateProgress.
OnLipstickFailed ==
    /\ "lipstick" \in Inputs /\ Idle /\ Len(queue) < MaxQueue
    /\ UnapplyAll
    /\ queue' = Append(queue, Refresh)
    /\ UNCHANGED <<device, working, order, applyOnBoot, up, registered, known, failed, listed, job, server>>

\* QNetworkReply::finished of downloadPatchArchive: the directory is replaced by
\* what could be unpacked.
OnArchiveDownloaded(p) ==
    /\ "installPatch" \in Inputs /\ Idle /\ Len(queue) < MaxQueue
    /\ \E d \in {x \in Diffs : PatchOf[x] = p} \union {Empty, None} :
          disk' = [disk EXCEPT ![p] = d]
    /\ listed' = TRUE
    /\ UNCHANGED <<orig, link, settings, tmpfs, up, registered, applied, known, failed, watched, changed, queue, job, server>>

Signal ==
    \/ \E f \in Files : OnOriginalFileChanged(f)
    \/ OnContentChanged \/ OnFailureOccured \/ OnLipstickFailed
    \/ \E p \in Patches : OnArchiveDownloaded(p)

---------------------------------------------------------------------------
(* The server thread: QThread::started calls listen(), finished posts close(). *)

ServerListens ==
    /\ thread = "starting"
    /\ thread' = "running"
    /\ listening' = TRUE
    /\ UNCHANGED <<device, settings, tmpfs, up, registered, applied, known, failed, watches, queue, job>>

ServerThreadFinishes ==
    /\ thread = "quitting"
    /\ thread' = "finishing"
    /\ UNCHANGED <<device, settings, tmpfs, up, registered, applied, known, failed, watches, queue, job, listening>>

\* mutant: nothing is connected to finished().
ServerThreadEndsSilently ==
    /\ thread = "finishing"
    /\ thread' = "stopped"
    /\ UNCHANGED <<device, settings, tmpfs, up, registered, applied, known, failed, watches, queue, job, listening>>

ServerThreadEnds ==
    /\ thread = "finishing"
    /\ thread' = "stopped"
    /\ queue' = Append(queue, CloseServer)
    /\ UNCHANGED <<device, settings, tmpfs, up, registered, applied, known, failed, watches, job, listening>>

---------------------------------------------------------------------------
(* The surroundings. *)

\* The operating system updates an original in place, or by a new file renamed
\* over it, which ends the watch of the old one.
OriginalUpdated(f) ==
    /\ "update" \in Inputs
    /\ orig[f] \in 1 .. MaxVersion - 1
    /\ orig' = [orig EXCEPT ![f] = @ + 1]
    /\ changed' = IF f \in watched THEN changed \union {f} ELSE changed
    /\ watched' \in {watched, watched \ {f}}
    /\ UNCHANGED <<link, disk, settings, tmpfs, up, registered, applied, known, failed, listed, queue, job, server>>

OriginalRemoved(f) ==
    /\ "remove" \in Inputs
    /\ orig[f] # 0
    /\ orig' = [orig EXCEPT ![f] = 0]
    /\ changed' = IF f \in watched THEN changed \union {f} ELSE changed
    /\ watched' = watched \ {f}
    /\ UNCHANGED <<link, disk, settings, tmpfs, up, registered, applied, known, failed, listed, queue, job, server>>

\* The package manager creates a patch directory, then writes the diff into it;
\* only creation and deletion of directories are seen by the watch of PATCHES_DIR.
PackageMakesDirectory(p) ==
    /\ "package" \in Inputs /\ Len(queue) < MaxQueue
    /\ disk[p] = None
    /\ disk' = [disk EXCEPT ![p] = Empty]
    /\ listed' = up
    /\ UNCHANGED <<orig, link, settings, tmpfs, up, registered, applied, known, failed, watched, changed, queue, job, server>>

PackageWritesDiff(p) ==
    /\ "package" \in Inputs
    /\ disk[p] # None
    /\ \E d \in {x \in Diffs : PatchOf[x] = p} : disk' = [disk EXCEPT ![p] = d]
    /\ UNCHANGED <<orig, link, settings, tmpfs, up, registered, applied, known, failed, watches, queue, job, server>>

PackageErased(p) ==
    /\ "package" \in Inputs
    /\ disk[p] # None
    /\ disk' = [disk EXCEPT ![p] = None]
    /\ listed' = up
    /\ UNCHANGED <<orig, link, settings, tmpfs, up, registered, applied, known, failed, watched, changed, queue, job, server>>

\* The process ends, wherever it is; its memory is gone.
ProcessEnds ==
    /\ up' = FALSE
    /\ registered' = FALSE
    /\ applied' = {}
    /\ known' = [p \in Patches |-> None]
    /\ failed' = FALSE
    /\ watched' = {} /\ changed' = {} /\ listed' = FALSE
    /\ queue' = <<>>
    /\ job' = NoJob
    /\ thread' = "stopped" /\ listening' = FALSE

Crash ==
    /\ "crash" \in Inputs
    /\ up
    /\ ProcessEnds
    /\ UNCHANGED <<device, settings, tmpfs>>

\* /tmp does not survive a reboot, links and settings do.
Reboot ==
    /\ "reboot" \in Inputs
    /\ ProcessEnds
    /\ cache' = EmptyCache
    /\ backup' = [p \in Patches |-> None]
    /\ UNCHANGED <<device, settings>>

\* mutant: the server is started before the patches are applied.
StartServerFirst ==
    /\ ~up
    /\ up' = TRUE
    /\ queue' = (IF applyOnBoot \/ \E p \in Patches : backup[p] # None
                 THEN <<Refresh, StartServer, ApplyAll>> ELSE <<Refresh>>) \o <<RegisterDBus>>
    /\ UNCHANGED <<device, settings, tmpfs, registered, applied, known, failed, watches, job, server>>

\* systemd starts the process: initialize() and lateInitialize().
Start ==
    /\ ~up
    /\ up' = TRUE
    /\ queue' = (IF applyOnBoot \/ \E p \in Patches : backup[p] # None
                 THEN <<Refresh, ApplyAll, StartServer>> ELSE <<Refresh>>) \o <<RegisterDBus>>
    /\ UNCHANGED <<device, settings, tmpfs, registered, applied, known, failed, watches, job, server>>

Surroundings ==
    \/ \E f \in Files : OriginalUpdated(f) \/ OriginalRemoved(f)
    \/ \E p \in Patches : PackageMakesDirectory(p) \/ PackageWritesDiff(p) \/ PackageErased(p)
    \/ Crash \/ Reboot

---------------------------------------------------------------------------

Init ==
    /\ orig \in Systems
    /\ disk \in [Patches -> Diffs \union {None}]
    /\ \A p \in Patches : disk[p] # None => PatchOf[disk[p]] = p
    /\ link = [f \in Files |-> FALSE]
    /\ saved = {} /\ working = {} /\ order = <<>> /\ applyOnBoot \in BootSettings
    /\ cache = EmptyCache
    /\ backup = [p \in Patches |-> None]
    /\ up = FALSE /\ registered = FALSE
    /\ applied = {}
    /\ known = [p \in Patches |-> None]
    /\ failed = FALSE
    /\ watched = {} /\ changed = {} /\ listed = FALSE
    /\ queue = <<>>
    /\ job = NoJob
    /\ thread = "stopped" /\ listening = FALSE

MainThread == Start \/ Queued \/ Running \/ Signal

ServerThread == ServerListens \/ ServerThreadFinishes \/ ServerThreadEnds

Next == MainThread \/ ServerThread \/ Method \/ Surroundings

Spec == Init /\ [][Next]_vars

\* Scripts end, systemd restarts the process, and every round of the event loop
\* takes the posted events and each source that is ready.
Fairness ==
    /\ WF_vars(Start) /\ WF_vars(Running) /\ WF_vars(ServerThread)
    /\ SF_vars(Queued) /\ SF_vars(OnContentChanged)
    /\ \A f \in Files : SF_vars(OnOriginalFileChanged(f))

FairSpec == Spec /\ Fairness

---------------------------------------------------------------------------
(* Circumstances some of the properties depend on. *)

\* No patch is installed, replaced or removed.
PatchesStay == Inputs \intersect {"uninstallPatch", "installPatch", "package"} = {}

\* The enabled list is not restored after a failure.
NothingRestored == "restorePatchList" \notin Inputs

\* The process ends at a reboot, and never alone.
NoCrash == "crash" \notin Inputs

\* The server is started with the device, and neither a failure nor the end of the
\* process stops it.
ServerStays ==
    BootSettings \subseteq {TRUE} /\ Inputs \intersect {"failure", "crash", "reboot"} = {}

\* No diff has changes of another one in its context, and no patch touches a file
\* that another one creates; they may edit the same files, and may clash there.
IndependentDiffs ==
    /\ \A d \in Diffs : Needs[d] = {}
    /\ \A d, e \in Diffs : PatchOf[d] # PatchOf[e] => Creates[d] \intersect Touches(e) = {}

\* Different patches have no file in common.
SeparateFiles ==
    \A d, e \in Diffs : PatchOf[d] # PatchOf[e] => Touches(d) \intersect Touches(e) = {}

---------------------------------------------------------------------------
(* Properties. *)

\* Every hunk of a diff of p is in the cache, and the new files it brings are
\* reachable at their real paths.
InEffect(p) ==
    \E d \in Diffs : /\ PatchOf[d] = p
                     /\ \A f \in Touches(d) : cache[f] # None /\ d \in cache[f].diffs
                     /\ \A f \in Creates[d] : link[f]

\* Between two handlers, the applied set in memory is the one in the settings
\* (m_appliedPatches and settings/applied are written by different statements).
SettingsAgree == Idle /\ registered => applied = saved

\* While the server answers, every enabled patch is in effect: no interleaving of
\* calls, failures, updates, crashes and reboots enables a patch whose changes
\* are not served.
EnabledIsInEffect == Loaded /\ Idle => \A p \in applied : InEffect(p)

\* Only a set whose every patch is in effect is remembered as the working set.
WorkingSetWasInEffect == [][working' # working => \A p \in working' : InEffect(p)]_vars

\* Between two handlers the cache holds no change of a patch that is not enabled.
OnlyEnabledInCache ==
    Idle => \A f \in Files : cache[f] # None => \A d \in cache[f].diffs : PatchOf[d] \in applied

\* A copy in the cache has the version of its original, or the daemon is going to
\* be told that the original changed.
CopiesAreFresh ==
    Idle => \A f \in Files : cache[f] # None /\ cache[f].base # orig[f] => f \in changed

\* The daemon does not hold files of a patch whose directory is gone, except while
\* the event of its deletion is on its way.
NoGhostPatches ==
    Idle /\ ~listed /\ (\A i \in DOMAIN queue : queue[i] # Refresh) =>
        \A p \in Patches : known[p] # None => disk[p] # None

\* A process that is restarted after the end of one in failed state - which it has
\* forgotten - applies nothing and starts no server, unless the user activated a
\* patch since the failure: neither applyOnBoot nor a backup tells it to.
FailureOutlivesProcess ==
    failed /\ Idle => ~applyOnBoot /\ \A p \in Patches : backup[p] # None => p \in applied

\* Once the server is asked for, it runs, whatever failures, second requests and
\* ending threads come between; only the end of the process takes it back.
Asked == \E i \in DOMAIN queue : queue[i] = StartServer
ServerStarts == Asked ~> Loaded \/ ~up

\* When clients, the system and failures leave the daemon alone, it comes to rest:
\* handling the change of a file does not go on causing changes.
External == Method \/ Surroundings \/ OnFailureOccured \/ OnLipstickFailed
                   \/ \E p \in Patches : OnArchiveDownloaded(p)
Resting == Idle /\ queue = <<>> /\ changed = {} /\ ~listed
ComesToRest == <>[][~External]_vars => <>[]Resting

---------------------------------------------------------------------------
(* What the documentation says, and the code does not do. *)

\* user.qdoc: to restore the enabled list "will load that set, and activate the
\* Patches listed within".
RestoredIsInEffect ==
    thread = "running" /\ ~failed /\ Idle /\ queue = <<>> /\ applied = working =>
        \A p \in applied : InEffect(p)

\* user.qdoc: in failed state "all Patches are deactivated".
FailedIsInactive == failed /\ Idle /\ queue = <<>> => applied = {}

\* user.qdoc: in failed state the menu offers to restore the enabled list that
\* was stored when a selection of patches was last applied.
RestoreListIsKept == [][failed /\ failed' /\ working # {} => working' # {}]_vars

\* index.qdoc: open() is redirected if there is a patched version of the file,
\* otherwise it "is executed on the original file".
UnpatchedReadsOriginal ==
    Loaded /\ ~failed /\ Idle /\ queue = <<>> =>
        \A f \in Files \ changed :
            cache[f] # None => cache[f].diffs # {} \/ cache[f].base = orig[f]

---------------------------------------------------------------------------

\* What the daemon promises about the set of enabled patches.
Promise == INSTANCE PatchSet WITH enabled <- saved, lastGood <- working
SetIsKept == Promise!Spec

=============================================================================
