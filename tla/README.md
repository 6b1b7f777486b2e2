# Verification of Patchmanager

Patchmanager lets the user of a SailfishOS device activate *Patches*: unified
diffs of system files. Originals are never written. A daemon keeps patched copies
below `/tmp/patchmanager`, and a library preloaded into every process asks the
daemon, at each `open()`, for the copy to read instead. This directory holds TLA+
models of that system, the TLC configurations that check them and proofs that
TLAPS checks. Paths below are relative to the repository; `PMO` is
`src/bin/patchmanager-daemon/patchmanagerobject.cpp`.

    tlc -config Core.cfg MCPatchDaemon.tla         (also Stable, Lifecycle, Settling, and the
                                                    violations Restore, FailedState, RestoreList, SharedFile)
    tlc -config Serving.cfg MCPreloadClients.tla
    tlc -config Report.cfg MCFailureReport.tla     (also the violation StartEntry)
    tlc -config Catalog.cfg MCCatalog.tla
    tlapm PatchDaemonProofs.tla                    (also PatchEffectProofs, CopiesProofs, PreloadClientsProofs,
                                                    ServingProofs, FailureReportProofs, CatalogProofs)

## 1. Inventory

| Part | State it keeps | Operations | Talks to |
|---|---|---|---|
| **Daemon, main thread** (PMO) | applied set, known files of patches, failed flag, update list, toggle services, settings file | D-Bus methods, queued handlers (`do...`), signals of watchers, journal, network | scripts by `QProcess`, everything else by D-Bus or Qt signals |
| **Daemon, server thread** (PMO 840-926, 1840-1881) | listening socket, connections | accept, answer a path | preload library by a UNIX socket; reads the cache and `m_failed` without a lock |
| **Cache and scripts** (`pm_apply`, `pm_unapply`, PMO 686-765) | `/tmp/patchmanager`, links at real paths, backups of diffs | copy, link, patch, reverse, clean | the file system only |
| **Watchers** (`inotifywatcher.cpp`, `QFileSystemWatcher`) | watch descriptors | content of the patch directory changed, an original changed | signals to the main thread |
| **Journal** (`journal.cpp`) | journal handle, waiter thread | wait, process, match | `matchFound` to the main thread |
| **Web catalog** (PMO 2278-2454, 2484-2841) | updates, votes | install, list, check for updates, vote | network replies, delayed D-Bus replies |
| **Listing** (PMO 1964-2164, `makePatch`) | metadata, conflicts | read `patch.json` and diffs, sort | D-Bus replies |
| **Preload library** (`preloadpatchmanager.c`) | none | `open`, `open64` | the socket |
| **Command line, `patchmanager-tool`** | none | send one D-Bus call | D-Bus |
| **Settings page plugin** (`src/qml`) | mirror of the daemon's flags, model of the list | calls, property changes | D-Bus calls and signals |
| **Start-up dialog** | countdown | `loadRequest` | D-Bus |

### What is hard in it

* **Queues.** Almost every D-Bus method posts its work to the same thread's event
  queue, but `unapplyAllPatches`, `restorePatchList` and `onFailureOccured` act at
  once. What a queued handler finds is not what its caller saw.
* **The same fact in several places.** The enabled set is in `m_appliedPatches`, in
  `settings/applied`, implicitly in the cache, and once more as
  `settings/workingPatches`; each is written by other statements. The files of a
  patch are cached in memory while packages come and go.
* **Scripts.** `doPatch` blocks the main thread in a script. Meanwhile the server
  thread answers, originals are updated, and the process can end.
* **Partial failure.** One patch of several does not apply, `pm_unapply` ignores the
  result of `patch`, an update invalidates one diff of a file and not another.
* **Restart.** The process is restarted by systemd with `/tmp` and the settings as
  they were; a reboot empties `/tmp` and keeps the links at the real paths.
* **Feedback.** Handling the change of an original writes files, which may be
  watched themselves.
* **Threads.** The server thread is started, told to quit and closed by events that
  overtake one another. The journal's handle is passed between two threads without a lock.
* **Answers that come later.** A D-Bus call about the catalog is answered by whichever
  handler ends it; other calls for the same patch use the same directory and archive.
* **Mirrors.** The settings page keeps copies of the daemon's flags, fed by answers
  and signals that cross each other.

The full list, with lines, is `hazards` in `PROJECT.json`.

### What makes each part correct

* Main thread: memory and settings agree whenever the daemon is ready for a call; an
  enabled patch is in effect while the server answers; nothing is enabled that
  nobody asked for; the working set was really in effect.
* Cache: it holds the changes of the enabled patches and no others, on current copies.
* Server: it starts when asked for; every client that was accepted is answered or
  disconnected; a redirected file is a patched one.
* Watchers and journal: a change is never lost for good.
* Catalog and D-Bus: every call is told its result, once; the updates shown are newer than
  what is installed.
* Plugin: the mirror converges to the daemon's state; the list has each patch once.

Section 3 says under which conditions each of them holds of the code, and where it does not.

## 2. Modules

| Module | What it is |
|---|---|
| `PatchStore` | Data without state: diffs, copies, what `patch`, `doPrepareCache` and the scripts compute |
| `PatchDaemon` | The main thread, the life of the server thread, and their surroundings; EXTENDS `PatchStore` |
| `PatchSet` | The abstract promise about the enabled set; `PatchDaemon` instantiates it with `enabled <- saved`, `lastGood <- working` |
| `PreloadClients` | Programs with the preload library, and what the server thread answers them; EXTENDS `PatchDaemon`, whose steps it takes unchanged |
| `Journal` | The two threads that share the handle of the journal |
| `SettingsPage` | The flags of the daemon that the settings page shows, and their mirror in the page's plugin |
| `FailureReport` | `Journal` composed with `SettingsPage`: a match in the journal is a failure of the daemon |
| `Catalog` | Calls about the web catalog, checks for updates, and their replies |
| `MCPatchDaemon`, `MCPreloadClients`, `MCFailureReport`, `MCCatalog` | Instances for TLC |
| `MCFixedPatches`, `MCStable` | `MCPatchDaemon` for instances that satisfy the hypotheses of the theorems, which TLC evaluates: modules of the runs `core` and `stable` |
| `PatchDaemonProofs`, `FailureReportProofs`, `CatalogProofs`, `PreloadClientsProofs` | Theorems about these modules, and lemmas about the last |
| `PatchEffectProofs`, `CopiesProofs`, `ServingProofs` | Theorems about the cache: what it holds, that it is current, and what programs read; on top of `PatchDaemonProofs` and `PreloadClientsProofs` |

`SettingsPage` has a view of the daemon of its own: of `PatchDaemon` it keeps the flags, the
enabled set and the calls that are posted, of the scripts only that a patch is dropped or not.
`Catalog` likewise keeps of an activation only its reply, and the directory of each patch;
what an installation or removal means for the applied set is in `PatchDaemon`
(`OnArchiveDownloaded`, `DoUninstall`).

### State

`PatchDaemon`

| Variable | Code |
|---|---|
| `orig`, `link`, `disk` | version of each original (0: none), link at the real path, what `PATCHES_DIR` holds for each patch (a diff, a directory without one, nothing) |
| `saved`, `working`, `order`, `applyOnBoot` | the four keys of the settings file the core reads |
| `cache`, `backup` | `/tmp/patchmanager`; the diff `pm_apply` kept in `PATCHES_ADDITIONAL_DIR` |
| `up`, `registered` | the process runs; `m_dbusRegistered` |
| `applied`, `known`, `failed` | `m_appliedPatches`; `m_patchFiles` with `m_fileToPatch`, as the diff they were read from; `m_failed` |
| `watched`, `changed`, `listed` | paths of `m_originalWatcher`, its undelivered signals, the undelivered event of the patch directory |
| `queue` | events posted with `Qt::QueuedConnection`, and `finished()` of the thread |
| `job` | the handler that is waiting for a script, with what is left of its loops |
| `thread`, `listening` | `m_serverThread`, `m_localServer` |

The server thread is `starting` until it listens (`ServerListens`), `running`, `quitting`
once `quit()` was called, `finishing` when it has left its event loop
(`ServerThreadFinishes`) and `stopped` after `ServerThreadEnds`, which posts `finished()`. The socket is closed by the main
thread when that signal is delivered (`CloseServer`).

`PreloadClients`: `client`, for each program the `open()` it is in: in the socket's backlog
(`pending`), `accepted`, `stranded` when its thread ended, `answered` with a path. `sure` is a
history variable: the patches that were enabled and served since the program connected.

`Journal`

| Variable | Code |
|---|---|
| `log`, `news` | unread entries that pass the filter; the descriptor is readable |
| `handle` | `m_sdj` |
| `waiter` | `JournalWaiter`: `start()` posted to its thread, waiting, idle, gone |
| `reader` | `Journal::process()`: idle, posted, reading |

`SettingsPage`

| Variable | Code |
|---|---|
| `registered`, `posted`, `failed`, `thread`, `enabled`, `toggles` | daemon: `m_dbusRegistered`, its queue, `m_failed`, `m_serverThread`, `m_appliedPatches`, `m_toggleServices` |
| `page`, `asked`, `mirror` | plugin: it exists; its calls without an answer; `m_failed`, `m_loaded`, `m_toggleServices` |
| `channel` | signals and answers on their way, in order |

`Catalog`

| Variable | Code |
|---|---|
| `disk`, `meta` | version in the directory of each patch; `m_metadata`, of the last refresh |
| `updates`, `late` | `m_updates`; history: the announcement was made by a check that an installation overtook |
| `checks` | requests for one project by checks for updates, with the version they compare with |
| `posted`, `call`, `replies` | queue; what each D-Bus call is about and waits for; what was sent to it |

### Grain

A handler that runs to its end without a script is one action, every call it makes
included. `doPatch` is several actions: `Prepare` (`doPrepareCache`), `PmApply` or
`PmUnapply`, `Clean` (`doPrepareCache(…, false)`), and the handler's use of the
result (`EndDoPatch`, `ApplyAllResult`, `OriginalChangedResult`). Nothing else of the main thread
runs while `job` is set, because `waitForFinished` does not run the event loop;
the server thread, programs, updates, the package manager, crashes and reboots do. A script is
one step: a crash of the daemon does not stop a script that was started. The half-written
files that a program could read while `patch` or `cp` writes them are not modelled.

A D-Bus method can run at any moment at which the main thread is free, before or
after what is in the queue, because calls of arbitrary clients arrive from the bus
independently. Signals of the watchers too; that they can overtake posted
events allows a few more orders than Qt's event loop has.

The server thread answers between any two steps of the main thread; the answer is
computed in one step (the test of `m_failed` and that of the file), the program opens the path in
another. In `FailureReport` the main thread's other handlers run between any two entries
that `process()` reads, as it calls `processEvents()` after each; `matchFound` is emitted and handled in one step.
Answers and signals to the settings page arrive in the order in which the daemon sent them: they come over one
connection.

A file's content is the version it was copied from with the set of diffs in it. What
`patch` makes of a diff and a content is given by constants: `Fits` (versions the
hunks match), `Needs` (diffs in the context of the hunks) and `Clash` (diffs that
cannot be stacked).

### Left out of the modelled parts, and why it does not matter to these properties

* Links to whole missing directories (`tryToLinkFakeParent` and its two companions):
  a patch that adds a file is taken to add it to an existing directory.
* Mangling of library paths: `settings/bitnessMangle` is off by default. With it on, `pm_apply` also keeps the copy of a diff it could
  not apply, see `FailureOutlivesProcess`.
* Notifications and `sendActivation`: written by the handlers, read by none.
* Two patches that add the same new file. `EnabledIsInEffect` is false for them: deactivating one removes the
  link the other needs (PMO 724). It is listed as a hazard.
* An original that an update adds at a path a patch also creates.
* `doResetPatchState` and `backupWorkingPatchList`: the names in the D-Bus
  description and the slots differ, so no call reaches them.
* `putSettings` of arbitrary keys by arbitrary clients; clients store only
  `order` and `applyOnBoot`, and orders have no duplicates.
* The delay with which `QSettings` writes its file: a setting is stored when it is set.
* An update of an installed package in place gives no event (only creation and
  deletion in the patch directory do); `PackageWritesDiff` models it so.
* A program's request that the stream socket splits in two; the library sends it in one `write`.
* Patches of packages in `Catalog`: no update is looked for, the package manager removes them.

## 3. Runs

`Inputs` selects the calls and events of an instance of `PatchDaemon`.

| Run | Instance | Checked | States |
|---|---|---|---|
| `core` | patches a, b of one file; b also adds a file and no longer matches after an update; failures, crashes, reboots | `TypeOK`, `SettingsAgree`, `EnabledIsInEffect`, `WorkingSetWasInEffect`, `FailureOutlivesProcess`, `SetIsKept` | 1.9 million |
| `stable` | separate files; updates, removal of originals, crashes of the home screen; no crash, no failure | `EnabledIsInEffect`, `OnlyEnabledInCache`, `CopiesAreFresh` | 173 thousand |
| `lifecycle` | one patch with two versions of different files; install, uninstall, packages, restore, failures, crashes, reboots | `SettingsAgree`, `NoGhostPatches`, `SetIsKept` | 2.5 million |
| `settling` | separate files; start and stop of the server, updates, failures; with fairness | `ServerStarts`, `ComesToRest` | 170 thousand |
| `serving` | a program opens a file of two patches; activation, failures, crashes, restarts of the server; with fairness | `ReadsEnabled`, `ClientsAreServed` | 75 thousand |
| `report` | entries in the journal, the daemon's flags, a page that comes and goes; with fairness | `HandleUsedByOne`, `NothingMissed`, `MirrorAgrees`, `CrashIsHandled` | 650 thousand |
| `catalog` | two overlapping calls about one patch of three versions, checks for updates; with fairness | `UpdatesAreNewer`, `ResultIsLast`, `CallsAreAnswered` | 563 thousand |

### Bounds

* `PatchDaemon`: an original is replaced at most once (`MaxVersion` = 2), which is enough for a
  copy to be stale and for a diff to stop matching; clients, packages and the network wait while
  `MaxQueue` events are queued, so that two (or one) requests of clients can be waiting behind each other
  beside what handlers post themselves. Two patches, as each property about patches is about one, or about one
  and what the handler of another does to it.
* `serving`: one program. Programs do not see each other: the server answers each socket from the
  cache and `m_failed` alone, and nothing a program does changes the daemon, which
  `DaemonUndisturbed` proves. Two patches of one file, so that the other one's script
  rewrites the copy between answer and open. `ReadsEnabled` is proved for any number of programs and patches.
* `report`: one unread entry (`MaxLog`), and clients wait while one message or one event is on its way
  (`MaxMessages`, `MaxPosted`); handlers add more than that. The three invariants are proved without these bounds.
* `catalog`: two calls, since every interference is between two; `Latest` = 3, as there have to be
  a version older and one newer than the announced one; one request of a check under way, with
  any installation between its start and its end. Both invariants are proved without these bounds.

All invariants and action properties of the runs but `FailureOutlivesProcess` are also proved, for any values of these constants; the runs show that
they are not empty there, that each of them fails for a plausible mistake in the code, and that the hypotheses of section 4
can be met.

### What they show

* `SettingsAgree`: whenever the daemon can take a call, memory and settings hold the
  same set, although failures inside auto-apply runs are dropped from one long before the other.
* `EnabledIsInEffect`: while the server runs, every enabled patch is in the cache and
  its new files are linked. It relies on the order of the calls posted at start, on
  `pm_apply` being idempotent and on clearing and applying everything after a failed
  update; it holds with crashes at every step of `doPatch`.
* `WorkingSetWasInEffect`: the list kept for recovery was really applied.
* `FailureOutlivesProcess`: `m_failed` is lost with the process, but what the failure cleared is not, so a process that is started
  after the end of one in failed state applies nothing and starts no server of its own accord, unless the user activated a patch since the failure. Two
  things bring patches back: `applyOnBoot` in the settings, which `onFailureOccured` clears, and a copy of a diff in the
  place where `pm_apply` looks for activated patches, which a failed activation must not leave. The run has neither a user who sets
  `applyOnBoot` nor one who restores a list in failed state. With mangling on, the copy is written before the diff
  is tried (`pm_apply`:164); the model leaves mangling out.
* `OnlyEnabledInCache`, `CopiesAreFresh`: nothing else is in the cache, and it is current,
  or about to be told. Both need the restrictions of the run. While the server is not
  running or in failed state, a change of an original is ignored (PMO 1887), and after a
  crash nothing is watched until the patches are applied again; the old copy is then
  kept, because a copy that exists is not made again. With diffs that build on each other
  `pm_unapply` can leave hunks behind, as it ignores the result of `patch`.
* `NoGhostPatches`: the daemon forgets the files of a patch whose directory is gone.
* `SetIsKept`: the settings implement `PatchSet`.
* `ServerStarts`: a queued request for the server leads to a running thread.
* `ComesToRest`: once clients, packages, updates and failures stop, the daemon ends
  with an empty queue and no pending change. It needs the patches not to share a *new* file:
  if `b` edits a file that `a` creates, the file is watched through the link, each
  deactivation and activation rewrites it, and the handler is called again for ever.
* `ReadsEnabled`: a program reads the changes of every patch that was enabled and served from its `connect()`
  to its `open()`, and not itself worked on. The answer is a path, and the copy behind it can be patched, reversed or removed
  before it is opened: scripts for *other* patches, and their clean-up, never hide this one's
  change, nor turn the path into one that does not exist. During an auto-apply run and
  `onOriginalFileChanged` the whole cache is rebuilt: a program that meets them on its way is promised nothing.
* `ClientsAreServed`: a program blocks in `read()` without a timeout. It is answered or
  disconnected, with one exception that the property names: a connection accepted by a thread that is told to quit before it
  answers stays open, and the program waits until the daemon's process ends.
* `HandleUsedByOne`, `NothingMissed`: waiter and reader hand the journal's handle to
  each other and lose no wake-up, because the waiter is started again only after everything was read, and because the
  descriptor stays readable meanwhile.
* `CrashIsHandled`: an error in the journal leads to failed state with the server stopped, unless the journal failed
  (`Deaf`: after one failed poll or read nobody reads it any more).
* `MirrorAgrees`: once nothing is under way, the page shows the daemon's failure and whether services wait for a
  restart, and shows a running server as running, however its three calls, the signals, the
  registration and failures interleave. The converse for `loaded` is false, see below.
* `UpdatesAreNewer`: an announced update is newer than what is installed. The one exception is recorded by
  `late`: a check that had noted the version before an installation announces the version that is installed now.
* `ResultIsLast`: a result (`true`, `false`, data) is the last reply to a call, and at most one other came
  before. Calls *are* answered twice: after data that cannot be parsed (PMO 2314), when an applied patch
  is uninstalled (PMO 1352), and on a network error (PMO 2680); D-Bus drops what comes after the first, so that the caller of
  the first two never learns the result. `checkEaster` is the one query that does not delay its reply (PMO 1415, unlike
  1433 and 1449): the empty string it returns is sent at once, and the text, or up to two errors, come after it. Its caller
  never has the text, and so the page has none to show.
* `CallsAreAnswered`: every call comes to its end, and was told something by then, except where the archive cannot be
  stored (`lost`, PMO 2349).

### Where documentation and code disagree

| Run | Property | What happens |
|---|---|---|
| `restore` | `RestoredIsInEffect` | "Restore prior enabled list" marks patches as applied without applying them |
| `failed_state` | `FailedIsInactive` | patches can be activated in failed state |
| `restore_list` | `RestoreListIsKept` | starting the daemon in failed state replaces the list to restore by the empty one |
| `shared_file` | `UnpatchedReadsOriginal` | an old unpatched copy is served when another installed, inactive patch names the file |
| `start_entry` | `FailedOffersStart` | after a failure the page still holds `loaded` and does not offer to start the daemon |

Each is a short trace; `findings` in `PROJECT.json` quotes the lines.

### Fairness

`FairSpec` (`settling`):

* `WF(Start)`: the unit has `Restart=always`.
* `WF(Running)`: scripts end, and the code after them runs.
* `WF(ServerThread)`: a started thread reaches its event loop, a thread told to quit ends.
* `SF(Queued)`, `SF(OnContentChanged)`, `SF(OnOriginalFileChanged(f))`: a round of Qt's event loop
  delivers the posted events and every source that is ready, so calls of
  clients cannot keep them waiting. Strong, because they are disabled while a script runs.

`FairClientsSpec` (`serving`): the same, and for each program `WF` of `Accept`, `Answer` and `Open`: the event loop of the
server thread handles each socket that is ready, and a program that was answered goes on. Programs need not connect.

`FairReportSpec` (`report`): `WF` of the waiter's thread, of `process()` and of `MatchFound`, all
of which are steps of running loops. The waiter's is for `StartWaiting \/ WaitReturns`: it is not owed a failure.

`FairCatalogSpec` (`catalog`): `WF` of the queue, and for each call of `DataArrives` and
`ArchiveArrives`: `QNetworkAccessManager` finishes every request, with an error at worst.

No fairness is given to clients, failures, updates, crashes, reboots, the page or checks for updates.

## 4. Proofs

Everything is proved for all values of the constants that satisfy the named assumptions: `StoreAssumption` and
`NoneIsNoCopy` (shape of diffs and copies), `DaemonAssumption`, `LogAssumption`, `PageAssumption` and
`CatalogAssumption` (bounds are numbers, choices are not empty). None bounds the numbers of patches, files,
versions, queued events, programs or calls. The theorems about the cache have hypotheses about the circumstances besides;
they are defined at the end of `PatchDaemon` and listed below.

`PatchDaemonProofs`

* `TypeCorrect`: `Spec => []TypeOK`. `TypeOK` is inductive. The proof goes by groups of actions
  (`MethodType`, `QueuedType`, `ScriptType`, `HandlerType`, `SignalType`, ...), on lemmas about
  what the operators of `PatchStore` return.
* `SettingsAlwaysAgree`: `Spec => []SettingsAgree`. It is not inductive: it says nothing of a
  handler in progress or of the start. `SettingsInv` adds what holds then: a process that is
  not up has no queue and no job; an unregistered one that has not loaded its settings
  has the refresh in its queue before the registration (`AwaitsRefresh`); while an auto-apply run is
  going on, memory differs from the settings only by patches it dropped, and then the run
  knows that it has to save (`DroppedOnly`).
* `DaemonKeepsSet`: `Spec => SetIsKept`, the refinement of `PatchSet`. Every step maps to a step of
  `PatchSet` or a stutter (`StepOfPatchSet`); the cases that write settings need
  `SettingsInv` to know that memory is the saved set plus or minus the patch at hand.
* `GhostsAreForgotten`: `Spec => []NoGhostPatches`. `GhostInv` drops the condition that the main thread is
  between two handlers, and adds that a process that does not run knows no files: then each
  deletion leaves an event, each event a refresh, and a refresh in the queue stays there until it is handled.
* `RequestIsKept`: a request for the server stays in the queue until the server runs or the process ends. This is the part
  of `ServerStarts` that is not liveness.

`PatchEffectProofs`

`PatchInv` is what they share (`PatchInvariant`, from `PatchesStay` alone): the daemon knows the diffs that are
on disk once it has refreshed; a diff in the cache is one of the disk, and what it creates has no original;
when `pm_apply` starts, each file to be created has its link or is already in the cache; and a patch for which `pm_apply`
returned success is *whole* (`Whole`): in every file it touches, every new file linked.

* `EnabledStaysInEffect`: `Spec => []EnabledIsInEffect`. The property speaks of a server that runs and of a main thread
  between two handlers. `EffectInv` covers the rest. Between handlers, all saved patches are whole, or the server does not
  run, the state is not failed, and no request for the server is in the queue without an auto-apply run before it
  (`Owing`). During `doPatch()`, all but the patch at hand are
  whole (`DuringPatch`). In a loop, all that the loop has not yet to apply again are, unless
  `onOriginalFileChanged` has failed, and then everything is applied anew (`DuringLoop`). The lemmas under it: the scripts and
  the clean-up for one patch leave the others whole (`WholeKept`), and `pm_apply` succeeds for a patch that is whole already (`WholeApplies`).
* `WorkingSetIsInEffect`: `Spec => WorkingSetWasInEffect`. `LoopInv` says that an auto-apply run that has not failed
  has only activated patches, which takes nothing from the others (`WholeUnharmed`). It holds for
  diffs that clash, build on each other or create the same file, since each failure makes the run forget about the working set.
* `OnlyEnabledIsServed`: `Spec => []OnlyEnabledInCache`. `OnlyInv`: a diff is in all files of its patch or in none
  (`WhollyIn`), so that `pm_unapply`, which ignores the result of `patch`, takes out everything; every diff in the cache belongs to an applied
  patch, or to the one that has just been activated (`Accounted`); nothing is left of a patch that was
  deactivated or could not be activated (`NothingLeft`); the loops are over applied patches (`LoopsOverApplied`); and memory is never ahead of the settings (`NotAhead`).

`ServingProofs`

* `EnabledIsRead`: `ClientsSpec => ReadsEnabled`. `CountsOnServed` ties the history of a connection to the daemon of now: the
  patches it counts on are enabled and served at this moment and not the one being worked on, and a program that was sent to the
  original counts on none. Such patches are whole by `EffectInv` (`SureIsWhole`), so the answer leads to the cache and
  the file read there has them. Each step of the daemon that withdraws a patch takes it from the history as well (`DaemonStepCounts`).

`CopiesProofs`

* `CopiesStayFresh`: `Spec => []CopiesAreFresh`. `StartInv`: the server runs and the state is not failed, or the
  process has just started and nothing is cached. `OwnedInv`: each copy belongs to an applied patch or to the one at
  hand. `FreshInv`: each copy has the version of its original *and* the original is watched, or a change of it is
  to be delivered, or a patch that owns the copy is about to be withdrawn by the handler of an earlier change.
  The watch is what the property does not mention and an update needs; it moves with each copy made or removed.

| Hypothesis | Meaning |
|---|---|
| `PatchesStay` | no patch is installed, replaced or removed |
| `NothingRestored` | `restorePatchList` is not called |
| `IndependentDiffs` | no diff has changes of another one in its context, and no patch touches a file another one creates; they may edit the same files and clash there |
| `NoCrash` | the process does not end but with the device |
| `ServerStays` | `applyOnBoot` is set at first, and neither a failure nor the end of the process stops the server |
| `SeparateFiles` | no two patches have a file in common |

| Theorem | Hypotheses |
|---|---|
| `WorkingSetIsInEffect` | `PatchesStay` |
| `EnabledStaysInEffect`, `EnabledIsRead` | and `NothingRestored`, `IndependentDiffs` |
| `OnlyEnabledIsServed` | and `NoCrash` |
| `CopiesStayFresh` | `PatchesStay`, `NothingRestored`, `IndependentDiffs`, `ServerStays`, `SeparateFiles` |

They are the circumstances of the runs `core`, `serving` and `stable`, whose modules check them on their constants. They
say when the code does what is meant, not what it is allowed to assume, and TLC finds a counterexample when one is left out:

* *Patches replaced or removed.* When a diff is replaced between the refresh and the activation, the link to a new file that only the later
  diff brings is not placed (PMO 686, 719); an applied patch can be uninstalled behind an activation in the queue.
* *A restored list* counts as applied without being applied, and without what it leaves out being deactivated (run `restore`).
* *Diffs that build on each other.* If `b` builds on `a`, and `a`, which is enabled, is activated once more, `pm_apply` fails, since the
  changes of `a` cannot be reversed below those of `b`. The clean-up (PMO 2202) removes the copies of `a`'s other files, and `a` stays
  enabled. Deactivating `a` under `b` leaves its hunks behind. If `b` edits a file that `a` creates, the
  clean-up for one of them removes the link the other needs (PMO 724), and the file cannot be taken out while both are in it.
* *A crash* between the end of `pm_apply` and the saving of the settings leaves a change of a patch that is not enabled.
* *A server that does not run*, for the freshness of copies: a change of an original is ignored meanwhile, and after a crash,
  or at a reboot for files behind links, nothing is watched until patches are applied again.
* *Shared files*: the copy stays when one of the patches is deactivated (run `shared_file`).

`PreloadClientsProofs`

Lemmas for `ServingProofs`: a step of a program stutters in the daemon's variables, so that what is proved of `Spec` holds of
`ClientsSpec` (`DaemonUndisturbed`), and the types of the connections (`ClientsType`).

`FailureReportProofs`

* `HandleIsHandedOver`, `NoEntryIsMissed`: `HandleUsedByOne` and `NothingMissed` are inductive together with the types; the
  composition's other steps leave the journal alone.
* `MirrorConverges`: `ReportSpec => []MirrorAgrees`. The property speaks of quiet moments only. `MirrorInv` says of each
  flag what holds always: the page's question for it is still open, or the last value of it that is under way is the daemon's, or nothing is
  under way and the mirror has it; with the case that the daemon has not registered, when it sends nothing and answers nothing.

`CatalogProofs`

* `CatalogInvariant`: `CatalogSpec => []CatalogInv`. `QueueInv` ties the queue to the calls: a handler in the queue
  belongs to a call that waits for it, and to no other one but the deactivation before its uninstalling. `RepliesInv` says what a
  call may have been told at each stage: nothing at first, and the empty text at first if it is one of `checkEaster`.
* `CallsAreKept`: `CatalogSpec => []NoCallIsForgotten`, the converse. A call that waits in the queue has the handler
  there that goes on with it, and a call that is over was told something. It needs `QueueInv`: the deactivation that
  is taken from the queue is not the last handler of its call.
* `ResultStaysLast`: `ResultIsLast` follows from it. Alone it is not inductive: that a result is not
  followed by another one depends on there being no handler left for the call, and how many replies came before it on the stage
  that sent it.
* `AnnouncedIsNewer`: `CatalogSpec => []UpdatesAreNewer`.

Only model-checked is `FailureOutlivesProcess` among the invariants: its proof needs what the scripts leave in the place of activated patches
at every step, and hypotheses that exclude the two ways around it named in section 3. Only model-checked are also `ServerStarts`, `ComesToRest`, `ClientsAreServed`, `CrashIsHandled` and `CallsAreAnswered`:
liveness under fairness is out of reach of the prover. What can be said of them without it is proved:
`RequestIsKept` for the first, `NoEntryIsMissed` for the fourth, and
`CallsAreKept` for the last.
What `patch`, the scripts and `doPrepareCache` compute is given by sets and functions, without recursion, so that lemmas about
them are proved directly. The counterexamples of the findings are TLC's; nothing is proved about them.

## 5. Not modelled

* **Votes and the activation counter** (PMO 2484-2560): fire-and-forget requests; what an action does to the count is decided by
  the catalog's server, whose code is not in the repository.
* **Listing** (`doListPatches`, `checkForConflicts`, `makePatch`): lists for display, computed from what is read
  at that moment; no state, one thread. `getPatches`, `listVersions` and `checkVote` are plain getters.
* **Command line of the daemon, `patchmanager-tool`**: they send one D-Bus call and print the answer; the calls are actions of the modules.
* **List models, catalog pages, QML, start-up dialog**: presentation. The bindings on the three flags of the mirror are what the properties of
  `SettingsPage` are about; `loadRequest`, which the dialog calls, is an action.
* **Packaging, units, D-Bus policy**: only `Restart=always` is used.
* **Half-written files**: `cp`, `patch` and `rm` are steps. A program can read a file that `patch` is
  writing; nothing in the code prevents or detects it, so no property could be stated that holds.
* **`INotifyWatcher`'s merging of events**: it loses names only; the refresh of the daemon does not use them.

### What remains to be done

* A theorem for `FailureOutlivesProcess`, on the types and `NotAhead`.
* Theorems without some of the hypotheses: what a crash can leave in the cache at most, and how long.
* The list models of the plugin: rows under signals for directories that appear and vanish.
* A run with `Needs` and `Clash` and a weaker form of `OnlyEnabledInCache` that says what `pm_unapply` may leave behind.
