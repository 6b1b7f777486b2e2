-------------------------------- MODULE Catalog --------------------------------
(***************************************************************************)
(* The web catalog in the daemon: installing and uninstalling patches,     *)
(* queries of the catalog, and the updates it announces.                   *)
(*                                                                         *)
(* A call is answered later, by whichever handler comes to an end: of a    *)
(* posted event, or of an answer from the network.  What happens meanwhile *)
(* - another call for the same patch, a check for updates that was started *)
(* before - meets the same directory, archive and list of updates.         *)
(*                                                                         *)
(* Patches of packages are left out: no update is looked for, and the      *)
(* package manager removes them.                                           *)
(***************************************************************************)
EXTENDS Naturals, Sequences, FiniteSets

CONSTANTS
    Patches,
    Latest,            \* the versions are 1 to Latest
    Calls,             \* D-Bus calls that may be under way together
    MaxChecks,         \* bound on the requests of checks for updates under way
    None

ASSUME CatalogAssumption == Latest \in Nat \ {0} /\ MaxChecks \in Nat

VARIABLES
    disk,              \* version of each patch in its directory, 0: no patch there,
                       \* though a directory may be left
    meta,              \* m_metadata: the version as of the last refresh
    updates,           \* m_updates, 0: no entry
    late,              \* history: announced by a check the installation overtook
    checks,            \* requests for one project by checks for updates
    posted,            \* the main thread's queue
    call,              \* what each call is about, and where it is
    replies            \* what was sent to it

vars == <<disk, meta, updates, late, checks, posted, call, replies>>

Versions == 1 .. Latest
MaybeVersions == 0 .. Latest

\* posted in the queue, waiting for the catalog's data, or for the archive, whose
\* file is there or was removed by another call; done; or lost, given up without
\* a reply.
Stages == {"posted", "data", "archive", "missing", "done", "lost"}
Methods == {"install", "uninstall", "query", "easter"}
Queries == {"query", "easter"}

AllCalls == [method : Methods, patch : Patches, version : MaybeVersions, at : Stages]
NoCall == [method |-> None, at |-> "none"]

\* "patched" is the reply of doPatch, a map with the log of pm_unapply; "empty" the
\* value a method returns whose reply was not delayed.
Replies == {"true", "false", "error", "data", "patched", "empty"}

Handlers == {"install", "unapply", "uninstall", "query", "easter"}

CatalogTypeOK ==
    /\ disk \in [Patches -> MaybeVersions]
    /\ meta \in [Patches -> MaybeVersions]
    /\ updates \in [Patches -> MaybeVersions]
    /\ late \in [Patches -> BOOLEAN]
    /\ checks \subseteq [patch : Patches, version : Versions]
    /\ posted \in Seq(Handlers \X Calls)
    /\ call \in [Calls -> AllCalls \union {NoCall}]
    /\ replies \in [Calls -> Seq(Replies)]

CatalogInit ==
    /\ disk \in [Patches -> MaybeVersions] /\ meta = disk
    /\ updates = [p \in Patches |-> 0] /\ late = [p \in Patches |-> FALSE]
    /\ checks = {}
    /\ posted = <<>>
    /\ call = [c \in Calls |-> NoCall]
    /\ replies = [c \in Calls |-> <<>>]

---------------------------------------------------------------------------
(* D-Bus methods. *)

Stage(c) == call[c].at

\* The version of a call that is over does not matter any more.
Moved(k, stage) ==
    [k EXCEPT !.at = stage, !.version = IF stage \in {"done", "lost"} THEN 0 ELSE @]

GoesTo(c, stage) == call' = [call EXCEPT ![c] = Moved(call[c], stage)]
Send(c, reply) == replies' = [replies EXCEPT ![c] = Append(@, reply)]

MakesCall(c, m, p, v) ==
    /\ Stage(c) = "none"
    /\ call' = [call EXCEPT ![c] = [method |-> m, patch |-> p, version |-> v, at |-> "posted"]]

InstallPatch(c, p, v) ==
    /\ MakesCall(c, "install", p, v)
    /\ posted' = Append(posted, <<"install", c>>)
    /\ UNCHANGED <<disk, meta, updates, late, checks, replies>>

\* A patch that is applied, which it may be or not, is deactivated first, in the
\* name of the same message.
UninstallPatch(c, p) ==
    /\ MakesCall(c, "uninstall", p, 0)
    /\ \/ posted' = Append(posted, <<"uninstall", c>>)
       \/ posted' = Append(Append(posted, <<"unapply", c>>), <<"uninstall", c>>)
    /\ UNCHANGED <<disk, meta, updates, late, checks, replies>>

\* downloadCatalog, downloadPatchInfo.
Query(c, p) ==
    /\ MakesCall(c, "query", p, 0)
    /\ posted' = Append(posted, <<"query", c>>)
    /\ UNCHANGED <<disk, meta, updates, late, checks, replies>>

\* The only query whose reply is not delayed: the empty string that the method
\* returns is sent at once, and the handler sends its own later.
CheckEaster(c, p) ==
    /\ MakesCall(c, "easter", p, 0)
    /\ posted' = Append(posted, <<"easter", c>>)
    /\ Send(c, "empty")
    /\ UNCHANGED <<disk, meta, updates, late, checks>>

\* The last message about the call was sent, or the caller has run into its timeout.
Return(c) ==
    /\ Stage(c) \in {"done", "lost"}
    /\ call' = [call EXCEPT ![c] = NoCall]
    /\ replies' = [replies EXCEPT ![c] = <<>>]
    /\ UNCHANGED <<disk, meta, updates, late, checks, posted>>

---------------------------------------------------------------------------
(* Posted handlers. *)

Handles(h, c) ==
    /\ posted # <<>> /\ Head(posted) = <<h, c>>
    /\ posted' = Tail(posted)

\* doInstallPatch and the three queries ask the catalog.
DoRequest(h, c) ==
    /\ Handles(h, c)
    /\ GoesTo(c, "data")
    /\ UNCHANGED <<disk, meta, updates, late, checks, replies>>

DoUnapply(c) ==
    /\ Handles("unapply", c)
    /\ Send(c, "patched")
    /\ UNCHANGED <<disk, meta, updates, late, checks, call>>

\* mutant: the reply is sent only when there was a directory to remove.
DoUninstallQuietly(c) ==
    /\ Handles("uninstall", c)
    /\ IF disk[call[c].patch] # 0
       THEN disk' = [disk EXCEPT ![call[c].patch] = 0] /\ Send(c, "true")
       ELSE UNCHANGED <<disk, replies>>
    /\ GoesTo(c, "done")
    /\ UNCHANGED <<meta, updates, late, checks>>

\* removeRecursively() may fail.  An announced update stays.
DoUninstall(c) ==
    /\ Handles("uninstall", c)
    /\ \/ /\ disk' = [disk EXCEPT ![call[c].patch] = 0]
          /\ Send(c, "true")
       \/ UNCHANGED disk /\ Send(c, "false")
    /\ GoesTo(c, "done")
    /\ UNCHANGED <<meta, updates, late, checks>>

---------------------------------------------------------------------------
(* Answers from the network. *)

WaitsForData(c, methods) == Stage(c) = "data" /\ call[c].method \in methods

\* A network error has a handler of its own, beside that of finished().
QueryFails(c) ==
    /\ WaitsForData(c, Queries)
    /\ replies' = [replies EXCEPT ![c] = Append(Append(@, "error"), "error")]
    /\ GoesTo(c, "done")
    /\ UNCHANGED <<disk, meta, updates, late, checks, posted>>

\* "error": an answer that is empty or cannot be parsed.
QueryAnswered(c) ==
    /\ WaitsForData(c, Queries)
    /\ \E r \in {"data", "error"} : Send(c, r)
    /\ GoesTo(c, "done")
    /\ UNCHANGED <<disk, meta, updates, late, checks, posted>>

InstallFails(c) ==
    /\ WaitsForData(c, {"install"})
    /\ Send(c, "error")
    /\ GoesTo(c, "done")
    /\ UNCHANGED <<disk, meta, updates, late, checks, posted>>

SameUrl(c, d) == call[c].patch = call[d].patch /\ call[c].version = call[d].version

\* downloadPatchArchive: the archive is opened, which creates or empties it, for
\* every call with that URL.  Without the directory or the file the call is
\* given up, and nobody told.
DownloadPatchArchive(c) ==
    \/ call' = [d \in Calls |->
           IF d = c \/ (Stage(d) = "missing" /\ SameUrl(c, d)) THEN [call[d] EXCEPT !.at = "archive"]
           ELSE call[d]]
    \/ GoesTo(c, "lost")

\* Data that cannot be parsed is an error, and the download goes on.
InstallGoesOn(c) ==
    /\ WaitsForData(c, {"install"})
    /\ DownloadPatchArchive(c)
    /\ \/ UNCHANGED replies
       \/ Send(c, "error")
    /\ UNCHANGED <<disk, meta, updates, late, checks, posted>>

DownloadFails(c) ==
    /\ Stage(c) \in {"archive", "missing"}
    /\ Send(c, "error")
    /\ GoesTo(c, "done")
    /\ UNCHANGED <<disk, meta, updates, late, checks, posted>>

MaxOf(v, w) == IF w > v THEN w ELSE v

\* mutant: only the very version that was announced takes the update away.
UpToDateIfSame(p, v) == updates[p] # 0 /\ updates[p] = v

UpToDate(p, v) == updates[p] # 0 /\ (updates[p] = v \/ MaxOf(updates[p], v) = v)

\* The old directory is removed before the archive is looked at: it is missing
\* if another call for the same URL was finished first.  Or writing
\* fails, and leaves a directory without a patch, which is not listed.
ArchiveIsGone(c) ==
    /\ Stage(c) \in {"archive", "missing"}
    /\ disk' = [disk EXCEPT ![call[c].patch] = 0]
    /\ Send(c, "error")
    /\ GoesTo(c, "done")
    /\ UNCHANGED <<meta, updates, late, checks, posted>>

\* The call is done, its file removed.
RemovesArchive(c) ==
    call' = [d \in Calls |->
        IF d = c THEN Moved(call[d], "done")
        ELSE IF Stage(d) = "archive" /\ SameUrl(c, d) THEN [call[d] EXCEPT !.at = "missing"]
        ELSE call[d]]

\* mutant: the call goes back to wait after its reply.
ArchiveUnpackedAgain(c) ==
    /\ Stage(c) = "archive"
    /\ disk' = [disk EXCEPT ![call[c].patch] = call[c].version]
    /\ Send(c, "true")
    /\ UNCHANGED <<meta, updates, late, checks, posted, call>>

ArchiveUnpacked(c) ==
    /\ Stage(c) = "archive"
    /\ LET p == call[c].patch
           v == call[c].version
       IN  /\ disk' = [disk EXCEPT ![p] = v]
           /\ updates' = [updates EXCEPT ![p] = IF UpToDate(p, v) THEN 0 ELSE @]
    /\ Send(c, "true")
    /\ RemovesArchive(c)
    /\ UNCHANGED <<meta, late, checks, posted>>

ArchiveIsBroken(c) ==
    /\ Stage(c) = "archive"
    /\ disk' = [disk EXCEPT ![call[c].patch] = 0]
    /\ Send(c, "false")
    /\ RemovesArchive(c)
    /\ UNCHANGED <<meta, updates, late, checks, posted>>

---------------------------------------------------------------------------
(* Checks for updates, and the rest of the daemon. *)

\* The list of projects has arrived: for each one installed, the version of now
\* goes with the request for the project.
ProjectsArrive(p) ==
    /\ meta[p] # 0 /\ Cardinality(checks) < MaxChecks
    /\ checks' = checks \union {[patch |-> p, version |-> meta[p]]}
    /\ UNCHANGED <<disk, meta, updates, late, posted, call, replies>>

\* The catalog's latest version that fits the system, if newer than the version
\* that went with the request and not announced yet.  A failed request announces
\* nothing.
ProjectArrives(k) ==
    /\ k \in checks
    /\ checks' = checks \ {k}
    /\ \E latest \in k.version .. Latest :
          IF latest \in {k.version, updates[k.patch]} THEN UNCHANGED <<updates, late>>
          ELSE /\ updates' = [updates EXCEPT ![k.patch] = latest]
               /\ late' = [late EXCEPT ![k.patch] = disk[k.patch] # k.version]
    /\ UNCHANGED <<disk, meta, posted, call, replies>>

\* The watch of the patch directory has the list refreshed.
Refresh ==
    /\ meta # disk
    /\ meta' = disk
    /\ UNCHANGED <<disk, updates, late, checks, posted, call, replies>>

---------------------------------------------------------------------------

Method(c) ==
    \E p \in Patches :
        \/ UninstallPatch(c, p) \/ Query(c, p) \/ CheckEaster(c, p)
        \/ \E v \in Versions : InstallPatch(c, p, v)

Posted(c) == \/ \E h \in Queries \union {"install"} : DoRequest(h, c)
             \/ DoUnapply(c) \/ DoUninstall(c)

DataArrives(c) == QueryFails(c) \/ QueryAnswered(c) \/ InstallFails(c) \/ InstallGoesOn(c)

ArchiveArrives(c) == DownloadFails(c) \/ ArchiveIsGone(c) \/ ArchiveUnpacked(c) \/ ArchiveIsBroken(c)

Updating == \/ Refresh
            \/ \E p \in Patches : ProjectsArrive(p)
            \/ \E k \in checks : ProjectArrives(k)

CatalogNext ==
    \/ \E c \in Calls : Method(c) \/ Return(c) \/ Posted(c) \/ DataArrives(c) \/ ArchiveArrives(c)
    \/ Updating

CatalogSpec == CatalogInit /\ [][CatalogNext]_vars

\* The event loop runs, and every network request finishes, with an error at worst.
CatalogFairness ==
    /\ WF_vars(\E c \in Calls : Posted(c))
    /\ \A c \in Calls : WF_vars(DataArrives(c)) /\ WF_vars(ArchiveArrives(c))

FairCatalogSpec == CatalogSpec /\ CatalogFairness

---------------------------------------------------------------------------
(* Properties. *)

\* An update that is not newer than what is installed was announced by a check
\* that had asked for the version before the installation changed it: neither
\* installations of other versions, nor uninstalling, leave one behind.
UpdatesAreNewer ==
    \A p \in Patches : updates[p] # 0 /\ disk[p] >= updates[p] => late[p]

\* A call that was told the result, true, false or data, is told nothing more, and is
\* over then.  At most one other reply came before: the error of unparsable data, that
\* of the deactivation, or the empty text of checkEaster, which is always told
\* first, so that its caller never hears the text, and may be followed by two errors.
ResultIsLast ==
    \A c \in Calls : \A i \in DOMAIN replies[c] :
        /\ i <= IF call[c].method = "easter" THEN 3 ELSE 2
        /\ replies[c][i] = "empty" <=> call[c].method = "easter" /\ i = 1
        /\ replies[c][i] \in {"true", "false", "data"} => i = Len(replies[c]) /\ Stage(c) = "done"

\* Every call comes to its end and is told something by then, unless the archive
\* cannot be stored.
CallsAreAnswered ==
    \A c \in Calls : Stage(c) = "posted" ~> (Stage(c) = "done" /\ replies[c] # <<>>) \/ Stage(c) = "lost"

===============================================================================
