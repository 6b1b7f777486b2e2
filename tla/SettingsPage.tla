------------------------------ MODULE SettingsPage ------------------------------
(***************************************************************************)
(* The flags of the daemon that the settings page shows, and their mirror  *)
(* in the page's plugin (PatchManager).                                    *)
(*                                                                         *)
(* The plugin connects to the daemon's signals, then asks once for each    *)
(* value; signals and answers come over one connection, in order.  The     *)
(* daemon emits a signal with each change, except that of loaded to false, *)
(* and none before it has registered on the bus.                           *)
(***************************************************************************)
EXTENDS Naturals, Sequences

CONSTANTS
    Patches,           \* patches with metadata
    MaxMessages,       \* bound on what is under way to the page
    MaxPosted,         \* bound on the main thread's queue
    Survives           \* whether the page may survive a restart of the home screen

ASSUME PageAssumption ==
    /\ MaxMessages \in Nat /\ MaxPosted \in Nat
    /\ Survives \subseteq BOOLEAN /\ Survives # {}

VARIABLES
    registered,        \* m_adaptor exists
    posted,            \* the main thread's queue
    failed,            \* m_failed
    thread,            \* m_serverThread
    enabled,           \* m_appliedPatches
    toggles,           \* m_toggleServices, the patches in it
    page,              \* the page is open
    asked,             \* the plugin's calls that were not answered yet
    channel,           \* signals and answers on their way to the plugin
    mirror             \* m_failed, m_loaded and m_toggleServices of the plugin

daemonFlags == <<registered, posted, failed, thread, enabled, toggles>>
pageVars == <<daemonFlags, page, asked, channel, mirror>>

Flags == {"failure", "loaded", "toggle"}
Calls == {"applyAll", "startServer", "register", "restartHome"}

PageTypeOK ==
    /\ registered \in BOOLEAN /\ failed \in BOOLEAN /\ page \in BOOLEAN
    /\ posted \in Seq(Calls)
    /\ thread \in {"stopped", "running", "quitting"}
    /\ enabled \subseteq Patches /\ toggles \subseteq Patches
    /\ asked \in Seq(Flags)
    /\ channel \in Seq([flag : Flags, value : BOOLEAN])
    /\ mirror \in [Flags -> BOOLEAN]

Unset == [x \in Flags |-> FALSE]

\* lateInitialize(): without patches to apply, only the registration is posted.
PageInit ==
    /\ registered = FALSE /\ failed = FALSE /\ thread = "stopped"
    /\ posted \in {<<"register">>, <<"applyAll", "startServer", "register">>}
    /\ enabled \in SUBSET Patches /\ toggles = {}
    /\ page = FALSE /\ asked = <<>> /\ channel = <<>> /\ mirror = Unset

---------------------------------------------------------------------------

IsLoaded == thread \in {"running", "quitting"}

\* The daemon's value of a flag, as getFailure, getLoaded and getToggleServices
\* return it.
Value == [x \in Flags |->
    CASE x = "failure" -> failed [] x = "loaded" -> IsLoaded [] x = "toggle" -> toggles # {}]

Signal(x, v) == IF registered /\ page THEN <<[flag |-> x, value |-> v]>> ELSE <<>>

\* patchToggleService() for each patch of ps; the signal may be repeated, which
\* the plugin ignores.
Toggled(ps) == IF ps \subseteq toggles THEN <<>> ELSE Signal("toggle", TRUE)

\* Bounds what the daemon is asked to do by its surroundings.
Room == Len(channel) < MaxMessages /\ Len(posted) < MaxPosted

---------------------------------------------------------------------------
(* Handlers of the main thread. *)

Handles(call) ==
    /\ posted # <<>> /\ Head(posted) = call
    /\ posted' = Tail(posted)

DoRegister ==
    /\ Handles("register")
    /\ registered' = TRUE
    /\ UNCHANGED <<failed, thread, enabled, toggles, page, asked, channel, mirror>>

\* Patches that do not apply any more are dropped, without a signal.
DoApplyAll ==
    /\ Handles("applyAll")
    /\ enabled' \in SUBSET enabled
    /\ UNCHANGED <<registered, failed, thread, toggles, page, asked, channel, mirror>>

\* A thread that ends is still running for isRunning(); start() waits for one
\* that has left its event loop.
DoStart ==
    /\ Handles("startServer")
    /\ IF IsLoaded THEN UNCHANGED <<thread, channel>>
       ELSE thread' = "running" /\ channel' = channel \o Signal("loaded", TRUE)
    /\ UNCHANGED <<registered, failed, enabled, toggles, page, asked, mirror>>

PageEnds ==
    /\ page' = FALSE /\ mirror' = Unset
    /\ asked' = <<>> /\ channel' = <<>>

\* The home screen takes the programs it shows with it.
DoRestartHome ==
    /\ Handles("restartHome")
    /\ \/ TRUE \in Survives /\ UNCHANGED <<page, asked, channel, mirror>>
       \/ FALSE \in Survives /\ PageEnds
    /\ UNCHANGED <<registered, failed, thread, enabled, toggles>>

ThreadEnds ==
    /\ thread = "quitting"
    /\ thread' = "stopped"
    /\ UNCHANGED <<registered, posted, failed, enabled, toggles, page, asked, channel, mirror>>

\* unapplyAllPatches() inside another handler, after the signals in before.
UnapplyAll(before) ==
    /\ channel' = channel \o before \o Toggled(enabled)
    /\ toggles' = toggles \union enabled
    /\ enabled' = {}

\* Journal::matchFound.
OnFailureOccured ==
    /\ thread' = IF IsLoaded THEN "quitting" ELSE thread
    /\ IF failed THEN UNCHANGED <<failed, channel, toggles, enabled, posted>>
       ELSE /\ failed' = TRUE
            /\ UnapplyAll(Signal("failure", TRUE))
            /\ posted' = Append(posted, "restartHome")
    /\ UNCHANGED <<registered, page, asked, mirror>>

\* mutant: m_failed is reset without a word.
ResolveFailureSilently ==
    /\ registered /\ Room /\ failed
    /\ failed' = FALSE
    /\ posted' = IF IsLoaded THEN posted ELSE Append(posted, "startServer")
    /\ UNCHANGED <<registered, thread, enabled, toggles, page, asked, channel, mirror>>

ResolveFailure ==
    /\ registered /\ Room /\ failed
    /\ failed' = FALSE
    /\ posted' = IF IsLoaded THEN posted ELSE Append(posted, "startServer")
    /\ channel' = channel \o Signal("failure", FALSE)
    /\ UNCHANGED <<registered, thread, enabled, toggles, page, asked, mirror>>

\* loadRequest(true): the home screen is restarted when something was enabled.
LoadRequestApply ==
    /\ registered /\ Room /\ ~IsLoaded
    /\ posted' = posted \o <<"applyAll", "startServer">>
                        \o (IF enabled = {} THEN <<>> ELSE <<"restartHome">>)
    /\ UNCHANGED <<registered, failed, thread, enabled, toggles, page, asked, channel, mirror>>

LoadRequestUnapply ==
    /\ registered /\ Room /\ ~IsLoaded
    /\ UnapplyAll(<<>>)
    /\ posted' = Append(posted, "startServer")
    /\ UNCHANGED <<registered, failed, thread, page, asked, mirror>>

\* Called by a client, or when the home screen failed or the system is updated,
\* which may be before the registration.
UnapplyAllPatches ==
    /\ Room
    /\ UnapplyAll(<<>>)
    /\ UNCHANGED <<registered, posted, failed, thread, page, asked, mirror>>

\* The working set becomes the enabled one; nothing is applied.
RestorePatchList ==
    /\ registered /\ Room
    /\ enabled' \in SUBSET Patches \ {{}}
    /\ UNCHANGED <<registered, posted, failed, thread, toggles, page, asked, channel, mirror>>

\* doPatch() for a call of a client; when it fails nothing here changes.
DoPatch(p) ==
    /\ registered /\ Room
    /\ enabled' \in {enabled \union {p}, enabled \ {p}}
    /\ toggles' = toggles \union {p}
    /\ channel' = channel \o Toggled({p})
    /\ UNCHANGED <<registered, posted, failed, thread, page, asked, mirror>>

\* A category of the home screen posts its restart; other programs are killed.
RestartServices ==
    /\ registered /\ Room /\ toggles # {}
    /\ toggles' = {}
    /\ channel' = channel \o Signal("toggle", FALSE)
    /\ posted' \in {posted, Append(posted, "restartHome")}
    /\ UNCHANGED <<registered, failed, thread, enabled, page, asked, mirror>>

\* getToggleServices, getFailure, getLoaded.
AnswerCall ==
    /\ registered /\ asked # <<>>
    /\ asked' = Tail(asked)
    /\ channel' = Append(channel, [flag |-> Head(asked), value |-> Value[Head(asked)]])
    /\ UNCHANGED <<daemonFlags, page, mirror>>

---------------------------------------------------------------------------
(* The plugin. *)

OpenPage ==
    /\ ~page
    /\ page' = TRUE /\ mirror' = Unset
    /\ asked' = <<"toggle", "failure", "loaded">>
    /\ UNCHANGED <<daemonFlags, channel>>

ClosePage ==
    /\ page
    /\ PageEnds
    /\ UNCHANGED daemonFlags

\* onFailureChanged, onLoadedChanged, onToggleServicesChanged.
OnChanged ==
    /\ page /\ channel # <<>>
    /\ mirror' = [mirror EXCEPT ![Head(channel).flag] = Head(channel).value]
    /\ channel' = Tail(channel)
    /\ UNCHANGED <<daemonFlags, page, asked>>

---------------------------------------------------------------------------

Posted == DoRegister \/ DoApplyAll \/ DoStart \/ DoRestartHome

Requested ==
    \/ ResolveFailure \/ LoadRequestApply \/ LoadRequestUnapply
    \/ UnapplyAllPatches \/ RestorePatchList \/ RestartServices
    \/ \E p \in Patches : DoPatch(p)

Plugin == OpenPage \/ ClosePage \/ OnChanged

PageNext == Posted \/ ThreadEnds \/ Requested \/ AnswerCall \/ Plugin

---------------------------------------------------------------------------
(* Properties. *)

\* The plugin has every answer, and nothing is under way to it.
Settled == page /\ asked = <<>> /\ channel = <<>>

\* Whatever happens between the plugin's connections, its calls, the answers
\* and the signals, in the end it shows the daemon's failure, that services wait
\* for a restart, and that the server runs when it does.
MirrorAgrees ==
    Settled => /\ mirror["failure"] = failed
               /\ mirror["toggle"] = (toggles # {})
               /\ IsLoaded => mirror["loaded"]

---------------------------------------------------------------------------
(* What the documentation says, and the code does not do. *)

\* user.qdoc: in failed state the entry to start the daemon appears "in case the
\* Patchmanager Daemon is not running"; the page shows it unless loaded is set.
FailedOffersStart ==
    Settled /\ failed /\ thread = "stopped" /\ posted = <<>> => ~mirror["loaded"]

===============================================================================
