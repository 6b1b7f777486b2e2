----------------------------- MODULE FailureReport -----------------------------
(***************************************************************************)
(* From an error in the journal to the settings page: Journal composed     *)
(* with the daemon's flags and their mirror in the page.                   *)
(*                                                                         *)
(* matchFound is emitted and handled in one step of the main thread.       *)
(* process() dispatches events between two entries, so the other steps of  *)
(* the main thread come at any point of it.                                *)
(***************************************************************************)
EXTENDS Journal, SettingsPage

reportVars == <<journalVars, pageVars>>

ReportTypeOK == JournalTypeOK /\ PageTypeOK

ReportInit == JournalInit /\ PageInit

MatchFound == ReadEntry("match") /\ OnFailureOccured

ReportNext ==
    \/ JournalQuiet /\ UNCHANGED pageVars
    \/ PageNext /\ UNCHANGED journalVars
    \/ MatchFound

ReportSpec == ReportInit /\ [][ReportNext]_reportVars

---------------------------------------------------------------------------

\* Both threads of the journal run; in the main thread, so does process().
ReportFairness ==
    /\ WF_reportVars((StartWaiting \/ WaitReturns) /\ UNCHANGED pageVars)
    /\ WF_reportVars(ReadingQuietly /\ UNCHANGED pageVars)
    /\ WF_reportVars(MatchFound)

FairReportSpec == ReportSpec /\ ReportFairness

---------------------------------------------------------------------------
(* Properties. *)

Logged == \E i \in DOMAIN log : log[i] = "match"

\* An error in the journal puts the daemon into failed state and stops the
\* server, unless the journal could not be read.
CrashIsHandled == Logged ~> Deaf \/ (failed /\ thread # "running")

===============================================================================
