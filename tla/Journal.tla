-------------------------------- MODULE Journal --------------------------------
(***************************************************************************)
(* Journal and JournalWaiter: the daemon reads the journal of the system   *)
(* for errors that a broken patch causes.                                  *)
(*                                                                         *)
(* One handle of the journal is used by two threads in turn, without a     *)
(* lock: JournalWaiter::start() waits for news in a thread of its own,     *)
(* Journal::process() reads in the main thread, and dispatches the main    *)
(* thread's other events after each entry.                                 *)
(***************************************************************************)
EXTENDS Naturals, Sequences

CONSTANTS MaxLog       \* bound on the entries nobody has read yet

ASSUME LogAssumption == MaxLog \in Nat \ {0}

VARIABLES
    log,               \* unread entries that pass the filter of the handle
    news,              \* the descriptor of the journal is readable
    handle,            \* m_sdj
    waiter,            \* m_jw: start() posted, waiting in it, idle, or gone
    reader             \* process(): not called, posted, reading

journalVars == <<log, news, handle, waiter, reader>>

\* What process() tells apart: an error it looks for, and all the rest.
Entries == {"match", "other"}

JournalTypeOK ==
    /\ log \in Seq(Entries)
    /\ news \in BOOLEAN
    /\ handle \in {"open", "closed"}
    /\ waiter \in {"start", "waiting", "idle", "gone"}
    /\ reader \in {"idle", "posted", "reading"}

\* init() may fail: then nobody waits.
JournalInit ==
    /\ log = <<>> /\ news = FALSE /\ reader = "idle"
    /\ \/ handle = "open" /\ waiter = "start"
       \/ handle = "closed" /\ waiter = "gone"

---------------------------------------------------------------------------
(* Programs write to the journal. *)

LogEntry(e) ==
    /\ Len(log) < MaxLog
    /\ log' = Append(log, e)
    /\ news' = TRUE
    /\ UNCHANGED <<handle, waiter, reader>>

\* An entry the handle filters out makes the descriptor readable all the same.
LogOfOthers == news' = TRUE /\ UNCHANGED <<log, handle, waiter, reader>>

---------------------------------------------------------------------------
(* The waiter's thread. *)

\* mutant: what happened before is discarded.
StartWaitingAfresh ==
    /\ waiter = "start"
    /\ waiter' = "waiting"
    /\ news' = FALSE
    /\ UNCHANGED <<log, handle, reader>>

StartWaiting ==
    /\ waiter = "start"
    /\ waiter' = "waiting"
    /\ UNCHANGED <<log, news, handle, reader>>

\* mutant: the waiter goes on waiting while the entries are read.
WaitReturnsAndGoesOn ==
    /\ waiter = "waiting" /\ news
    /\ news' = FALSE
    /\ waiter' = "start"
    /\ reader' = "posted"
    /\ UNCHANGED <<log, handle>>

\* canProcess is delivered to the main thread.
WaitReturns ==
    /\ waiter = "waiting" /\ news
    /\ news' = FALSE
    /\ waiter' = "idle"
    /\ reader' = "posted"
    /\ UNCHANGED <<log, handle>>

\* SD_JOURNAL_NOP: pollAgain.
WaitAgain ==
    /\ waiter = "waiting" /\ ~news
    /\ waiter' = "start"
    /\ UNCHANGED <<log, news, handle, reader>>

\* pollFailed: the waiter is deleted.
WaitFails ==
    /\ waiter = "waiting"
    /\ waiter' = "gone"
    /\ UNCHANGED <<log, news, handle, reader>>

---------------------------------------------------------------------------
(* process() in the main thread. *)

BeginReading ==
    /\ reader = "posted"
    /\ reader' = "reading"
    /\ UNCHANGED <<log, news, handle, waiter>>

\* With a match, matchFound is emitted in this step.  The next entry is read
\* after processEvents(): other steps of the main thread come between.
ReadEntry(e) ==
    /\ reader = "reading" /\ log # <<>> /\ Head(log) = e
    /\ log' = Tail(log)
    /\ UNCHANGED <<news, handle, waiter, reader>>

\* mutant: the waiter is not started again.
ReadAllOnce ==
    /\ reader = "reading" /\ log = <<>>
    /\ reader' = "idle"
    /\ UNCHANGED <<log, news, handle, waiter>>

ReadAll ==
    /\ reader = "reading" /\ log = <<>>
    /\ reader' = "idle" /\ waiter' = "start"
    /\ UNCHANGED <<log, news, handle>>

\* sd_journal_next() fails: the handle is closed, nobody waits any more.
ReadFails ==
    /\ reader = "reading"
    /\ handle' = "closed"
    /\ reader' = "idle"
    /\ UNCHANGED <<log, news, waiter>>

---------------------------------------------------------------------------

Logging == LogOfOthers \/ \E e \in Entries : LogEntry(e)
Waiting == StartWaiting \/ WaitReturns \/ WaitAgain \/ WaitFails
ReadingQuietly == BeginReading \/ ReadEntry("other") \/ ReadAll \/ ReadFails

JournalQuiet == Logging \/ Waiting \/ ReadingQuietly

JournalNext == JournalQuiet \/ ReadEntry("match")

JournalSpec == JournalInit /\ [][JournalNext]_journalVars

\* Nobody reads the journal any more: for good, after an error.
Deaf == handle = "closed" \/ waiter = "gone"

---------------------------------------------------------------------------
(* Properties. *)

\* The handle is never used by both threads at once, nor after it was closed.
HandleUsedByOne ==
    /\ waiter \in {"start", "waiting"} => reader = "idle"
    /\ waiter \in {"start", "waiting"} \/ reader # "idle" => handle = "open"

\* No wake-up is lost: while an entry is unread, the descriptor is readable, or
\* process() is going to be called, or is reading.
NothingMissed == log # <<>> /\ ~Deaf => news \/ reader \in {"posted", "reading"}

===============================================================================
