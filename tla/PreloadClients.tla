----------------------------- MODULE PreloadClients -----------------------------
(***************************************************************************)
(* Programs with the preload library, composed with the daemon.            *)
(*                                                                         *)
(* An intercepted open() connects to the daemon's socket, sends the path   *)
(* and waits in read(), without a timeout, for the path to open instead.   *)
(* The server thread accepts and answers.  It reads m_failed and the cache *)
(* without a lock, between any two steps of the main thread.  The daemon   *)
(* takes its steps as in PatchDaemon; what they do to the connections is   *)
(* AfterDaemonStep.                                                        *)
(*                                                                         *)
(* A path that is a link into the cache is not asked for: realpath() gives *)
(* a path below /tmp, which the library leaves alone.                      *)
(***************************************************************************)
EXTENDS PatchDaemon

CONSTANTS Clients      \* threads of programs that have the library loaded

VARIABLES client       \* the open() each of them is in

allVars == <<vars, client>>

\* at: pending in the socket's backlog, accepted by the server thread, stranded
\* when that thread ended, answered with the path to open.
\* sure: history, the patches that were in Sure at every moment since connect().
Calls == [at : {"idle", "pending", "accepted", "stranded", "answered"},
          path : Files \union {None}, redirected : BOOLEAN, sure : SUBSET Patches]

NoCall == [at |-> "idle", path |-> None, redirected |-> FALSE, sure |-> {}]

ClientsTypeOK == client \in [Clients -> Calls]

ClientsInit == Init /\ client = [c \in Clients |-> NoCall]

---------------------------------------------------------------------------

CallIs(c, state) == client[c].at = state
Waiting(c) == client[c].at \in {"pending", "accepted", "stranded"}

\* The socket is served by the thread that runs now, not by one that has ended.
Served == /\ listening /\ \A i \in DOMAIN queue : queue[i] # CloseServer
          /\ thread \in {"running", "quitting"}

\* Patches whose versions all touch f, that are enabled, served, and not being worked
\* on; none while the handler of an update or the auto-apply run is at work.
Sure == [f \in Files |->
    IF Served /\ thread = "running" /\ ~failed /\ job.kind \in {"none", "patch"}
    THEN {p \in applied \ {job.patch} :
             \A d \in Diffs : PatchOf[d] = p => f \in Touches(d)}
    ELSE {}]

\* What open() finds at a path: the original, or through a link the cached file.
RealPath(f) == IF orig[f] # 0 THEN CopyOf(orig[f]) ELSE IF link[f] THEN cache[f] ELSE None

Content(k) == IF k.redirected THEN cache[k.path] ELSE RealPath(k.path)

---------------------------------------------------------------------------
(* The library and the server thread. *)

\* The socket may belong to a thread that ended: connect() succeeds until close().
Connect(c, f) ==
    /\ CallIs(c, "idle") /\ listening
    /\ orig[f] # 0
    /\ client' = [client EXCEPT ![c] =
           [at |-> "pending", path |-> f, redirected |-> FALSE, sure |-> Sure[f]]]
    /\ UNCHANGED vars

Accept(c) ==
    /\ CallIs(c, "pending") /\ Served
    /\ client' = [client EXCEPT ![c].at = "accepted"]
    /\ UNCHANGED vars

\* mutant: no redirection while the main thread is busy with a script.
AnswerUnlessBusy(c) ==
    /\ CallIs(c, "accepted") /\ thread \in {"running", "quitting"}
    /\ client' = [client EXCEPT ![c].at = "answered",
           ![c].redirected = ~failed /\ job = NoJob /\ cache[client[c].path] # None]
    /\ UNCHANGED vars

Answer(c) ==
    /\ CallIs(c, "accepted") /\ thread \in {"running", "quitting"}
    /\ client' = [client EXCEPT ![c].at = "answered",
           ![c].redirected = ~failed /\ cache[client[c].path] # None]
    /\ UNCHANGED vars

Open(c) ==
    /\ CallIs(c, "answered")
    /\ client' = [client EXCEPT ![c] = NoCall]
    /\ UNCHANGED vars

ClientStep(c) == Accept(c) \/ Answer(c) \/ Open(c) \/ \E f \in Files : Connect(c, f)

---------------------------------------------------------------------------
(* What a step of the daemon does to the connections. *)

\* read() fails when the peer is gone: the original is opened.
Broken(k) == [k EXCEPT !.at = "answered", !.redirected = FALSE]

\* close() drops the connections nobody accepted.  Accepted ones belong to the
\* event loop of the thread that accepted them; when it ends they stay open.
Connection(k) ==
    IF k.at = "pending" /\ ~listening' THEN Broken(k)
    ELSE IF k.at \in {"accepted", "stranded"} /\ ~up' THEN Broken(k)
    ELSE IF k.at = "accepted" /\ thread' = "finishing" THEN [k EXCEPT !.at = "stranded"]
    ELSE k

AfterDaemonStep ==
    client' = [c \in Clients |->
        [Connection(client[c]) EXCEPT !.sure =
            IF CallIs(c, "idle") THEN {} ELSE @ \intersect Sure'[client[c].path]]]

DaemonStep == Next /\ AfterDaemonStep

ClientsNext == DaemonStep \/ \E c \in Clients : ClientStep(c)

ClientsSpec == ClientsInit /\ [][ClientsNext]_allVars

\* The daemon is as fair as in PatchDaemon; its server thread handles every socket
\* that is ready, and a program that was answered goes on.
ClientsFairness ==
    /\ WF_allVars(Start /\ AfterDaemonStep)
    /\ WF_allVars(Running /\ AfterDaemonStep)
    /\ WF_allVars(ServerThread /\ AfterDaemonStep)
    /\ SF_allVars(Queued /\ AfterDaemonStep)
    /\ SF_allVars(OnContentChanged /\ AfterDaemonStep)
    /\ \A f \in Files : SF_allVars(OnOriginalFileChanged(f) /\ AfterDaemonStep)
    /\ \A c \in Clients : WF_allVars(Accept(c)) /\ WF_allVars(Answer(c)) /\ WF_allVars(Open(c))

FairClientsSpec == ClientsSpec /\ ClientsFairness

---------------------------------------------------------------------------
(* Properties. *)

\* A program reads the changes of every patch that was enabled and served from its
\* connect() to its open(), if meanwhile neither that patch was worked on nor the handler
\* of an update or the auto-apply run was at work: no step of the main thread between
\* the answer and the open, nor a script for another patch, hides them.
ReadsEnabled ==
    [][\A c \in Clients : CallIs(c, "answered") /\ client'[c].at = "idle" =>
          \A p \in client[c].sure :
              /\ Content(client[c]) # None
              /\ \E d \in Content(client[c]).diffs : PatchOf[d] = p]_allVars

\* A program that connected is answered, or disconnected and reads the original,
\* unless the thread that accepted it was told to quit before it answered.
ClientsAreServed == \A c \in Clients : Waiting(c) ~> ~Waiting(c) \/ CallIs(c, "stranded")

===============================================================================
