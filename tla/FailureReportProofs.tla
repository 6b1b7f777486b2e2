-------------------------- MODULE FailureReportProofs --------------------------
(***************************************************************************)
(* Theorems about FailureReport: how the journal is shared by two threads, *)
(* and that the settings page shows what the daemon holds, for any number  *)
(* of entries, events and messages under way.                              *)
(***************************************************************************)
EXTENDS FailureReport, TLAPS

(***************************************************************************)
(* The journal.                                                            *)
(***************************************************************************)

LEMMA HandleStep ==
    ASSUME HandleUsedByOne, [JournalNext]_journalVars
    PROVE  HandleUsedByOne'
BY DEF HandleUsedByOne, JournalNext, JournalQuiet, Logging, Waiting, ReadingQuietly, journalVars,
       LogEntry, LogOfOthers, StartWaiting, WaitReturns, WaitAgain, WaitFails,
       BeginReading, ReadEntry, ReadAll, ReadFails

LEMMA NewsStep ==
    ASSUME NothingMissed, HandleUsedByOne, [JournalNext]_journalVars
    PROVE  NothingMissed'
<1> USE DEF NothingMissed, HandleUsedByOne, Deaf
<1>1. CASE Logging
    BY <1>1 DEF Logging, LogEntry, LogOfOthers
<1>2. CASE Waiting
    BY <1>2 DEF Waiting, StartWaiting, WaitReturns, WaitAgain, WaitFails
<1>3. ASSUME NEW e, ReadEntry(e) PROVE NothingMissed'
    BY <1>3 DEF ReadEntry
<1>4. CASE BeginReading \/ ReadAll \/ ReadFails
    BY <1>4 DEF BeginReading, ReadAll, ReadFails
<1>5. CASE UNCHANGED journalVars
    BY <1>5 DEF journalVars
<1> QED
    BY <1>1, <1>2, <1>3, <1>4, <1>5 DEF JournalNext, JournalQuiet, ReadingQuietly

\* In the composition the journal takes its own steps or none.
LEMMA JournalUndisturbed ==
    ASSUME [ReportNext]_reportVars
    PROVE  [JournalNext]_journalVars
BY DEF ReportNext, MatchFound, JournalNext, reportVars

LEMMA JournalInvariants ==
    ReportSpec => [](HandleUsedByOne /\ NothingMissed)
<1>1. ReportInit => HandleUsedByOne /\ NothingMissed
    BY DEF ReportInit, JournalInit, HandleUsedByOne, NothingMissed
<1>2. HandleUsedByOne /\ NothingMissed /\ [ReportNext]_reportVars => (HandleUsedByOne /\ NothingMissed)'
    BY JournalUndisturbed, HandleStep, NewsStep
<1> QED
    BY <1>1, <1>2, PTL DEF ReportSpec

\* The waiter's thread and the main thread hand the journal to each other, and
\* neither touches it after it was closed.
THEOREM HandleIsHandedOver ==
    ReportSpec => []HandleUsedByOne
BY JournalInvariants, PTL

\* An entry that is written while the other one is read, or between two waits,
\* wakes the waiter up again.
THEOREM NoEntryIsMissed ==
    ReportSpec => []NothingMissed
BY JournalInvariants, PTL

(***************************************************************************)
(* The mirror.  A flag is either still asked for, or the last value of it  *)
(* under way - the mirror's, when there is none - is right.                *)
(***************************************************************************)

Messages == [flag : Flags, value : BOOLEAN]

Asks(f) == \E i \in DOMAIN asked : asked[i] = f

Last(f, v, ch, m) ==
    \/ \E i \in DOMAIN ch :
           ch[i].flag = f /\ ch[i].value = v /\ \A j \in DOMAIN ch : i < j => ch[j].flag # f
    \/ (\A i \in DOMAIN ch : ch[i].flag # f) /\ m[f] = v

\* Nothing announces the end of the server's thread.
Right(f, v) ==
    /\ f = "failure" => v = failed
    /\ f = "toggle" => v = (toggles # {})
    /\ f = "loaded" => (IsLoaded => v)

MirrorType ==
    /\ registered \in BOOLEAN /\ page \in BOOLEAN /\ failed \in BOOLEAN
    /\ asked \in Seq(Flags) /\ channel \in Seq(Messages) /\ mirror \in [Flags -> BOOLEAN]

MirrorInv ==
    /\ MirrorType
    /\ ~page \/ ~registered => channel = <<>>
    /\ ~page => asked = <<>>
    /\ page /\ ~registered => \A f \in Flags : Asks(f)
    /\ page => \A f \in Flags :
          Asks(f) \/ \E v \in BOOLEAN : Last(f, v, channel, mirror) /\ Right(f, v)

LEMMA LastAppended ==
    ASSUME NEW ch \in Seq(Messages), NEW m, NEW g \in Flags, NEW w \in BOOLEAN
    PROVE  LET next == Append(ch, [flag |-> g, value |-> w])
           IN  /\ next \in Seq(Messages)
               /\ Last(g, w, next, m)
               /\ \A f \in Flags \ {g}, v \in BOOLEAN : Last(f, v, ch, m) => Last(f, v, next, m)
<1> DEFINE e == [flag |-> g, value |-> w]
           next == Append(ch, e)
<1>1. e \in Messages /\ e.flag = g /\ e.value = w
    BY DEF Messages
<1> HIDE DEF e
<1>2. /\ next \in Seq(Messages)
      /\ DOMAIN ch = 1 .. Len(ch) /\ Len(ch) \in Nat
      /\ DOMAIN next = 1 .. Len(ch) + 1 /\ next[Len(ch) + 1] = e
      /\ \A i \in DOMAIN ch : next[i] = ch[i]
    BY <1>1
<1> HIDE DEF next
<1>3. Last(g, w, next, m)
    BY <1>1, <1>2 DEF Last
<1>4. ASSUME NEW f \in Flags \ {g}, NEW v \in BOOLEAN, Last(f, v, ch, m)
      PROVE  Last(f, v, next, m)
    <2>1. CASE \E i \in DOMAIN ch :
              ch[i].flag = f /\ ch[i].value = v /\ \A j \in DOMAIN ch : i < j => ch[j].flag # f
        BY <1>1, <1>2, <2>1 DEF Last
    <2>2. CASE (\A i \in DOMAIN ch : ch[i].flag # f) /\ m[f] = v
        BY <1>1, <1>2, <2>2 DEF Last
    <2> QED
        BY <1>4, <2>1, <2>2 DEF Last
<1> QED
    BY <1>2, <1>3, <1>4 DEF next, e

LEMMA Emitted ==
    ASSUME NEW ch \in Seq(Messages), NEW g \in Flags, NEW w \in BOOLEAN
    PROVE  /\ ch \o Signal(g, w) \in Seq(Messages)
           /\ ~page \/ ~registered => ch \o Signal(g, w) = ch
           /\ page /\ registered => Last(g, w, ch \o Signal(g, w), mirror)
           /\ \A f \in Flags \ {g}, v \in BOOLEAN :
                  Last(f, v, ch, mirror) => Last(f, v, ch \o Signal(g, w), mirror)
<1>1. CASE page /\ registered
    <2>1. [flag |-> g, value |-> w] \in Messages
        BY DEF Messages
    <2>2. ch \o Signal(g, w) = Append(ch, [flag |-> g, value |-> w])
        BY <1>1, <2>1 DEF Signal
    <2> QED
        BY <1>1, <2>2, LastAppended
<1>2. CASE ~page \/ ~registered
    <2>1. ch \o Signal(g, w) = ch
        BY <1>2 DEF Signal
    <2> QED
        BY <1>2, <2>1
<1> QED
    BY <1>1, <1>2

LEMMA Delivered ==
    ASSUME NEW ch \in Seq(Messages), ch # <<>>, NEW m \in [Flags -> BOOLEAN],
           NEW f \in Flags, NEW v \in BOOLEAN, Last(f, v, ch, m)
    PROVE  Last(f, v, Tail(ch), [m EXCEPT ![Head(ch).flag] = Head(ch).value])
<1> DEFINE m2 == [m EXCEPT ![Head(ch).flag] = Head(ch).value]
           rest == Tail(ch)
<1>1. /\ Len(ch) \in Nat \ {0} /\ DOMAIN ch = 1 .. Len(ch) /\ Head(ch) = ch[1] /\ ch[1] \in Messages
      /\ DOMAIN rest = 1 .. Len(ch) - 1
      /\ \A i \in DOMAIN rest : rest[i] = ch[i + 1]
    OBVIOUS
<1>2. m2[f] = IF f = ch[1].flag THEN ch[1].value ELSE m[f]
    BY <1>1 DEF Messages
<1> HIDE DEF m2, rest
<1>3. ASSUME NEW i \in DOMAIN ch, ch[i].flag = f, ch[i].value = v,
             \A j \in DOMAIN ch : i < j => ch[j].flag # f
      PROVE  Last(f, v, rest, m2)
    <2>1. CASE i = 1
        <3>1. \A j \in DOMAIN rest : rest[j].flag # f
            BY <1>1, <1>3, <2>1
        <3> QED
            BY <1>2, <1>3, <2>1, <3>1 DEF Last
    <2>2. CASE i # 1
        <3>1. i - 1 \in DOMAIN rest /\ rest[i - 1] = ch[i]
            BY <1>1, <2>2
        <3>2. \A j \in DOMAIN rest : i - 1 < j => rest[j].flag # f
            BY <1>1, <1>3
        <3> QED
            BY <1>3, <3>1, <3>2 DEF Last
    <2> QED
        BY <2>1, <2>2
<1>4. ASSUME \A i \in DOMAIN ch : ch[i].flag # f, m[f] = v
      PROVE  Last(f, v, rest, m2)
    BY <1>1, <1>2, <1>4 DEF Last
<1> QED
    BY <1>3, <1>4 DEF Last, m2, rest

\* A step of the daemon keeps the invariant if the last value of each flag is
\* right after it, or stays the last and stays right.
LEMMA DaemonKeepsMirror ==
    ASSUME MirrorInv, UNCHANGED <<registered, page, asked, mirror>>, failed' \in BOOLEAN,
           channel' \in Seq(Messages), ~page \/ ~registered => channel' = channel,
           page /\ registered => \A f \in Flags :
               \/ \E v \in BOOLEAN : Last(f, v, channel', mirror) /\ Right(f, v)'
               \/ \A v \in BOOLEAN : Last(f, v, channel, mirror) /\ Right(f, v)
                                      => Last(f, v, channel', mirror) /\ Right(f, v)'
    PROVE  MirrorInv'
<1>1. MirrorType'
    BY DEF MirrorInv, MirrorType
<1>2. ASSUME page, NEW f \in Flags
      PROVE  Asks(f)' \/ \E v \in BOOLEAN : Last(f, v, channel', mirror') /\ Right(f, v)'
    <2>1. CASE registered
        BY <1>2, <2>1 DEF MirrorInv, Asks
    <2>2. CASE ~registered
        BY <1>2, <2>2 DEF MirrorInv, Asks
    <2> QED
        BY <2>1, <2>2
<1>3. page /\ ~registered => \A f \in Flags : Asks(f)'
    BY DEF MirrorInv, Asks
<1> QED
    BY <1>1, <1>2, <1>3 DEF MirrorInv

LEMMA Quiet ==
    ASSUME MirrorInv, UNCHANGED <<registered, page, asked, mirror, channel, failed>>,
           toggles' = toggles, IsLoaded' => IsLoaded
    PROVE  MirrorInv'
<1>1. \A f \in Flags, v \in BOOLEAN : Right(f, v) => Right(f, v)'
    BY DEF Right
<1> QED
    BY <1>1, DaemonKeepsMirror DEF MirrorInv, MirrorType

\* A change that is announced by a signal.
LEMMA Announced ==
    ASSUME MirrorInv, UNCHANGED <<registered, page, asked, mirror>>, failed' \in BOOLEAN,
           NEW g \in Flags, NEW w \in BOOLEAN, channel' = channel \o Signal(g, w),
           Right(g, w)',
           \A f \in Flags \ {g}, v \in BOOLEAN : Right(f, v) => Right(f, v)'
    PROVE  MirrorInv'
<1>1. channel \in Seq(Messages)
    BY DEF MirrorInv, MirrorType
<1> QED
    BY <1>1, Emitted, DaemonKeepsMirror

\* unapplyAllPatches announces that services wait, unless they did before.
LEMMA UnapplyAllKeepsMirror ==
    ASSUME MirrorInv, UNCHANGED <<registered, page, asked, mirror, failed>>, IsLoaded' => IsLoaded,
           UnapplyAll(<<>>)
    PROVE  MirrorInv'
<1>1. channel \in Seq(Messages)
    BY DEF MirrorInv, MirrorType
<1>2. channel' = channel \o Toggled(enabled)
    BY <1>1 DEF UnapplyAll
<1>3. CASE enabled \subseteq toggles
    BY <1>1, <1>2, <1>3, Quiet DEF UnapplyAll, Toggled
<1>4. CASE ~(enabled \subseteq toggles)
    <2>1. channel' = channel \o Signal("toggle", TRUE) /\ "toggle" \in Flags
        BY <1>2, <1>4 DEF Toggled, Flags
    <2>2. toggles' # {}
        BY <1>4 DEF UnapplyAll
    <2>3. failed' \in BOOLEAN /\ Right("toggle", TRUE)'
        BY <2>2 DEF Right, MirrorInv, MirrorType
    <2>4. \A f \in Flags \ {"toggle"}, v \in BOOLEAN : Right(f, v) => Right(f, v)'
        BY DEF Right, Flags
    <2> QED
        BY <2>1, <2>3, <2>4, Announced
<1> QED
    BY <1>3, <1>4

\* The failure is announced first, then the services that wait because of it.
LEMMA FailureKeepsMirror ==
    ASSUME MirrorInv, OnFailureOccured
    PROVE  MirrorInv'
<1>0. UNCHANGED <<registered, page, asked, mirror>> /\ (IsLoaded' => IsLoaded)
    BY DEF OnFailureOccured, IsLoaded
<1>1. CASE failed
    <2>1. UNCHANGED <<channel, failed, toggles>>
        BY <1>1 DEF OnFailureOccured
    <2> QED
        BY <1>0, <2>1, Quiet
<1>2. CASE ~failed
    <2> DEFINE first == channel \o Signal("failure", TRUE)
    <2>1. /\ channel' = first \o Toggled(enabled) /\ failed' = TRUE
          /\ toggles' = toggles \union enabled
        BY <1>2 DEF OnFailureOccured, UnapplyAll
    <2>2. channel \in Seq(Messages) /\ "failure" \in Flags /\ "toggle" \in Flags
        BY DEF MirrorInv, MirrorType, Flags
    <2>3. /\ first \in Seq(Messages)
          /\ ~page \/ ~registered => first = channel
          /\ page /\ registered => Last("failure", TRUE, first, mirror)
          /\ \A f \in Flags \ {"failure"}, v \in BOOLEAN :
                 Last(f, v, channel, mirror) => Last(f, v, first, mirror)
        BY <2>2, Emitted
    <2> HIDE DEF first
    <2>4. /\ Right("failure", TRUE)'
          /\ \A v \in BOOLEAN : Right("loaded", v) => Right("loaded", v)'
        BY <1>0, <2>1 DEF Right
    <2>5. Flags = {"failure", "loaded", "toggle"}
        BY DEF Flags
    <2>6. CASE enabled \subseteq toggles
        <3>1. channel' = first /\ toggles' = toggles
            BY <2>1, <2>3, <2>6 DEF Toggled
        <3>2. \A v \in BOOLEAN : Right("toggle", v) => Right("toggle", v)'
            BY <3>1 DEF Right
        <3> QED
            BY <1>0, <2>1, <2>3, <2>4, <2>5, <3>1, <3>2, DaemonKeepsMirror
    <2>7. CASE ~(enabled \subseteq toggles)
        <3>1. channel' = first \o Signal("toggle", TRUE)
            BY <2>1, <2>7 DEF Toggled
        <3>2. Right("toggle", TRUE)'
            BY <2>1, <2>7 DEF Right
        <3>3. /\ channel' \in Seq(Messages)
              /\ ~page \/ ~registered => channel' = first
              /\ page /\ registered => Last("toggle", TRUE, channel', mirror)
              /\ \A f \in Flags \ {"toggle"}, v \in BOOLEAN :
                     Last(f, v, first, mirror) => Last(f, v, channel', mirror)
            BY <2>2, <2>3, <3>1, Emitted
        <3> QED
            BY <1>0, <2>1, <2>3, <2>4, <2>5, <3>2, <3>3, DaemonKeepsMirror
    <2> QED
        BY <2>6, <2>7
<1> QED
    BY <1>1, <1>2 DEF MirrorInv, MirrorType

LEMMA ClosedKeepsMirror ==
    ASSUME MirrorInv, PageEnds, UNCHANGED <<registered, failed>>
    PROVE  MirrorInv'
<1>1. mirror' \in [Flags -> BOOLEAN]
    BY DEF PageEnds, Unset
<1>2. asked' \in Seq(Flags) /\ channel' \in Seq(Messages) /\ page' = FALSE /\ channel' = <<>> /\ asked' = <<>>
    BY DEF PageEnds
<1> QED
    BY <1>1, <1>2 DEF MirrorInv, MirrorType

LEMMA PostedKeepsMirror ==
    ASSUME MirrorInv, Posted
    PROVE  MirrorInv'
<1>1. CASE DoRegister
    <2>1. /\ UNCHANGED <<failed, thread, toggles, page, asked, channel, mirror>> /\ registered' = TRUE
        BY <1>1 DEF DoRegister
    <2> QED
        BY <2>1 DEF MirrorInv, MirrorType, Asks, Right, IsLoaded
<1>2. CASE DoApplyAll
    BY <1>2, Quiet DEF DoApplyAll, IsLoaded
<1>3. CASE DoStart
    <2>1. CASE IsLoaded
        BY <1>3, <2>1, Quiet DEF DoStart, IsLoaded
    <2>2. CASE ~IsLoaded
        <3>1. /\ UNCHANGED <<registered, page, asked, mirror, failed, toggles>>
              /\ channel' = channel \o Signal("loaded", TRUE) /\ "loaded" \in Flags
            BY <1>3, <2>2 DEF DoStart, Flags
        <3>2. failed' \in BOOLEAN /\ Right("loaded", TRUE)'
            BY <3>1 DEF Right, MirrorInv, MirrorType
        <3>3. \A f \in Flags \ {"loaded"}, v \in BOOLEAN : Right(f, v) => Right(f, v)'
            BY <3>1 DEF Right
        <3> QED
            BY <3>1, <3>2, <3>3, Announced
    <2> QED
        BY <2>1, <2>2
<1>4. CASE DoRestartHome
    <2>1. CASE PageEnds
        BY <1>4, <2>1, ClosedKeepsMirror DEF DoRestartHome
    <2>2. CASE UNCHANGED <<page, asked, channel, mirror>>
        BY <1>4, <2>2, Quiet DEF DoRestartHome, IsLoaded
    <2> QED
        BY <1>4, <2>1, <2>2 DEF DoRestartHome
<1> QED
    BY <1>1, <1>2, <1>3, <1>4 DEF Posted

LEMMA RequestedKeepsMirror ==
    ASSUME MirrorInv, Requested
    PROVE  MirrorInv'
<1>0. failed \in BOOLEAN /\ channel \in Seq(Messages)
    BY DEF MirrorInv, MirrorType
<1>1. CASE ResolveFailure
    <2>1. /\ UNCHANGED <<registered, page, asked, mirror, thread, toggles>> /\ failed' = FALSE
          /\ channel' = channel \o Signal("failure", FALSE) /\ "failure" \in Flags
        BY <1>1 DEF ResolveFailure, Flags
    <2>2. Right("failure", FALSE)'
        BY <2>1 DEF Right
    <2>3. \A f \in Flags \ {"failure"}, v \in BOOLEAN : Right(f, v) => Right(f, v)'
        BY <2>1 DEF Right, IsLoaded
    <2> QED
        BY <2>1, <2>2, <2>3, Announced
<1>2. CASE LoadRequestApply
    BY <1>2, Quiet DEF LoadRequestApply, IsLoaded
<1>3. CASE LoadRequestUnapply
    BY <1>3, UnapplyAllKeepsMirror DEF LoadRequestUnapply, IsLoaded
<1>4. CASE UnapplyAllPatches
    BY <1>4, UnapplyAllKeepsMirror DEF UnapplyAllPatches, IsLoaded
<1>5. CASE RestorePatchList
    BY <1>5, Quiet DEF RestorePatchList, IsLoaded
<1>6. CASE RestartServices
    <2>1. /\ UNCHANGED <<registered, page, asked, mirror, thread, failed>> /\ toggles' = {}
          /\ channel' = channel \o Signal("toggle", FALSE) /\ "toggle" \in Flags
        BY <1>6 DEF RestartServices, Flags
    <2>2. Right("toggle", FALSE)'
        BY <2>1 DEF Right
    <2>3. \A f \in Flags \ {"toggle"}, v \in BOOLEAN : Right(f, v) => Right(f, v)'
        BY <2>1 DEF Right, IsLoaded
    <2> QED
        BY <1>0, <2>1, <2>2, <2>3, Announced
<1>7. ASSUME NEW p \in Patches, DoPatch(p) PROVE MirrorInv'
    <2>1. /\ UNCHANGED <<registered, page, asked, mirror, thread, failed>>
          /\ toggles' = toggles \union {p} /\ channel' = channel \o Toggled({p}) /\ "toggle" \in Flags
        BY <1>7 DEF DoPatch, Flags
    <2>2. CASE p \in toggles
        <3>1. channel' = channel /\ toggles' = toggles
            BY <1>0, <2>1, <2>2 DEF Toggled
        <3> QED
            BY <2>1, <3>1, Quiet DEF IsLoaded
    <2>3. CASE p \notin toggles
        <3>1. channel' = channel \o Signal("toggle", TRUE)
            BY <2>1, <2>3 DEF Toggled
        <3>2. Right("toggle", TRUE)'
            BY <2>1 DEF Right
        <3>3. \A f \in Flags \ {"toggle"}, v \in BOOLEAN : Right(f, v) => Right(f, v)'
            BY <2>1 DEF Right, IsLoaded
        <3> QED
            BY <1>0, <2>1, <3>1, <3>2, <3>3, Announced
    <2> QED
        BY <2>2, <2>3
<1> QED
    BY <1>1, <1>2, <1>3, <1>4, <1>5, <1>6, <1>7 DEF Requested

\* An answer is the value of the moment, and comes after all signals before it.
LEMMA AnswerKeepsMirror ==
    ASSUME MirrorInv, AnswerCall
    PROVE  MirrorInv'
<1> DEFINE g == Head(asked)
           w == Value[Head(asked)]
<1>1. /\ registered /\ asked # <<>> /\ asked' = Tail(asked)
      /\ channel' = Append(channel, [flag |-> g, value |-> w])
      /\ UNCHANGED <<registered, failed, thread, toggles, page, mirror>>
    BY DEF AnswerCall, daemonFlags
<1>2. /\ asked \in Seq(Flags) /\ channel \in Seq(Messages) /\ failed \in BOOLEAN
      /\ page
    BY <1>1 DEF MirrorInv, MirrorType
<1>3. /\ g \in Flags /\ asked' \in Seq(Flags)
      /\ \A f \in Flags \ {g} : Asks(f) => Asks(f)'
    <2>1. /\ Len(asked) \in Nat \ {0} /\ DOMAIN asked = 1 .. Len(asked) /\ g = asked[1]
          /\ DOMAIN asked' = 1 .. Len(asked) - 1 /\ \A i \in DOMAIN asked' : asked'[i] = asked[i + 1]
          /\ asked' \in Seq(Flags) /\ g \in Flags
        BY <1>1, <1>2
    <2>2. ASSUME NEW f \in Flags \ {g}, NEW i \in DOMAIN asked, asked[i] = f PROVE Asks(f)'
        <3>1. i - 1 \in DOMAIN asked' /\ asked'[i - 1] = f
            BY <2>1, <2>2
        <3> QED
            BY <3>1 DEF Asks
    <2> QED
        BY <2>1, <2>2 DEF Asks
<1>4. w \in BOOLEAN /\ Right(g, w)
    <2>1. /\ g = "failure" => w = failed
          /\ g = "loaded" => w = IsLoaded
          /\ g = "toggle" => w = (toggles # {})
        BY <1>3 DEF Value, Flags
    <2>2. IsLoaded \in BOOLEAN /\ (toggles # {}) \in BOOLEAN
        BY DEF IsLoaded
    <2> HIDE DEF g, w
    <2>3. w \in BOOLEAN
        BY <1>2, <1>3, <2>1, <2>2 DEF Flags
    <2>4. Right(g, w)
        BY <2>1 DEF Right
    <2> QED
        BY <2>3, <2>4
<1> HIDE DEF g, w
<1>5. \A f \in Flags, v \in BOOLEAN : Right(f, v) => Right(f, v)'
    BY <1>1 DEF Right, IsLoaded
<1>6. /\ channel' \in Seq(Messages)
      /\ Last(g, w, channel', mirror)
      /\ \A f \in Flags \ {g}, v \in BOOLEAN :
             Last(f, v, channel, mirror) => Last(f, v, channel', mirror)
    BY <1>1, <1>2, <1>3, <1>4, LastAppended
<1> QED
    BY <1>1, <1>2, <1>3, <1>4, <1>5, <1>6 DEF MirrorInv, MirrorType

LEMMA PluginKeepsMirror ==
    ASSUME MirrorInv, Plugin
    PROVE  MirrorInv'
<1>1. CASE OpenPage
    <2>1. /\ ~page /\ page' /\ mirror' = Unset /\ asked' = <<"toggle", "failure", "loaded">>
          /\ UNCHANGED <<registered, failed, channel>> /\ channel = <<>>
        BY <1>1 DEF OpenPage, daemonFlags, MirrorInv
    <2>2. asked' \in Seq(Flags)
        BY <2>1 DEF Flags
    <2>3. \A f \in Flags : Asks(f)'
        <3>1. /\ DOMAIN asked' = 1 .. 3
              /\ asked'[1] = "toggle" /\ asked'[2] = "failure" /\ asked'[3] = "loaded"
            BY <2>1
        <3> QED
            BY <3>1 DEF Asks, Flags
    <2>4. page' \in BOOLEAN /\ mirror' \in [Flags -> BOOLEAN]
        BY <1>1 DEF OpenPage, Unset
    <2> QED
        BY <2>1, <2>2, <2>3, <2>4 DEF MirrorInv, MirrorType
<1>2. CASE ClosePage
    BY <1>2, ClosedKeepsMirror DEF ClosePage, daemonFlags
<1>3. CASE OnChanged
    <2>1. /\ page /\ channel # <<>> /\ channel' = Tail(channel)
          /\ mirror' = [mirror EXCEPT ![Head(channel).flag] = Head(channel).value]
          /\ UNCHANGED <<registered, failed, thread, toggles, page, asked>>
        BY <1>3 DEF OnChanged, daemonFlags
    <2>2. channel \in Seq(Messages) /\ mirror \in [Flags -> BOOLEAN]
        BY DEF MirrorInv, MirrorType
    <2>3. Head(channel) \in Messages /\ channel' \in Seq(Messages)
        BY <2>1, <2>2
    <2>4. mirror' \in [Flags -> BOOLEAN]
        BY <2>1, <2>2, <2>3 DEF Messages
    <2>5. \A f \in Flags, v \in BOOLEAN :
              Last(f, v, channel, mirror) => Last(f, v, channel', mirror')
        BY <2>1, <2>2, Delivered
    <2>6. \A f \in Flags, v \in BOOLEAN : Right(f, v) => Right(f, v)'
        BY <2>1 DEF Right, IsLoaded
    <2> QED
        BY <2>1, <2>3, <2>4, <2>5, <2>6, ZenonT(40) DEF MirrorInv, MirrorType, Asks
<1> QED
    BY <1>1, <1>2, <1>3 DEF Plugin

LEMMA MirrorStep ==
    ASSUME MirrorInv, [ReportNext]_reportVars
    PROVE  MirrorInv'
<1>1. CASE MatchFound
    BY <1>1, FailureKeepsMirror DEF MatchFound
<1>2. CASE ThreadEnds
    BY <1>2, Quiet DEF ThreadEnds, IsLoaded
<1>3. CASE UNCHANGED pageVars
    BY <1>3, Quiet DEF pageVars, daemonFlags, IsLoaded
<1> QED
    BY <1>1, <1>2, <1>3, PostedKeepsMirror, RequestedKeepsMirror, AnswerKeepsMirror, PluginKeepsMirror
    DEF ReportNext, PageNext, reportVars

\* Once every answer and signal has arrived, the settings page shows the failure
\* and the services that wait as the daemon holds them, and a server that runs,
\* wherever registration, opening the page and failures come in between.
THEOREM MirrorConverges ==
    ReportSpec => []MirrorAgrees
<1>1. ReportInit => MirrorInv
    <2>1. Unset \in [Flags -> BOOLEAN]
        BY DEF Unset
    <2> SUFFICES ASSUME ReportInit PROVE MirrorInv
        OBVIOUS
    <2>2. /\ registered = FALSE /\ failed = FALSE /\ page = FALSE
          /\ asked = <<>> /\ channel = <<>> /\ mirror = Unset
        BY DEF ReportInit, PageInit
    <2>3. asked \in Seq(Flags) /\ channel \in Seq(Messages)
        BY <2>2
    <2> QED
        BY <2>1, <2>2, <2>3 DEF MirrorInv, MirrorType
<1>2. MirrorInv => MirrorAgrees
    <2> SUFFICES ASSUME MirrorInv, Settled
                 PROVE  /\ mirror["failure"] = failed
                        /\ mirror["toggle"] = (toggles # {})
                        /\ IsLoaded => mirror["loaded"]
        BY DEF MirrorAgrees
    <2>1. \A f \in Flags : Right(f, mirror[f])
        BY DEF MirrorInv, Settled, Asks, Last
    <2> QED
        BY <2>1 DEF Right, Flags
<1> QED
    BY <1>1, <1>2, MirrorStep, PTL DEF ReportSpec

=============================================================================
