----------------------------- MODULE CatalogProofs -----------------------------
(***************************************************************************)
(* Theorems about Catalog: what an announced update means, what a call is  *)
(* told, and that none is dropped, for all patches, versions and calls.    *)
(***************************************************************************)
EXTENDS Catalog, TLAPS

(***************************************************************************)
(* Types.                                                                  *)
(***************************************************************************)

LEMMA Appended ==
    ASSUME NEW S, NEW s \in Seq(S), NEW e \in S
    PROVE  /\ Append(s, e) \in Seq(S)
           /\ Len(Append(s, e)) = Len(s) + 1 /\ DOMAIN Append(s, e) = 1 .. Len(s) + 1
           /\ \A i \in DOMAIN s : Append(s, e)[i] = s[i]
           /\ Append(s, e)[Len(s) + 1] = e
OBVIOUS

\* A call that was made has all fields, and keeps its type at any other stage.
LEMMA CallType ==
    ASSUME CatalogTypeOK, NEW c \in Calls, NEW stage \in Stages, call[c].at # "none"
    PROVE  /\ call[c] \in AllCalls
           /\ [call[c] EXCEPT !.at = stage] \in AllCalls
           /\ Moved(call[c], stage) \in AllCalls
<1>1. call[c] \in AllCalls
    BY DEF CatalogTypeOK, NoCall
<1> DEFINE v == IF stage \in {"done", "lost"} THEN 0 ELSE call[c].version
<1>2. v \in MaybeVersions
    BY <1>1, CatalogAssumption DEF AllCalls, MaybeVersions
<1>3. Moved(call[c], stage) = [call[c] EXCEPT !.at = stage, !.version = v]
    BY <1>1 DEF Moved, AllCalls
<1> HIDE DEF v
<1> QED
    BY <1>1, <1>2, <1>3 DEF AllCalls

LEMMA AtStage ==
    ASSUME NEW k \in AllCalls, NEW stage
    PROVE  /\ [k EXCEPT !.at = stage].at = stage
           /\ Moved(k, stage).at = stage /\ Moved(k, stage).method = k.method
BY DEF AllCalls, Moved

LEMMA GoesToType ==
    ASSUME CatalogTypeOK, NEW c \in Calls, NEW stage \in Stages, call[c].at # "none", GoesTo(c, stage)
    PROVE  /\ call' \in [Calls -> AllCalls \union {NoCall}]
           /\ \A d \in Calls : call'[d] = IF d = c THEN Moved(call[c], stage) ELSE call[d]
BY CallType DEF GoesTo, CatalogTypeOK

LEMMA SendType ==
    ASSUME CatalogTypeOK, NEW c \in Calls, NEW r \in Replies, Send(c, r)
    PROVE  /\ replies' \in [Calls -> Seq(Replies)]
           /\ \A d \in Calls : replies'[d] = IF d = c THEN Append(replies[c], r) ELSE replies[d]
BY DEF Send, CatalogTypeOK

LEMMA MakesCallType ==
    ASSUME CatalogTypeOK, NEW c \in Calls, NEW m \in Methods, NEW p \in Patches,
           NEW v \in MaybeVersions, MakesCall(c, m, p, v)
    PROVE  call' \in [Calls -> AllCalls \union {NoCall}]
BY DEF MakesCall, CatalogTypeOK, AllCalls, Stages

LEMMA HandledType ==
    ASSUME CatalogTypeOK, NEW h, NEW c, Handles(h, c)
    PROVE  posted' \in Seq(Handlers \X Calls)
BY DEF Handles, CatalogTypeOK

LEMMA MethodType ==
    ASSUME CatalogTypeOK, NEW c \in Calls, Method(c)
    PROVE  CatalogTypeOK'
<1>1. ASSUME NEW p \in Patches, UninstallPatch(c, p) PROVE CatalogTypeOK'
    <2>1. call' \in [Calls -> AllCalls \union {NoCall}]
        BY <1>1, MakesCallType, CatalogAssumption DEF UninstallPatch, Methods, MaybeVersions
    <2>2. posted \in Seq(Handlers \X Calls) /\ <<"unapply", c>> \in Handlers \X Calls
              /\ <<"uninstall", c>> \in Handlers \X Calls
        BY DEF CatalogTypeOK, Handlers
    <2>3. /\ Append(posted, <<"uninstall", c>>) \in Seq(Handlers \X Calls)
          /\ Append(posted, <<"unapply", c>>) \in Seq(Handlers \X Calls)
        BY <2>2, Appended
    <2>4. Append(Append(posted, <<"unapply", c>>), <<"uninstall", c>>) \in Seq(Handlers \X Calls)
        BY <2>2, <2>3, Appended
    <2>5. posted' \in Seq(Handlers \X Calls)
        BY <1>1, <2>3, <2>4 DEF UninstallPatch
    <2> QED
        BY <1>1, <2>1, <2>5 DEF UninstallPatch, CatalogTypeOK
<1>2. ASSUME NEW p \in Patches, Query(c, p) PROVE CatalogTypeOK'
    <2>1. call' \in [Calls -> AllCalls \union {NoCall}]
        BY <1>2, MakesCallType, CatalogAssumption DEF Query, Methods, MaybeVersions
    <2> QED
        BY <1>2, <2>1 DEF Query, CatalogTypeOK, Handlers
<1>3. ASSUME NEW p \in Patches, NEW v \in Versions, InstallPatch(c, p, v) PROVE CatalogTypeOK'
    <2>1. call' \in [Calls -> AllCalls \union {NoCall}]
        BY <1>3, MakesCallType, CatalogAssumption DEF InstallPatch, Methods, Versions, MaybeVersions
    <2> QED
        BY <1>3, <2>1 DEF InstallPatch, CatalogTypeOK, Handlers
<1>4. ASSUME NEW p \in Patches, CheckEaster(c, p) PROVE CatalogTypeOK'
    <2>1. call' \in [Calls -> AllCalls \union {NoCall}]
        BY <1>4, MakesCallType, CatalogAssumption DEF CheckEaster, Methods, MaybeVersions
    <2>2. replies' \in [Calls -> Seq(Replies)]
        BY <1>4, SendType DEF CheckEaster, Replies
    <2> QED
        BY <1>4, <2>1, <2>2 DEF CheckEaster, CatalogTypeOK, Handlers
<1> QED
    BY <1>1, <1>2, <1>3, <1>4 DEF Method

LEMMA ReturnType ==
    ASSUME CatalogTypeOK, NEW c \in Calls, Return(c)
    PROVE  CatalogTypeOK'
BY DEF Return, CatalogTypeOK

LEMMA PostedType ==
    ASSUME CatalogTypeOK, NEW c \in Calls, Posted(c), call[c].at # "none"
    PROVE  CatalogTypeOK'
<1>1. ASSUME NEW h \in Handlers, DoRequest(h, c) PROVE CatalogTypeOK'
    <2>1. call' \in [Calls -> AllCalls \union {NoCall}]
        BY <1>1, GoesToType DEF DoRequest, Stages
    <2> QED
        BY <1>1, <2>1, HandledType DEF DoRequest, CatalogTypeOK
<1>2. CASE DoUnapply(c)
    <2>1. replies' \in [Calls -> Seq(Replies)]
        BY <1>2, SendType DEF DoUnapply, Replies
    <2> QED
        BY <1>2, <2>1, HandledType DEF DoUnapply, CatalogTypeOK
<1>3. CASE DoUninstall(c)
    <2>1. call' \in [Calls -> AllCalls \union {NoCall}]
        BY <1>3, GoesToType DEF DoUninstall, Stages
    <2>2. replies' \in [Calls -> Seq(Replies)]
        BY <1>3, SendType DEF DoUninstall, Replies
    <2>3. 0 \in MaybeVersions
        BY CatalogAssumption DEF MaybeVersions
    <2>4. disk' \in [Patches -> MaybeVersions]
        BY <1>3, <2>3 DEF DoUninstall, CatalogTypeOK
    <2> QED
        BY <1>3, <2>1, <2>2, <2>4, HandledType DEF DoUninstall, CatalogTypeOK
<1> QED
    BY <1>1, <1>2, <1>3 DEF Posted, Handlers, Queries

LEMMA DataType ==
    ASSUME CatalogTypeOK, NEW c \in Calls, DataArrives(c)
    PROVE  CatalogTypeOK'
<1>0. call[c].at # "none"
    BY DEF DataArrives, QueryFails, QueryAnswered, InstallFails, InstallGoesOn, WaitsForData, Stage
<1>1. CASE QueryFails(c)
    <2>1. call' \in [Calls -> AllCalls \union {NoCall}]
        BY <1>0, <1>1, GoesToType DEF QueryFails, Stages
    <2>2. replies[c] \in Seq(Replies) /\ "error" \in Replies
        BY DEF CatalogTypeOK, Replies
    <2>3. Append(Append(replies[c], "error"), "error") \in Seq(Replies)
        BY <2>2, Appended
    <2> QED
        BY <1>1, <2>1, <2>3 DEF QueryFails, CatalogTypeOK
<1>2. CASE QueryAnswered(c)
    <2>1. call' \in [Calls -> AllCalls \union {NoCall}]
        BY <1>0, <1>2, GoesToType DEF QueryAnswered, Stages
    <2>2. replies' \in [Calls -> Seq(Replies)]
        BY <1>2, SendType DEF QueryAnswered, Replies
    <2> QED
        BY <1>2, <2>1, <2>2 DEF QueryAnswered, CatalogTypeOK
<1>3. CASE InstallFails(c)
    <2>1. call' \in [Calls -> AllCalls \union {NoCall}]
        BY <1>0, <1>3, GoesToType DEF InstallFails, Stages
    <2>2. replies' \in [Calls -> Seq(Replies)]
        BY <1>3, SendType DEF InstallFails, Replies
    <2> QED
        BY <1>3, <2>1, <2>2 DEF InstallFails, CatalogTypeOK
<1>4. CASE InstallGoesOn(c)
    <2>1. call' \in [Calls -> AllCalls \union {NoCall}]
        <3>1. CASE GoesTo(c, "lost")
            BY <1>0, <3>1, GoesToType DEF Stages
        <3>2. CASE call' = [d \in Calls |->
                   IF d = c \/ (Stage(d) = "missing" /\ SameUrl(c, d)) THEN [call[d] EXCEPT !.at = "archive"]
                   ELSE call[d]]
            BY <1>0, <3>2, CallType DEF Stages, Stage, CatalogTypeOK
        <3> QED
            BY <1>4, <3>1, <3>2 DEF InstallGoesOn, DownloadPatchArchive
    <2>2. replies' \in [Calls -> Seq(Replies)]
        BY <1>4, SendType DEF InstallGoesOn, Replies, CatalogTypeOK
    <2> QED
        BY <1>4, <2>1, <2>2 DEF InstallGoesOn, CatalogTypeOK
<1> QED
    BY <1>1, <1>2, <1>3, <1>4 DEF DataArrives

LEMMA RemovedType ==
    ASSUME CatalogTypeOK, NEW c \in Calls, call[c].at # "none", RemovesArchive(c)
    PROVE  call' \in [Calls -> AllCalls \union {NoCall}]
BY CallType DEF RemovesArchive, CatalogTypeOK, Stages, Stage

LEMMA ArchiveType ==
    ASSUME CatalogTypeOK, NEW c \in Calls, ArchiveArrives(c)
    PROVE  CatalogTypeOK'
<1>0. call[c].at # "none"
    BY DEF ArchiveArrives, DownloadFails, ArchiveIsGone, ArchiveUnpacked, ArchiveIsBroken, Stage
<1>a. call[c].version \in MaybeVersions /\ 0 \in MaybeVersions
    <2>1. call[c] \in AllCalls
        BY <1>0 DEF CatalogTypeOK, NoCall
    <2> QED
        BY <2>1, CatalogAssumption DEF AllCalls, MaybeVersions
<1>1. CASE DownloadFails(c)
    <2>1. call' \in [Calls -> AllCalls \union {NoCall}]
        BY <1>0, <1>1, GoesToType DEF DownloadFails, Stages
    <2>2. replies' \in [Calls -> Seq(Replies)]
        BY <1>1, SendType DEF DownloadFails, Replies
    <2> QED
        BY <1>1, <2>1, <2>2 DEF DownloadFails, CatalogTypeOK
<1>2. CASE ArchiveIsGone(c)
    <2>1. call' \in [Calls -> AllCalls \union {NoCall}]
        BY <1>0, <1>2, GoesToType DEF ArchiveIsGone, Stages
    <2>2. replies' \in [Calls -> Seq(Replies)]
        BY <1>2, SendType DEF ArchiveIsGone, Replies
    <2> QED
        BY <1>a, <1>2, <2>1, <2>2 DEF ArchiveIsGone, CatalogTypeOK
<1>3. CASE ArchiveUnpacked(c)
    <2>1. call' \in [Calls -> AllCalls \union {NoCall}]
        BY <1>0, <1>3, RemovedType DEF ArchiveUnpacked
    <2>2. replies' \in [Calls -> Seq(Replies)]
        BY <1>3, SendType DEF ArchiveUnpacked, Replies
    <2> QED
        BY <1>a, <1>3, <2>1, <2>2 DEF ArchiveUnpacked, CatalogTypeOK
<1>4. CASE ArchiveIsBroken(c)
    <2>1. call' \in [Calls -> AllCalls \union {NoCall}]
        BY <1>0, <1>4, RemovedType DEF ArchiveIsBroken
    <2>2. replies' \in [Calls -> Seq(Replies)]
        BY <1>4, SendType DEF ArchiveIsBroken, Replies
    <2> QED
        BY <1>a, <1>4, <2>1, <2>2 DEF ArchiveIsBroken, CatalogTypeOK
<1> QED
    BY <1>1, <1>2, <1>3, <1>4 DEF ArchiveArrives

LEMMA UpdatingType ==
    ASSUME CatalogTypeOK, Updating
    PROVE  CatalogTypeOK'
<1>1. CASE Refresh
    BY <1>1 DEF Refresh, CatalogTypeOK
<1>2. ASSUME NEW p \in Patches, ProjectsArrive(p) PROVE CatalogTypeOK'
    BY <1>2 DEF ProjectsArrive, CatalogTypeOK, MaybeVersions, Versions
<1>3. ASSUME NEW k \in checks, ProjectArrives(k) PROVE CatalogTypeOK'
    <2>1. \A latest \in k.version .. Latest : latest \in MaybeVersions
        BY CatalogAssumption DEF CatalogTypeOK, MaybeVersions, Versions
    <2> QED
        BY <1>3, <2>1 DEF ProjectArrives, CatalogTypeOK
<1> QED
    BY <1>1, <1>2, <1>3 DEF Updating

(***************************************************************************)
(* The queue and the replies.  What a call may be told depends on what it  *)
(* was told before, and so on where it is.                                 *)
(***************************************************************************)

Serves == [h \in Handlers |-> IF h = "unapply" THEN "uninstall" ELSE h]

\* A posted handler belongs to a call that waits for it, and to no other handler
\* but the deactivation before its uninstalling.
QueueInv ==
    \A i \in DOMAIN posted :
        /\ call[posted[i][2]].at = "posted"
        /\ call[posted[i][2]].method = Serves[posted[i][1]]
        /\ posted[i][1] = "unapply" => replies[posted[i][2]] = <<>>
        /\ \A j \in DOMAIN posted : i < j /\ posted[j][2] = posted[i][2] =>
               posted[i][1] = "unapply" /\ posted[j][1] = "uninstall"

Results == {"true", "false", "data"}

\* What a call has been told when its method returns.
First(m) == IF m = "easter" THEN <<"empty">> ELSE <<>>

\* What a call may have been told before its last reply, and in the end.
Begun(m, r) == r = First(m) \/ (m # "easter" /\ r \in {<<"error">>, <<"patched">>})

LastOnly(m, r) ==
    \A i \in DOMAIN r :
        /\ i <= IF m = "easter" THEN 3 ELSE 2
        /\ r[i] = "empty" <=> m = "easter" /\ i = 1
        /\ r[i] \in Results => i = Len(r)

Told(k, r) ==
    /\ k.at = "none" => r = <<>>
    /\ k.at = "posted" => r = First(k.method) \/ (k.method = "uninstall" /\ r = <<"patched">>)
    /\ k.at = "data" => r = First(k.method)
    /\ k.at \in {"archive", "missing", "lost"} => k.method = "install" /\ r \in {<<>>, <<"error">>}
    /\ k.at = "done" => LastOnly(k.method, r)

RepliesInv == \A c \in Calls : Told(call[c], replies[c])

CatalogInv == CatalogTypeOK /\ QueueInv /\ RepliesInv

LEMMA ServesMethod ==
    /\ Serves["unapply"] = "uninstall"
    /\ \A m \in Methods : Serves[m] = m
BY DEF Serves, Handlers, Methods

\* One more reply ends the call.
LEMMA Ending ==
    ASSUME NEW m, NEW r, Begun(m, r), NEW reply \in Replies \ {"empty"}
    PROVE  LastOnly(m, Append(r, reply))
<1>1. CASE r = <<>>
    <2>1. Append(r, reply) = <<reply>> /\ m # "easter"
        BY <1>1 DEF Begun, First
    <2> QED
        BY <2>1 DEF LastOnly
<1>2. ASSUME NEW first \in {"error", "patched", "empty"}, r = <<first>>
      PROVE  LastOnly(m, Append(r, reply))
    <2>1. r \in Seq(Replies) /\ Len(r) = 1 /\ 1 \in DOMAIN r /\ r[1] = first
        BY <1>2 DEF Replies
    <2>2. /\ Len(Append(r, reply)) = 2 /\ DOMAIN Append(r, reply) = 1 .. 2
          /\ Append(r, reply)[1] = first /\ Append(r, reply)[2] = reply
        BY <2>1, Appended
    <2>3. first = "empty" <=> m = "easter"
        BY <1>2, <2>1 DEF Begun, First
    <2> QED
        BY <2>2, <2>3 DEF LastOnly, Results
<1> QED
    BY <1>1, <1>2 DEF Begun, First

\* So do the two errors of a query.
LEMMA EndingTwice ==
    ASSUME NEW m \in Queries
    PROVE  LastOnly(m, Append(Append(First(m), "error"), "error"))
<1> DEFINE once == Append(First(m), "error")
           twice == Append(once, "error")
           n == IF m = "easter" THEN 1 ELSE 0
<1>1. /\ First(m) \in Seq(Replies) /\ Len(First(m)) = n /\ DOMAIN First(m) = 1 .. n
      /\ m = "easter" => First(m)[1] = "empty"
    <2>1. CASE m = "easter"
        <3>1. First(m) = <<"empty">> /\ n = 1
            BY <2>1 DEF First
        <3>2. <<"empty">> \in Seq(Replies) /\ Len(<<"empty">>) = 1 /\ DOMAIN <<"empty">> = 1 .. 1
            BY DEF Replies
        <3> QED
            BY <3>1, <3>2
    <2>2. CASE m # "easter"
        <3>1. First(m) = <<>> /\ n = 0
            BY <2>2 DEF First
        <3> QED
            BY <2>2, <3>1
    <2> QED
        BY <2>1, <2>2
<1> HIDE DEF n
<1>2. n \in {0, 1} /\ (n = 1 <=> m = "easter") /\ "error" \in Replies
    BY DEF n, Replies
<1>3. /\ once \in Seq(Replies) /\ Len(once) = n + 1 /\ DOMAIN once = 1 .. n + 1
      /\ once[n + 1] = "error" /\ (m = "easter" => once[1] = "empty")
    BY <1>1, <1>2, Appended
<1> HIDE DEF once
<1>4. /\ Len(twice) = n + 2 /\ DOMAIN twice = 1 .. n + 2
      /\ twice[n + 1] = "error" /\ twice[n + 2] = "error" /\ (m = "easter" => twice[1] = "empty")
    BY <1>2, <1>3, Appended
<1> HIDE DEF twice
<1>5. LastOnly(m, twice)
    BY <1>2, <1>4 DEF LastOnly, Results
<1> QED
    BY <1>5 DEF twice, once

LEMMA Dequeued ==
    ASSUME CatalogTypeOK, QueueInv, NEW h, NEW c, Handles(h, c)
    PROVE  /\ h \in Handlers /\ c \in Calls
           /\ call[c].at = "posted" /\ call[c].method = Serves[h]
           /\ h = "unapply" => replies[c] = <<>>
           /\ DOMAIN posted' = 1 .. Len(posted) - 1
           /\ \A i \in DOMAIN posted' :
                  /\ i \in Nat /\ i + 1 \in DOMAIN posted /\ posted'[i] = posted[i + 1]
                  /\ posted'[i][2] = c => h = "unapply" /\ posted'[i][1] = "uninstall"
<1>1. posted \in Seq(Handlers \X Calls) /\ posted # <<>> /\ Head(posted) = <<h, c>> /\ posted' = Tail(posted)
    BY DEF CatalogTypeOK, Handles
<1>2. Len(posted) \in Nat \ {0} /\ DOMAIN posted = 1 .. Len(posted) /\ 1 \in DOMAIN posted /\ posted[1] = <<h, c>>
    BY <1>1
<1>3. h \in Handlers /\ c \in Calls
    BY <1>1, <1>2
<1>4. DOMAIN posted' = 1 .. Len(posted) - 1
    BY <1>1, <1>2
<1>5. ASSUME NEW i \in DOMAIN posted'
      PROVE  /\ i \in Nat /\ i + 1 \in DOMAIN posted /\ posted'[i] = posted[i + 1]
             /\ posted'[i][2] = c => h = "unapply" /\ posted'[i][1] = "uninstall"
    <2>1. i \in Nat /\ 1 < i + 1 /\ i + 1 \in DOMAIN posted /\ posted'[i] = posted[i + 1]
        BY <1>1, <1>2, <1>4
    <2> QED
        BY <1>2, <2>1 DEF QueueInv
<1> QED
    BY <1>2, <1>3, <1>4, <1>5 DEF QueueInv

\* A handler of a call may change that call only: the rest of the queue is about
\* others, or is the uninstalling that follows the deactivation.
LEMMA QueueShortened ==
    ASSUME CatalogTypeOK, QueueInv, NEW h, NEW c, Handles(h, c),
           \A d \in Calls \ {c} : call'[d] = call[d] /\ replies'[d] = replies[d],
           h = "unapply" => call' = call
    PROVE  QueueInv'
<1>1. ASSUME NEW i \in DOMAIN posted'
      PROVE  /\ i \in Nat /\ i + 1 \in DOMAIN posted /\ posted'[i] = posted[i + 1]
             /\ posted[i + 1][2] \in Calls
             /\ posted'[i][2] = c => call' = call /\ posted'[i][1] = "uninstall"
    BY <1>1, Dequeued DEF CatalogTypeOK
<1>2. ASSUME NEW i \in DOMAIN posted'
      PROVE  /\ call'[posted'[i][2]].at = "posted"
             /\ call'[posted'[i][2]].method = Serves[posted'[i][1]]
             /\ posted'[i][1] = "unapply" => replies'[posted'[i][2]] = <<>>
    <2>1. CASE posted'[i][2] = c
        BY <1>1, <2>1 DEF QueueInv
    <2>2. CASE posted'[i][2] # c
        BY <1>1, <2>2 DEF QueueInv
    <2> QED
        BY <2>1, <2>2
<1>3. ASSUME NEW i \in DOMAIN posted', NEW j \in DOMAIN posted', i < j, posted'[j][2] = posted'[i][2]
      PROVE  posted'[i][1] = "unapply" /\ posted'[j][1] = "uninstall"
    <2>1. i + 1 < j + 1
        BY <1>1, <1>3
    <2> QED
        BY <1>1, <1>3, <2>1 DEF QueueInv
<1> QED
    BY <1>2, <1>3 DEF QueueInv

\* Only what happens to calls that wait in the queue matters to it.
LEMMA QueueUndisturbed ==
    ASSUME CatalogTypeOK, QueueInv, posted' = posted,
           \A d \in Calls : call[d].at = "posted" => call'[d] = call[d] /\ replies'[d] = replies[d]
    PROVE  QueueInv'
<1>1. \A i \in DOMAIN posted : posted[i][2] \in Calls
    BY DEF CatalogTypeOK
<1> QED
    BY <1>1 DEF QueueInv

\* A call that nothing was posted for yet gets one handler, or two for an applied
\* patch that is uninstalled.
LEMMA QueueOfCaller ==
    ASSUME CatalogTypeOK, QueueInv, RepliesInv, NEW c \in Calls, NEW m \in Methods,
           NEW p \in Patches, NEW v \in MaybeVersions, MakesCall(c, m, p, v),
           IF m = "easter" THEN Send(c, "empty") ELSE replies' = replies
    PROVE  /\ replies'[c] = First(m)
           /\ call'[c].at = "posted" /\ call'[c].method = m
           /\ \A i \in DOMAIN posted : /\ posted[i][2] # c
                                       /\ call'[posted[i][2]] = call[posted[i][2]]
                                       /\ replies'[posted[i][2]] = replies[posted[i][2]]
           /\ RepliesInv'
<1>1. /\ call[c].at = "none" /\ replies[c] = <<>>
      /\ call'[c] = [method |-> m, patch |-> p, version |-> v, at |-> "posted"]
      /\ \A d \in Calls : d # c => call'[d] = call[d]
    BY DEF MakesCall, Stage, CatalogTypeOK, RepliesInv, Told
<1>2. \A i \in DOMAIN posted : posted[i][2] \in Calls \ {c}
    BY <1>1 DEF CatalogTypeOK, QueueInv
<1>3. replies'[c] = First(m) /\ \A d \in Calls : d # c => replies'[d] = replies[d]
    <2>1. CASE m = "easter"
        <3>1. \A d \in Calls : replies'[d] = IF d = c THEN Append(replies[c], "empty") ELSE replies[d]
            BY <2>1, SendType DEF Replies
        <3>2. Append(replies[c], "empty") = <<"empty">>
            BY <1>1
        <3> QED
            BY <2>1, <3>1, <3>2 DEF First
    <2> QED
        BY <1>1, <2>1 DEF First
<1>4. RepliesInv'
    BY <1>1, <1>3 DEF RepliesInv, Told
<1> QED
    BY <1>1, <1>2, <1>3, <1>4

LEMMA MethodStep ==
    ASSUME CatalogInv, NEW c \in Calls, Method(c)
    PROVE  QueueInv' /\ RepliesInv'
<1> USE DEF CatalogInv
<1>0. posted \in Seq(Handlers \X Calls)
    BY DEF CatalogTypeOK
<1>1. ASSUME NEW m \in Methods, NEW p \in Patches, NEW v \in MaybeVersions, MakesCall(c, m, p, v),
             m \in Handlers, posted' = Append(posted, <<m, c>>),
             IF m = "easter" THEN Send(c, "empty") ELSE replies' = replies
      PROVE  QueueInv' /\ RepliesInv'
    <2>1. /\ DOMAIN posted' = 1 .. Len(posted) + 1
          /\ posted'[Len(posted) + 1] = <<m, c>>
          /\ \A i \in DOMAIN posted : posted'[i] = posted[i]
          /\ DOMAIN posted = 1 .. Len(posted) /\ Len(posted) \in Nat
        BY <1>0, <1>1
    <2>2. m # "unapply" /\ Serves[m] = m
        BY <1>1, ServesMethod DEF Methods
    <2>3. /\ RepliesInv'
          /\ call'[c].at = "posted" /\ call'[c].method = m
          /\ \A i \in DOMAIN posted : /\ posted[i][2] # c
                                      /\ call'[posted[i][2]] = call[posted[i][2]]
                                      /\ replies'[posted[i][2]] = replies[posted[i][2]]
        BY <1>1, QueueOfCaller
    <2>4. \A i \in DOMAIN posted' : i \in DOMAIN posted \/ i = Len(posted) + 1
        BY <2>1
    <2> QED
        BY <1>1, <2>1, <2>2, <2>3, <2>4 DEF QueueInv
<1>2. ASSUME NEW p \in Patches, MakesCall(c, "uninstall", p, 0), replies' = replies,
             posted' = Append(Append(posted, <<"unapply", c>>), <<"uninstall", c>>)
      PROVE  QueueInv' /\ RepliesInv'
    <2>1. Append(posted, <<"unapply", c>>) \in Seq(Handlers \X Calls)
        BY <1>0, Appended DEF Handlers
    <2>2. /\ DOMAIN posted' = 1 .. Len(posted) + 2
          /\ posted'[Len(posted) + 1] = <<"unapply", c>>
          /\ posted'[Len(posted) + 2] = <<"uninstall", c>>
          /\ \A i \in DOMAIN posted : posted'[i] = posted[i]
          /\ DOMAIN posted = 1 .. Len(posted) /\ Len(posted) \in Nat
        BY <1>0, <1>2, <2>1
    <2>3. "uninstall" \in Methods /\ 0 \in MaybeVersions
        BY CatalogAssumption DEF Methods, MaybeVersions
    <2>4. Serves["unapply"] = "uninstall" /\ Serves["uninstall"] = "uninstall"
        BY ServesMethod DEF Methods
    <2>5. /\ RepliesInv' /\ replies'[c] = <<>>
          /\ call'[c].at = "posted" /\ call'[c].method = "uninstall"
          /\ \A i \in DOMAIN posted : posted[i][2] # c /\ call'[posted[i][2]] = call[posted[i][2]]
        BY <1>2, <2>3, QueueOfCaller DEF First
    <2>6. \A i \in DOMAIN posted' :
              i \in DOMAIN posted \/ i = Len(posted) + 1 \/ i = Len(posted) + 2
        BY <2>2
    <2> QED
        BY <1>2, <2>2, <2>4, <2>5, <2>6 DEF QueueInv
<1>3. ASSUME NEW p \in Patches, UninstallPatch(c, p) PROVE QueueInv' /\ RepliesInv'
    <2>1. CASE posted' = Append(posted, <<"uninstall", c>>)
        BY <1>1, <1>3, <2>1, CatalogAssumption DEF UninstallPatch, Methods, Handlers, MaybeVersions
    <2>2. CASE posted' = Append(Append(posted, <<"unapply", c>>), <<"uninstall", c>>)
        BY <1>2, <1>3, <2>2 DEF UninstallPatch
    <2> QED
        BY <1>3, <2>1, <2>2 DEF UninstallPatch
<1>4. ASSUME NEW p \in Patches, Query(c, p) PROVE QueueInv' /\ RepliesInv'
    BY <1>1, <1>4, CatalogAssumption DEF Query, Methods, Handlers, MaybeVersions
<1>5. ASSUME NEW p \in Patches, NEW v \in Versions, InstallPatch(c, p, v) PROVE QueueInv' /\ RepliesInv'
    BY <1>1, <1>5, CatalogAssumption DEF InstallPatch, Methods, Handlers, MaybeVersions, Versions
<1>6. ASSUME NEW p \in Patches, CheckEaster(c, p) PROVE QueueInv' /\ RepliesInv'
    BY <1>1, <1>6, CatalogAssumption DEF CheckEaster, Methods, Handlers, MaybeVersions
<1> QED
    BY <1>3, <1>4, <1>5, <1>6 DEF Method

LEMMA PostedStep ==
    ASSUME CatalogInv, NEW c \in Calls, Posted(c)
    PROVE  QueueInv' /\ RepliesInv'
<1> USE DEF CatalogInv
<1>1. ASSUME NEW h \in Queries \union {"install"}, DoRequest(h, c) PROVE QueueInv' /\ RepliesInv'
    <2>1. Handles(h, c) /\ replies' = replies /\ "data" \in Stages
        BY <1>1 DEF DoRequest, Stages
    <2>2. call[c].at = "posted" /\ call[c].method = h
        <3>1. call[c].at = "posted" /\ call[c].method = Serves[h]
            BY <2>1, Dequeued
        <3> QED
            BY <1>1, <3>1, ServesMethod DEF Methods, Queries
    <2>3. \A d \in Calls : call'[d] = IF d = c THEN Moved(call[c], "data") ELSE call[d]
        BY <1>1, <2>1, <2>2, GoesToType DEF DoRequest
    <2>4. call[c] \in AllCalls
        BY <2>1, <2>2, CallType
    <2>5. call'[c].at = "data" /\ call'[c].method = h /\ replies[c] = First(h)
        BY <1>1, <2>2, <2>3, <2>4, AtStage DEF RepliesInv, Told, Queries
    <2>6. QueueInv'
        BY <1>1, <2>1, <2>3, QueueShortened DEF Queries
    <2> QED
        BY <2>1, <2>3, <2>5, <2>6 DEF RepliesInv, Told
<1>2. CASE DoUnapply(c)
    <2>1. Handles("unapply", c) /\ call' = call /\ "patched" \in Replies
        BY <1>2 DEF DoUnapply, Replies
    <2>2. call[c].at = "posted" /\ call[c].method = "uninstall" /\ replies[c] = <<>>
        <3>1. call[c].at = "posted" /\ call[c].method = Serves["unapply"] /\ replies[c] = <<>>
            BY <2>1, Dequeued
        <3> QED
            BY <3>1, ServesMethod
    <2>3. \A d \in Calls : replies'[d] = IF d = c THEN Append(replies[c], "patched") ELSE replies[d]
        BY <1>2, <2>1, SendType DEF DoUnapply
    <2>4. replies'[c] = <<"patched">>
        BY <2>2, <2>3
    <2>5. QueueInv'
        BY <2>1, <2>3, QueueShortened
    <2> QED
        BY <2>1, <2>2, <2>3, <2>4, <2>5 DEF RepliesInv, Told
<1>3. CASE DoUninstall(c)
    <2>1. Handles("uninstall", c) /\ "done" \in Stages
        BY <1>3 DEF DoUninstall, Stages
    <2>2. call[c].at = "posted" /\ call[c].method = "uninstall"
        <3>1. call[c].at = "posted" /\ call[c].method = Serves["uninstall"]
            BY <2>1, Dequeued
        <3> QED
            BY <3>1, ServesMethod DEF Methods
    <2>3. \A d \in Calls : call'[d] = IF d = c THEN Moved(call[c], "done") ELSE call[d]
        BY <1>3, <2>1, <2>2, GoesToType DEF DoUninstall
    <2>4. PICK r \in Replies \ {"empty"} :
              \A d \in Calls : replies'[d] = IF d = c THEN Append(replies[c], r) ELSE replies[d]
        BY <1>3, SendType DEF DoUninstall, Replies
    <2>5. Begun("uninstall", replies[c])
        BY <2>2 DEF RepliesInv, Told, Begun
    <2>9. call[c] \in AllCalls
        BY <2>1, <2>2, CallType
    <2>6. call'[c].at = "done" /\ call'[c].method = "uninstall"
        BY <2>2, <2>3, <2>9, AtStage
    <2>8. LastOnly("uninstall", replies'[c])
        BY <2>4, <2>5, Ending
    <2>7. QueueInv'
        BY <2>1, <2>3, <2>4, QueueShortened
    <2> QED
        BY <2>3, <2>4, <2>6, <2>7, <2>8 DEF RepliesInv, Told
<1> QED
    BY <1>1, <1>2, <1>3 DEF Posted

LEMMA ReturnStep ==
    ASSUME CatalogInv, NEW c \in Calls, Return(c)
    PROVE  QueueInv' /\ RepliesInv'
<1> USE DEF CatalogInv
<1>1. /\ call[c].at # "posted" /\ call'[c].at = "none" /\ replies'[c] = <<>> /\ posted' = posted
      /\ \A d \in Calls \ {c} : call'[d] = call[d] /\ replies'[d] = replies[d]
    BY DEF Return, Stage, NoCall, CatalogTypeOK
<1>2. QueueInv'
    BY <1>1, QueueUndisturbed
<1> QED
    BY <1>1, <1>2 DEF RepliesInv, Told

\* A call that leaves the network is over, or keeps what it was told so far.
LEMMA Answered ==
    ASSUME CatalogInv, NEW c \in Calls, call[c].at \in {"data", "archive", "missing"},
           posted' = posted,
           Told(call'[c], replies'[c]),
           \A d \in Calls \ {c} :
               /\ replies'[d] = replies[d]
               /\ \/ call'[d] = call[d]
                  \/ /\ call[d].at \in {"archive", "missing"} /\ call'[d].at \in {"archive", "missing"}
                     /\ call'[d].method = call[d].method
    PROVE  QueueInv' /\ RepliesInv'
<1> USE DEF CatalogInv
<1>1. QueueInv'
    BY QueueUndisturbed
<1> QED
    BY <1>1 DEF RepliesInv, Told

\* A reply that ends a call.
LEMMA Ends ==
    ASSUME CatalogTypeOK, RepliesInv, NEW c \in Calls, call[c].at \in {"data", "archive", "missing"},
           NEW reply \in Replies \ {"empty"}, Send(c, reply)
    PROVE  /\ LastOnly(call[c].method, replies'[c])
           /\ \A d \in Calls \ {c} : replies'[d] = replies[d]
<1>1. Begun(call[c].method, replies[c])
    BY DEF RepliesInv, Told, Begun, First
<1> QED
    BY <1>1, SendType, Ending

LEMMA DataStep ==
    ASSUME CatalogInv, NEW c \in Calls, DataArrives(c)
    PROVE  QueueInv' /\ RepliesInv'
<1> USE DEF CatalogInv
<1>0. call[c].at = "data" /\ posted' = posted /\ "done" \in Stages /\ "lost" \in Stages
    BY DEF DataArrives, QueryFails, QueryAnswered, InstallFails, InstallGoesOn, WaitsForData, Stage, Stages
<1>a. replies[c] = First(call[c].method)
    BY <1>0 DEF RepliesInv, Told
<1>b. ASSUME NEW stage \in Stages, GoesTo(c, stage)
      PROVE  /\ call'[c].at = stage /\ call'[c].method = call[c].method
             /\ \A d \in Calls \ {c} : call'[d] = call[d]
    <2>1. call[c] \in AllCalls
        BY <1>0 DEF CatalogTypeOK, NoCall
    <2>2. \A d \in Calls : call'[d] = IF d = c THEN Moved(call[c], stage) ELSE call[d]
        BY <1>0, <1>b, GoesToType
    <2> QED
        BY <2>1, <2>2, AtStage
<1>1. CASE QueryFails(c)
    <2>1. /\ replies'[c] = Append(Append(replies[c], "error"), "error")
          /\ \A d \in Calls \ {c} : replies'[d] = replies[d]
        BY <1>1 DEF QueryFails, CatalogTypeOK
    <2>2. LastOnly(call[c].method, replies'[c])
        BY <1>1, <1>a, <2>1, EndingTwice DEF QueryFails, WaitsForData
    <2> QED
        BY <1>0, <1>1, <1>b, <2>1, <2>2, Answered DEF QueryFails, Told
<1>2. CASE QueryAnswered(c)
    <2>1. LastOnly(call[c].method, replies'[c]) /\ \A d \in Calls \ {c} : replies'[d] = replies[d]
        BY <1>0, <1>2, Ends DEF QueryAnswered, Replies
    <2> QED
        BY <1>0, <1>2, <1>b, <2>1, Answered DEF QueryAnswered, Told
<1>3. CASE InstallFails(c)
    <2>1. LastOnly(call[c].method, replies'[c]) /\ \A d \in Calls \ {c} : replies'[d] = replies[d]
        BY <1>0, <1>3, Ends DEF InstallFails, Replies
    <2> QED
        BY <1>0, <1>3, <1>b, <2>1, Answered DEF InstallFails, Told
<1>4. CASE InstallGoesOn(c)
    <2>0. call[c].method = "install" /\ replies[c] = <<>>
        BY <1>4, <1>a DEF InstallGoesOn, WaitsForData, First
    <2>1. /\ replies'[c] \in {<<>>, <<"error">>}
          /\ \A d \in Calls \ {c} : replies'[d] = replies[d]
        BY <1>4, <2>0 DEF InstallGoesOn, Send, CatalogTypeOK
    <2>2. CASE GoesTo(c, "lost")
        BY <1>0, <1>b, <2>0, <2>1, <2>2, Answered DEF Told
    <2>3. CASE call' = [d \in Calls |->
                   IF d = c \/ (Stage(d) = "missing" /\ SameUrl(c, d)) THEN [call[d] EXCEPT !.at = "archive"]
                   ELSE call[d]]
        <3>1. "archive" \in Stages
            BY DEF Stages
        <3>2. \A d \in Calls : call'[d] = call[d] \/ call'[d] = [call[d] EXCEPT !.at = "archive"]
            BY <2>3
        <3>3. call'[c] = [call[c] EXCEPT !.at = "archive"]
            BY <2>3
        <3>4. call'[c].at = "archive" /\ call'[c].method = "install"
            BY <1>0, <2>0, <3>1, <3>3, CallType DEF AllCalls
        <3>5. \A d \in Calls \ {c} :
                  \/ call'[d] = call[d]
                  \/ /\ call[d].at = "missing" /\ call'[d].at = "archive"
                     /\ call'[d].method = call[d].method
            BY <2>3, <3>1, CallType DEF AllCalls, Stage
        <3> QED
            BY <1>0, <2>1, <3>4, <3>5, Answered DEF Told
    <2> QED
        BY <1>4, <2>2, <2>3 DEF InstallGoesOn, DownloadPatchArchive
<1> QED
    BY <1>1, <1>2, <1>3, <1>4 DEF DataArrives

LEMMA ArchiveStep ==
    ASSUME CatalogInv, NEW c \in Calls, ArchiveArrives(c)
    PROVE  QueueInv' /\ RepliesInv'
<1> USE DEF CatalogInv
<1>0. /\ call[c].at \in {"archive", "missing"} /\ posted' = posted
      /\ "done" \in Stages /\ "missing" \in Stages
    BY DEF ArchiveArrives, DownloadFails, ArchiveIsGone, ArchiveUnpacked, ArchiveIsBroken, Stage, Stages
<1>1. LastOnly(call[c].method, replies'[c]) /\ \A d \in Calls \ {c} : replies'[d] = replies[d]
    <2>1. \E reply \in Replies \ {"empty"} : Send(c, reply)
        BY DEF ArchiveArrives, DownloadFails, ArchiveIsGone, ArchiveUnpacked, ArchiveIsBroken, Replies
    <2> QED
        BY <1>0, <2>1, Ends
<1>2. CASE GoesTo(c, "done")
    <2>a. call[c] \in AllCalls /\ call'[c] = Moved(call[c], "done")
        BY <1>0, <1>2 DEF GoesTo, CatalogTypeOK, NoCall
    <2>b. \A d \in Calls \ {c} : call'[d] = call[d]
        BY <1>2 DEF GoesTo, CatalogTypeOK
    <2>1. /\ call'[c].at = "done" /\ call'[c].method = call[c].method
          /\ \A d \in Calls \ {c} : call'[d] = call[d]
        BY <2>a, <2>b, AtStage
    <2> QED
        BY <1>0, <1>1, <2>1, Answered DEF Told
<1>3. CASE RemovesArchive(c)
    <2>a. call'[c] = Moved(call[c], "done") /\ call[c] \in AllCalls
        BY <1>0, <1>3 DEF RemovesArchive, CatalogTypeOK, NoCall
    <2>1. call'[c].at = "done" /\ call'[c].method = call[c].method
        BY <2>a, AtStage
    <2>2. \A d \in Calls \ {c} :
              \/ call'[d] = call[d]
              \/ /\ call[d].at = "archive" /\ call'[d].at = "missing"
                 /\ call'[d].method = call[d].method
        BY <1>0, <1>3, CallType DEF RemovesArchive, AllCalls, Stage
    <2> QED
        BY <1>0, <1>1, <2>1, <2>2, Answered DEF Told
<1> QED
    BY <1>2, <1>3 DEF ArchiveArrives, DownloadFails, ArchiveIsGone, ArchiveUnpacked, ArchiveIsBroken

LEMMA CatalogInvStep ==
    ASSUME CatalogInv, [CatalogNext]_vars
    PROVE  CatalogInv'
<1> USE DEF CatalogInv
<1>1. ASSUME NEW c \in Calls, Method(c) PROVE CatalogInv'
    BY <1>1, MethodType, MethodStep
<1>2. ASSUME NEW c \in Calls, Return(c) PROVE CatalogInv'
    BY <1>2, ReturnType, ReturnStep
<1>3. ASSUME NEW c \in Calls, Posted(c) PROVE CatalogInv'
    <2>1. \E h : Handles(h, c)
        BY <1>3 DEF Posted, DoRequest, DoUnapply, DoUninstall
    <2>2. call[c].at # "none"
        BY <2>1, Dequeued
    <2> QED
        BY <1>3, <2>2, PostedType, PostedStep
<1>4. ASSUME NEW c \in Calls, DataArrives(c) PROVE CatalogInv'
    BY <1>4, DataType, DataStep
<1>5. ASSUME NEW c \in Calls, ArchiveArrives(c) PROVE CatalogInv'
    BY <1>5, ArchiveType, ArchiveStep
<1>6. CASE Updating
    <2>1. posted' = posted /\ call' = call /\ replies' = replies
        BY <1>6 DEF Updating, Refresh, ProjectsArrive, ProjectArrives
    <2> QED
        BY <1>6, <2>1, UpdatingType DEF QueueInv, RepliesInv
<1>7. CASE UNCHANGED vars
    BY <1>7 DEF vars, CatalogTypeOK, QueueInv, RepliesInv
<1> QED
    BY <1>1, <1>2, <1>3, <1>4, <1>5, <1>6, <1>7 DEF CatalogNext

LEMMA CatalogInvInit ==
    CatalogInit => CatalogInv
<1> SUFFICES ASSUME CatalogInit PROVE CatalogInv
    OBVIOUS
<1>1. CatalogTypeOK
    <2>1. 0 \in MaybeVersions
        BY CatalogAssumption DEF MaybeVersions
    <2> QED
        BY <2>1 DEF CatalogInit, CatalogTypeOK
<1>2. QueueInv
    BY DEF CatalogInit, QueueInv
<1>3. RepliesInv
    BY DEF CatalogInit, RepliesInv, Told, NoCall
<1> QED
    BY <1>1, <1>2, <1>3 DEF CatalogInv

(***************************************************************************)
(* The theorems.                                                           *)
(***************************************************************************)

\* The types and what the queue and the replies mean, for every instance.
THEOREM CatalogInvariant ==
    CatalogSpec => []CatalogInv
BY CatalogInvInit, CatalogInvStep, PTL DEF CatalogSpec

\* A result is the last thing a call is told: the handlers that answer a call hand it
\* on to one another.  At most one reply comes before it; only checkEaster can be told
\* three times, since the empty text is sent before its handler has run at all.
THEOREM ResultStaysLast ==
    CatalogSpec => []ResultIsLast
<1>1. CatalogInv => ResultIsLast
    <2> SUFFICES ASSUME CatalogInv, NEW c \in Calls, NEW i \in DOMAIN replies[c]
                 PROVE  /\ i <= IF call[c].method = "easter" THEN 3 ELSE 2
                        /\ replies[c][i] = "empty" <=> call[c].method = "easter" /\ i = 1
                        /\ replies[c][i] \in {"true", "false", "data"} =>
                               i = Len(replies[c]) /\ Stage(c) = "done"
        BY DEF ResultIsLast
    <2>1. CASE call[c].at = "done"
        BY <2>1 DEF CatalogInv, RepliesInv, Told, LastOnly, Results, Stage
    <2>2. CASE call[c].at # "done"
        <3>1. call[c].at \in Stages \union {"none"}
            BY DEF CatalogInv, CatalogTypeOK, AllCalls, NoCall
        <3>2. Begun(call[c].method, replies[c]) \/ replies[c] = <<>>
            BY <2>2, <3>1 DEF CatalogInv, RepliesInv, Told, Stages, Begun, First
        <3> QED
            BY <3>2 DEF Begun, First
    <2> QED
        BY <2>1, <2>2
<1> QED
    BY <1>1, CatalogInvariant, PTL

LEMMA UpdatesStep ==
    ASSUME CatalogTypeOK, UpdatesAreNewer, [CatalogNext]_vars
    PROVE  UpdatesAreNewer'
<1>0. \A p \in Patches : updates[p] \in Nat /\ disk[p] \in Nat
    BY CatalogAssumption DEF CatalogTypeOK, MaybeVersions
<1>1. CASE disk' = disk /\ updates' = updates /\ late' = late
    BY <1>1 DEF UpdatesAreNewer
<1>2. ASSUME NEW p \in Patches, disk' = [disk EXCEPT ![p] = 0], updates' = updates, late' = late
      PROVE  UpdatesAreNewer'
    BY <1>0, <1>2 DEF UpdatesAreNewer, CatalogTypeOK
<1>3. ASSUME NEW c \in Calls, ArchiveUnpacked(c) PROVE UpdatesAreNewer'
    <2>1. call[c] \in AllCalls
        BY <1>3 DEF ArchiveUnpacked, Stage, CatalogTypeOK, NoCall
    <2> DEFINE p == call[c].patch
               v == call[c].version
    <2>2. p \in Patches /\ v \in Nat
        BY <2>1, CatalogAssumption DEF AllCalls, MaybeVersions
    <2>3. /\ late' = late
          /\ \A q \in Patches \ {p} : disk'[q] = disk[q] /\ updates'[q] = updates[q]
          /\ disk'[p] = v
          /\ updates'[p] = IF UpToDate(p, v) THEN 0 ELSE updates[p]
        BY <1>3, <2>2 DEF ArchiveUnpacked, CatalogTypeOK
    <2>4. updates[p] # 0 /\ v >= updates[p] => UpToDate(p, v)
        BY <1>0, <2>2 DEF UpToDate, MaxOf
    <2> HIDE DEF p, v
    <2> QED
        BY <2>2, <2>3, <2>4 DEF UpdatesAreNewer
<1>4. ASSUME NEW k \in checks, ProjectArrives(k) PROVE UpdatesAreNewer'
    <2>1. k.patch \in Patches /\ k.version \in Nat /\ disk' = disk
        BY <1>4, CatalogAssumption DEF CatalogTypeOK, Versions, ProjectArrives
    <2>2. CASE UNCHANGED <<updates, late>>
        BY <2>1, <2>2 DEF UpdatesAreNewer
    <2>3. ASSUME NEW latest \in k.version .. Latest, latest # k.version,
                 updates' = [updates EXCEPT ![k.patch] = latest],
                 late' = [late EXCEPT ![k.patch] = disk[k.patch] # k.version]
          PROVE  UpdatesAreNewer'
        <3>1. latest > k.version
            BY <2>1, <2>3, CatalogAssumption
        <3>2. \A q \in Patches :
                  /\ updates'[q] = IF q = k.patch THEN latest ELSE updates[q]
                  /\ q # k.patch => late'[q] = late[q]
            BY <2>3 DEF CatalogTypeOK
        <3>3. disk[k.patch] # k.version => late'[k.patch]
            BY <2>1, <2>3 DEF CatalogTypeOK
        <3> QED
            BY <2>1, <3>1, <3>2, <3>3 DEF UpdatesAreNewer
    <2> QED
        BY <1>4, <2>2, <2>3 DEF ProjectArrives
<1>5. ASSUME NEW c \in Calls, ArchiveIsGone(c) \/ ArchiveIsBroken(c) PROVE UpdatesAreNewer'
    <2>1. call[c].patch \in Patches
        BY <1>5 DEF ArchiveIsGone, ArchiveIsBroken, Stage, CatalogTypeOK, NoCall, AllCalls
    <2> QED
        BY <1>2, <1>5, <2>1 DEF ArchiveIsGone, ArchiveIsBroken
<1>6. ASSUME NEW c \in Calls, DoUninstall(c) PROVE UpdatesAreNewer'
    <2>1. CASE disk' = disk
        BY <1>1, <1>6, <2>1 DEF DoUninstall
    <2>2. CASE disk' = [disk EXCEPT ![call[c].patch] = 0] /\ call[c].patch \in Patches
        BY <1>2, <1>6, <2>2 DEF DoUninstall
    <2>3. CASE disk' = [disk EXCEPT ![call[c].patch] = 0] /\ call[c].patch \notin Patches
        <3>1. disk' = disk
            BY <2>3 DEF CatalogTypeOK
        <3> QED
            BY <2>1, <3>1
    <2> QED
        BY <1>6, <2>1, <2>2, <2>3 DEF DoUninstall
<1>7. ASSUME NEW c \in Calls, Method(c) \/ Return(c) \/ DataArrives(c) \/ DownloadFails(c)
                               \/ (\E h \in Queries \union {"install"} : DoRequest(h, c)) \/ DoUnapply(c)
      PROVE  UpdatesAreNewer'
    BY <1>1, <1>7 DEF Method, UninstallPatch, Query, CheckEaster, InstallPatch, Return, DataArrives, QueryFails,
           QueryAnswered, InstallFails, InstallGoesOn, DownloadFails, DoRequest, DoUnapply
<1>8. ASSUME Refresh \/ (\E p \in Patches : ProjectsArrive(p)) PROVE UpdatesAreNewer'
    BY <1>1, <1>8 DEF Refresh, ProjectsArrive
<1>9. CASE UNCHANGED vars
    BY <1>1, <1>9 DEF vars
<1> QED
    BY <1>3, <1>4, <1>5, <1>6, <1>7, <1>8, <1>9 DEF CatalogNext, Posted, ArchiveArrives, Updating

\* Neither installations, in whatever order their archives arrive, nor
\* uninstalling leave an announced update that is not newer than what is
\* installed, unless the check for it was overtaken.
THEOREM AnnouncedIsNewer ==
    CatalogSpec => []UpdatesAreNewer
<1>1. CatalogInit => UpdatesAreNewer
    BY DEF CatalogInit, UpdatesAreNewer
<1>2. CatalogInv => CatalogTypeOK
    BY DEF CatalogInv
<1> QED
    BY <1>1, <1>2, UpdatesStep, CatalogInvariant, PTL DEF CatalogSpec
(***************************************************************************)
(* The converse of QueueInv: no call is dropped.  The only one that nobody *)
(* answers is the one whose archive cannot be stored, and it is recorded   *)
(* as lost.                                                                *)
(***************************************************************************)

Attended == \A c \in Calls : call[c].at = "posted" =>
                \E i \in DOMAIN posted : posted[i][2] = c /\ posted[i][1] # "unapply"

OverIsTold == \A c \in Calls : call[c].at = "done" => replies[c] # <<>>

NoCallIsForgotten == Attended /\ OverIsTold

LEMMA AttendedByMethod ==
    ASSUME CatalogInv, NoCallIsForgotten, NEW c \in Calls, Method(c)
    PROVE  NoCallIsForgotten'
<1> USE DEF CatalogInv
<1>0. posted \in Seq(Handlers \X Calls) /\ DOMAIN posted = 1 .. Len(posted) /\ Len(posted) \in Nat
    BY DEF CatalogTypeOK
<1>1. /\ call'[c].at = "posted"
      /\ \A d \in Calls \ {c} : call'[d] = call[d] /\ replies'[d] = replies[d]
    BY DEF Method, UninstallPatch, Query, CheckEaster, InstallPatch, MakesCall, Send, CatalogTypeOK
<1>2. ASSUME NEW h \in Handlers \ {"unapply"}, posted' = Append(posted, <<h, c>>) PROVE Attended'
    <2>1. /\ Len(posted) + 1 \in DOMAIN posted' /\ posted'[Len(posted) + 1] = <<h, c>>
          /\ \A i \in DOMAIN posted : i \in DOMAIN posted' /\ posted'[i] = posted[i]
        BY <1>0, <1>2
    <2> QED
        BY <1>1, <1>2, <2>1 DEF NoCallIsForgotten, Attended
<1>3. ASSUME posted' = Append(Append(posted, <<"unapply", c>>), <<"uninstall", c>>) PROVE Attended'
    <2>1. Append(posted, <<"unapply", c>>) \in Seq(Handlers \X Calls)
        BY <1>0, Appended DEF Handlers
    <2>2. /\ Len(posted) + 2 \in DOMAIN posted' /\ posted'[Len(posted) + 2] = <<"uninstall", c>>
          /\ \A i \in DOMAIN posted : i \in DOMAIN posted' /\ posted'[i] = posted[i]
        BY <1>0, <1>3, <2>1
    <2> QED
        BY <1>1, <2>2 DEF NoCallIsForgotten, Attended
<1>4. Attended'
    BY <1>2, <1>3 DEF Method, UninstallPatch, Query, CheckEaster, InstallPatch, Handlers
<1> QED
    BY <1>1, <1>4 DEF NoCallIsForgotten, OverIsTold

\* The handler that is taken from the queue moves its call on, or leaves the
\* uninstalling behind it in the queue.
LEMMA AttendedByHandler ==
    ASSUME CatalogInv, NoCallIsForgotten, NEW c \in Calls, Posted(c)
    PROVE  NoCallIsForgotten'
<1> USE DEF CatalogInv
<1>1. PICK h : Handles(h, c) /\ (h = "unapply" => DoUnapply(c))
               /\ (h # "unapply" => DoRequest(h, c) \/ DoUninstall(c))
    <2>1. ASSUME NEW h \in Queries \union {"install"}, DoRequest(h, c)
          PROVE  Handles(h, c) /\ h # "unapply"
        BY <2>1 DEF DoRequest, Queries
    <2>2. CASE DoUnapply(c)
        BY <2>2 DEF DoUnapply
    <2>3. CASE DoUninstall(c)
        BY <2>3 DEF DoUninstall
    <2> QED
        BY <2>1, <2>2, <2>3 DEF Posted
<1>2. call[c] \in AllCalls /\ call[c].at = "posted"
    <2>1. call[c].at = "posted"
        BY <1>1, Dequeued
    <2> QED
        BY <2>1 DEF CatalogTypeOK, NoCall
<1>3. /\ \A d \in Calls \ {c} : call'[d] = call[d] /\ replies'[d] = replies[d]
      /\ h = "unapply" => call' = call
      /\ h # "unapply" => call'[c].at \in {"data", "done"}
    <2>1. ASSUME NEW stage \in {"data", "done"}, GoesTo(c, stage)
          PROVE  call'[c].at \in {"data", "done"} /\ \A d \in Calls \ {c} : call'[d] = call[d]
        BY <1>2, <2>1, GoesToType, AtStage DEF Stages
    <2> QED
        BY <1>1, <2>1 DEF DoUnapply, DoRequest, DoUninstall, Send, CatalogTypeOK
<1>4. ASSUME NEW d \in Calls, call'[d].at = "posted", NEW i \in DOMAIN posted,
             posted[i][2] = d, posted[i][1] # "unapply"
      PROVE  \E j \in DOMAIN posted' : posted'[j][2] = d /\ posted'[j][1] # "unapply"
    <2>1. /\ posted \in Seq(Handlers \X Calls) /\ posted # <<>> /\ posted[1] = <<h, c>>
          /\ posted' = Tail(posted)
        BY <1>1 DEF Handles, CatalogTypeOK
    <2>2. i # 1
        BY <1>3, <1>4, <2>1
    <2>3. i - 1 \in DOMAIN posted' /\ posted'[i - 1] = posted[i]
        BY <2>1, <2>2
    <2> QED
        BY <1>4, <2>3
<1>5. Attended'
    BY <1>2, <1>3, <1>4 DEF NoCallIsForgotten, Attended
<1>6. OverIsTold'
    <2>1. ASSUME call'[c].at = "done" PROVE replies'[c] # <<>>
        <3>1. CASE h = "unapply"
            BY <1>2, <1>3, <2>1, <3>1
        <3>2. CASE DoUninstall(c)
            <4>1. PICK r \in Replies : Send(c, r)
                BY <3>2 DEF DoUninstall, Replies
            <4>2. replies'[c] = Append(replies[c], r) /\ replies[c] \in Seq(Replies)
                BY <4>1, SendType DEF CatalogTypeOK
            <4> QED
                BY <4>2
        <3>3. CASE DoRequest(h, c)
            BY <1>2, <2>1, <3>3, GoesToType, AtStage DEF DoRequest, Stages
        <3> QED
            BY <1>1, <3>1, <3>2, <3>3
    <2> QED
        BY <1>3, <2>1 DEF NoCallIsForgotten, OverIsTold
<1> QED
    BY <1>5, <1>6 DEF NoCallIsForgotten

\* A request comes to its end with a reply, and puts no call back into the queue.
LEMMA AttendedByNetwork ==
    ASSUME CatalogInv, NoCallIsForgotten, NEW c \in Calls, DataArrives(c) \/ ArchiveArrives(c)
    PROVE  NoCallIsForgotten'
<1> USE DEF CatalogInv
<1>1. call[c] \in AllCalls /\ call[c].at # "none" /\ posted' = posted
    BY DEF CatalogTypeOK, NoCall, Stage, DataArrives, ArchiveArrives, WaitsForData, QueryFails, QueryAnswered,
           InstallFails, InstallGoesOn, DownloadFails, ArchiveIsGone, ArchiveUnpacked, ArchiveIsBroken
<1>2. \/ GoesTo(c, "done") /\ \E r \in Replies : Send(c, r)
      \/ GoesTo(c, "done") /\ QueryFails(c)
      \/ RemovesArchive(c) /\ \E r \in Replies : Send(c, r)
      \/ InstallGoesOn(c)
    BY DEF Replies, DataArrives, ArchiveArrives, QueryFails, QueryAnswered,
           InstallFails, DownloadFails, ArchiveIsGone, ArchiveUnpacked, ArchiveIsBroken
<1>3. ASSUME NEW d \in Calls \ {c}
      PROVE  /\ replies'[d] = replies[d]
             /\ call'[d] = call[d] \/ call'[d].at \in {"archive", "missing"}
    <2>1. replies'[d] = replies[d]
        BY <1>2 DEF Send, QueryFails, InstallGoesOn, CatalogTypeOK
    <2>2. CASE GoesTo(c, "done") \/ GoesTo(c, "lost")
        BY <1>1, <2>1, <2>2 DEF GoesTo, CatalogTypeOK
    <2>3. CASE RemovesArchive(c)
        BY <2>1, <2>3, CallType DEF RemovesArchive, Stage, AllCalls, Stages
    <2>4. CASE InstallGoesOn(c) /\ ~GoesTo(c, "lost")
        <3>1. call'[d] = call[d] \/ (Stage(d) = "missing" /\ call'[d] = [call[d] EXCEPT !.at = "archive"])
            BY <2>4 DEF InstallGoesOn, DownloadPatchArchive
        <3>2. CASE Stage(d) = "missing" /\ call'[d] = [call[d] EXCEPT !.at = "archive"]
            <4>1. call[d] \in AllCalls
                BY <3>2 DEF CatalogTypeOK, NoCall, Stage
            <4>2. call'[d].at = "archive"
                BY <3>2, <4>1, AtStage
            <4> QED
                BY <2>1, <4>2
        <3> QED
            BY <2>1, <3>1, <3>2
    <2> QED
        BY <1>2, <2>2, <2>3, <2>4
<1>4. /\ call'[c].at \in {"done", "lost", "archive"}
      /\ call'[c].at = "done" => replies'[c] # <<>>
    <2>1. ASSUME NEW r \in Replies, Send(c, r) PROVE replies'[c] # <<>>
        <3>1. replies'[c] = Append(replies[c], r) /\ replies[c] \in Seq(Replies)
            BY <2>1, SendType DEF CatalogTypeOK
        <3> QED
            BY <3>1
    <2>2. ASSUME QueryFails(c) PROVE replies'[c] # <<>>
        <3>1. /\ replies'[c] = Append(Append(replies[c], "error"), "error")
              /\ replies[c] \in Seq(Replies)
            BY <2>2 DEF QueryFails, CatalogTypeOK
        <3> QED
            BY <3>1, Appended DEF Replies
    <2>3. CASE GoesTo(c, "done") \/ RemovesArchive(c)
        <3>1. call'[c] = Moved(call[c], "done")
            BY <1>1, <2>3 DEF GoesTo, RemovesArchive, CatalogTypeOK
        <3>2. call'[c].at = "done"
            BY <1>1, <3>1, AtStage
        <3>3. CASE \E r \in Replies : Send(c, r)
            BY <2>1, <3>2, <3>3
        <3>4. CASE QueryFails(c)
            BY <2>2, <3>2, <3>4
        <3>5. ~InstallGoesOn(c)
            <4>1. ASSUME InstallGoesOn(c) PROVE call'[c].at \in {"archive", "lost"}
                BY <1>1, <4>1, AtStage DEF InstallGoesOn, DownloadPatchArchive, GoesTo, CatalogTypeOK, AllCalls
            <4> QED
                BY <3>2, <4>1
        <3> QED
            BY <1>2, <3>3, <3>4, <3>5
    <2>4. CASE InstallGoesOn(c)
        BY <1>1, <2>4, AtStage DEF InstallGoesOn, DownloadPatchArchive, GoesTo, CatalogTypeOK, AllCalls
    <2> QED
        BY <1>2, <2>3, <2>4
<1>5. Attended'
    BY <1>1, <1>3, <1>4 DEF NoCallIsForgotten, Attended
<1>6. OverIsTold'
    BY <1>3, <1>4 DEF NoCallIsForgotten, OverIsTold
<1> QED
    BY <1>5, <1>6 DEF NoCallIsForgotten

LEMMA NoCallIsForgottenStep ==
    ASSUME CatalogInv, NoCallIsForgotten, [CatalogNext]_vars
    PROVE  NoCallIsForgotten'
<1> USE DEF NoCallIsForgotten, Attended, OverIsTold
<1>1. ASSUME NEW c \in Calls, Return(c) PROVE NoCallIsForgotten'
    BY <1>1 DEF CatalogInv, CatalogTypeOK, Return, NoCall
<1>2. CASE Updating
    BY <1>2 DEF Updating, Refresh, ProjectsArrive, ProjectArrives
<1>3. CASE UNCHANGED vars
    BY <1>3 DEF vars
<1> QED
    BY <1>1, <1>2, <1>3, AttendedByMethod, AttendedByHandler, AttendedByNetwork DEF CatalogNext

\* A call that waits in the queue has the handler there that goes on with it, and
\* a call that is over was told something.
THEOREM CallsAreKept ==
    CatalogSpec => []NoCallIsForgotten
<1>1. CatalogInit => NoCallIsForgotten
    BY DEF CatalogInit, NoCallIsForgotten, Attended, OverIsTold, NoCall
<1> QED
    BY <1>1, NoCallIsForgottenStep, CatalogInvariant, PTL DEF CatalogSpec


=============================================================================
