--------------------------- MODULE WebServiceProofs ---------------------------
(***************************************************************************)
(* Theorems of WebService for every set of requests, streams and downloads *)
(* and every bound on the lines that a child prints.                       *)
(***************************************************************************)
EXTENDS WebService, SequenceTheorems, TLAPS

USE DEF File, UploadState, TaskState, Exited, ChildState, StreamState, DownloadState

-----------------------------------------------------------------------------
(* Type correctness.                                                       *)

\* TypeOK is not inductive alone: a download handler indexes the output files by
\* its target, which is a request as soon as the handler has started.
DownloadsHaveTarget == \A d \in Downloads : download[d] # "idle" => target[d] \in Requests
Typed == TypeOK /\ DownloadsHaveTarget

LEMMA TypingInit == Init => Typed
BY DEF Init, TypeOK, Typed, DownloadsHaveTarget

\* What progress_made appends is a notification, so the log stays well typed.
LEMMA PublishedType ==
    ASSUME TypeOK, NEW r \in Requests, NEW event \in Updates \cup Terminals
    PROVE  Published(r, event) \in [Requests -> Seq(Notification)]
<1>1. [event |-> event, id |-> counter[r]] \in Notification
    BY DEF TypeOK, Notification
<1>2. log \in [Requests -> Seq(Notification)]
    BY DEF TypeOK
<1>3. QED BY <1>1, <1>2 DEF Published

LEMMA TypingUpload ==
    ASSUME TypeOK, NEW r \in Requests, UploadStep(r)
    PROVE  TypeOK'
<1>1. CASE RejectUpload(r)
    BY <1>1 DEF TypeOK, RejectUpload, taskVars, childVars, streamVars, downloadVars
<1>2. CASE CreateInput(r)
    BY <1>2 DEF TypeOK, CreateInput, taskVars, childVars, streamVars, downloadVars
<1>3. CASE FailUpload(r)
    BY <1>3 DEF TypeOK, FailUpload, taskVars, childVars, streamVars, downloadVars
<1>4. CASE AcceptUpload(r)
    BY <1>4 DEF TypeOK, AcceptUpload, childVars, streamVars, downloadVars
<1>5. QED BY <1>1, <1>2, <1>3, <1>4 DEF UploadStep

LEMMA TypingTask ==
    ASSUME TypeOK, NEW r \in Requests, TaskStep(r)
    PROVE  TypeOK'
<1>1. CASE RejectTask(r)
    BY <1>1 DEF TypeOK, RejectTask, childVars, streamVars, downloadVars
<1>2. CASE SpawnChild(r)
    BY <1>2 DEF TypeOK, SpawnChild, streamVars, downloadVars
<1>3. CASE ReadLine(r)
    <2>1. unread' \in [Requests -> Nat]
        BY <1>3 DEF TypeOK, ReadLine, LineReady
    <2>2. Published(r, "processing_update") \in [Requests -> Seq(Notification)]
        BY PublishedType DEF Updates
    <2>3. /\ log' \in [Requests -> Seq(Notification)]
          /\ task' \in [Requests -> TaskState]
          /\ counter' \in [Requests -> Nat]
        <3>1. /\ log \in [Requests -> Seq(Notification)]
              /\ task \in [Requests -> TaskState]
              /\ counter \in [Requests -> Nat]
            BY DEF TypeOK
        <3>2. \/ /\ log' = Published(r, "processing_update")
                 /\ counter' = [counter EXCEPT ![r] = @ + 1]
                 /\ task' = task
              \/ /\ task' = [task EXCEPT ![r] = "done"]
                 /\ log' = log
                 /\ counter' = counter
            BY <1>3 DEF ReadLine, NextCounter
        <3>3. /\ [counter EXCEPT ![r] = @ + 1] \in [Requests -> Nat]
              /\ [task EXCEPT ![r] = "done"] \in [Requests -> TaskState]
            BY <3>1
        <3>4. QED BY <2>2, <3>1, <3>2, <3>3, Zenon
    <2>4. UNCHANGED <<upload, input, output, registered, success, child, printed,
                      stream, source, idx, sent, download, target, data>>
        BY <1>3 DEF ReadLine, streamVars, downloadVars
    <2>5. QED
        BY <2>1, <2>3, <2>4 DEF TypeOK
<1>4. CASE FailToRead(r)
    BY <1>4 DEF TypeOK, FailToRead, childVars, streamVars, downloadVars
<1>5. CASE ReapChild(r)
    BY <1>5 DEF TypeOK, ReapChild, ExitedWell, childVars, streamVars, downloadVars
<1>6. CASE Announce(r)
    <2>1. Published(r, Outcome(r)) \in [Requests -> Seq(Notification)]
        BY PublishedType DEF Outcome, Updates, Terminals
    <2>2. /\ log' \in [Requests -> Seq(Notification)]
          /\ task' \in [Requests -> TaskState]
        <3>1. /\ log \in [Requests -> Seq(Notification)]
              /\ task \in [Requests -> TaskState]
            BY DEF TypeOK
        <3>2. QED BY <1>6, <2>1, <3>1 DEF Announce
    <2>3. QED
        BY <1>6, <2>2 DEF TypeOK, Announce, childVars, streamVars, downloadVars
<1>7. CASE RemoveInput(r)
    BY <1>7 DEF TypeOK, RemoveInput, childVars, streamVars, downloadVars
<1>8. QED
    BY <1>1, <1>2, <1>3, <1>4, <1>5, <1>6, <1>7 DEF TaskStep, TaskProgress

LEMMA TypingChild ==
    ASSUME TypeOK, NEW r \in Requests, ChildStep(r)
    PROVE  TypeOK'
<1>1. CASE PrintLine(r)
    <2>1. /\ unread' \in [Requests -> Nat]
          /\ child' \in [Requests -> ChildState]
        <3>1. /\ unread \in [Requests -> Nat]
              /\ child \in [Requests -> ChildState]
            BY DEF TypeOK
        <3>2. QED BY <1>1, <3>1 DEF PrintLine
    <2>2. printed' \in [Requests -> Nat]
        BY <1>1 DEF TypeOK, PrintLine
    <2>3. UNCHANGED <<upload, input, output, registered, log, task, counter, success,
                      stream, source, idx, sent, download, target, data>>
        BY <1>1 DEF PrintLine, taskVars, streamVars, downloadVars
    <2>4. QED
        BY <2>1, <2>2, <2>3 DEF TypeOK
<1>2. CASE StartCopy(r)
    BY <1>2 DEF TypeOK, StartCopy, taskVars, streamVars, downloadVars
<1>3. CASE FinishCopy(r)
    BY <1>3 DEF TypeOK, FinishCopy, taskVars, streamVars, downloadVars
<1>4. CASE ExitWithError(r)
    BY <1>4 DEF TypeOK, ExitWithError, taskVars, streamVars, downloadVars
<1>5. CASE ExitNormally(r)
    BY <1>5 DEF TypeOK, ExitNormally, taskVars, streamVars, downloadVars
<1>6. QED BY <1>1, <1>2, <1>3, <1>4, <1>5 DEF ChildStep

\* The states of a stream that has a request, and what a poll emits.
LEMMA PollType ==
    ASSUME TypeOK, NEW s \in Streams, Poll(s), source[s] \in Requests
    PROVE  log[source[s]][idx[s] + 1] \in Notification
<1>1. log[source[s]] \in Seq(Notification)
    BY DEF TypeOK
<1>2. idx[s] + 1 \in 1 .. Len(log[source[s]])
    BY <1>1 DEF TypeOK, Poll
<1>3. QED BY <1>1, <1>2, ElementOfSeq

LEMMA TypingStream ==
    ASSUME TypeOK, NEW s \in Streams,
           \/ \E r \in Requests : RequestStream(s, r)
           \/ StreamStep(s)
           \/ Disconnect(s)
    PROVE  TypeOK'
<1>1. ASSUME NEW r \in Requests, RequestStream(s, r) PROVE TypeOK'
    BY <1>1 DEF TypeOK, RequestStream, taskVars, childVars, downloadVars
<1>2. CASE Subscribe(s)
    BY <1>2 DEF TypeOK, Subscribe, FirstIndex, taskVars, childVars, downloadVars
<1>3. CASE Poll(s)
    <2>1. source[s] \in Requests
        BY <1>3 DEF TypeOK, Poll
    <2>2. log[source[s]][idx[s] + 1] \in Notification
        BY <1>3, <2>1, PollType
    <2>3. sent' \in [Streams -> Seq(Notification)]
        BY <1>3, <2>2 DEF TypeOK, Poll
    <2>4. idx' \in [Streams -> Nat] /\ stream' \in [Streams -> StreamState]
        BY <1>3 DEF TypeOK, Poll
    <2>5. QED
        BY <1>3, <2>3, <2>4 DEF TypeOK, Poll, taskVars, childVars, downloadVars
<1>4. CASE Disconnect(s)
    BY <1>4 DEF TypeOK, Disconnect, taskVars, childVars, downloadVars
<1>5. QED BY <1>1, <1>2, <1>3, <1>4 DEF StreamStep

LEMMA TypingDownload ==
    ASSUME Typed, NEW d \in Downloads,
           \/ \E r \in Requests : RequestDownload(d, r)
           \/ DownloadStep(d)
    PROVE  Typed'
<1>1. ASSUME NEW r \in Requests, RequestDownload(d, r) PROVE Typed'
    BY <1>1 DEF Typed, TypeOK, DownloadsHaveTarget, RequestDownload, taskVars, childVars, streamVars
<1>2. CASE ReadDocument(d)
    <2>1. target[d] \in Requests
        BY <1>2 DEF Typed, DownloadsHaveTarget, ReadDocument
    <2>2. data' \in [Downloads -> File]
        <3>1. data \in [Downloads -> File] /\ output[target[d]] \in File
            BY <2>1 DEF Typed, TypeOK
        <3>2. QED BY <1>2, <3>1 DEF ReadDocument
    <2>3. QED
        BY <1>2, <2>2 DEF Typed, TypeOK, DownloadsHaveTarget, ReadDocument, taskVars, childVars,
                          streamVars
<1>3. CASE DeleteDocument(d)
    <2>1. output' \in [Requests -> File]
        <3>1. output \in [Requests -> File]
            BY DEF Typed, TypeOK
        <3>2. QED BY <1>3, <3>1 DEF DeleteDocument
    <2>2. /\ download' \in [Downloads -> DownloadState]
          /\ DownloadsHaveTarget'
        BY <1>3 DEF Typed, TypeOK, DownloadsHaveTarget, DeleteDocument, ReadyToDelete
    <2>3. UNCHANGED <<upload, input, registered, log, task, counter, success, child, printed,
                      unread, stream, source, idx, sent, target, data>>
        BY <1>3 DEF DeleteDocument, taskVars, childVars, streamVars
    <2>4. QED
        BY <2>1, <2>2, <2>3 DEF Typed, TypeOK
<1>4. CASE ForgetRequest(d)
    BY <1>4 DEF Typed, TypeOK, DownloadsHaveTarget, ForgetRequest, taskVars, childVars, streamVars
<1>5. QED BY <1>1, <1>2, <1>3, <1>4 DEF DownloadStep

\* The steps of the other parts leave the downloads alone.
LEMMA DownloadsUntouched ==
    ASSUME \/ \E r \in Requests : UploadStep(r) \/ TaskStep(r) \/ ChildStep(r)
           \/ \E s \in Streams : \/ \E r \in Requests : RequestStream(s, r)
                                 \/ StreamStep(s)
                                 \/ Disconnect(s)
    PROVE  UNCHANGED downloadVars
BY DEF UploadStep, RejectUpload, CreateInput, FailUpload, AcceptUpload,
       TaskStep, TaskProgress, RejectTask, SpawnChild, ReadLine, FailToRead, ReapChild,
       Announce, RemoveInput,
       ChildStep, PrintLine, StartCopy, FinishCopy, ExitWithError, ExitNormally,
       RequestStream, StreamStep, Subscribe, Poll, Disconnect

LEMMA TypedStep == Typed /\ [Next]_vars => Typed'
<1>1. ASSUME Typed, Next PROVE Typed'
    <2>1. CASE \E d \in Downloads : \/ \E r \in Requests : RequestDownload(d, r)
                                   \/ DownloadStep(d)
        BY <1>1, <2>1, TypingDownload
    <2>2. CASE \E r \in Requests : UploadStep(r) \/ TaskStep(r) \/ ChildStep(r)
        BY <1>1, <2>2, TypingUpload, TypingTask, TypingChild, DownloadsUntouched
           DEF Typed, DownloadsHaveTarget, downloadVars
    <2>3. CASE \E s \in Streams : \/ \E r \in Requests : RequestStream(s, r)
                                 \/ StreamStep(s)
                                 \/ Disconnect(s)
        BY <1>1, <2>3, TypingStream, DownloadsUntouched
           DEF Typed, DownloadsHaveTarget, downloadVars
    <2>4. QED BY <1>1, <2>1, <2>2, <2>3 DEF Next
<1>2. ASSUME Typed, UNCHANGED vars PROVE Typed'
    BY <1>2 DEF Typed, TypeOK, DownloadsHaveTarget, vars, taskVars, childVars, streamVars,
                downloadVars
<1>3. QED BY <1>1, <1>2

LEMMA TypedAlways == Spec => []Typed
BY TypingInit, TypedStep, PTL DEF Spec

\* Every state that the server reaches is well typed: TypeOK.
THEOREM TypeCorrectness == Spec => []TypeOK
<1>1. Typed => TypeOK
    BY DEF Typed
<1>2. QED BY <1>1, TypedAlways, PTL

-----------------------------------------------------------------------------
(* The log of notifications.                                               *)

\* What publishing does to the log of r, and that it leaves the others alone.
LEMMA PublishedLog ==
    ASSUME TypeOK, NEW r \in Requests, NEW event \in Updates \cup Terminals,
           log' = Published(r, event)
    PROVE  /\ Len(log'[r]) = Len(log[r]) + 1
           /\ \A i \in 1 .. Len(log[r]) : log'[r][i] = log[r][i]
           /\ log'[r][Len(log[r]) + 1] = [event |-> event, id |-> counter[r]]
           /\ \A q \in Requests \ {r} : log'[q] = log[q]
<1> DEFINE n == [event |-> event, id |-> counter[r]]
<1>1. log \in [Requests -> Seq(Notification)] /\ n \in Notification
    BY DEF TypeOK, Notification
<1>2. log' = [log EXCEPT ![r] = Append(@, n)]
    BY DEF Published
<1>3. log'[r] = Append(log[r], n)
    BY <1>1, <1>2
<1>4. log[r] \in Seq(Notification)
    BY <1>1
<1>5. /\ Len(Append(log[r], n)) = Len(log[r]) + 1
      /\ \A i \in 1 .. Len(log[r]) : Append(log[r], n)[i] = log[r][i]
      /\ Append(log[r], n)[Len(log[r]) + 1] = n
    BY <1>1, <1>4, AppendProperties
<1>6. \A q \in Requests \ {r} : log'[q] = log[q]
    BY <1>1, <1>2
<1>7. QED BY <1>3, <1>5, <1>6

\* Steps that touch neither the upload, the log, the task nor its counter.
LEMMA LogUntouched ==
    ASSUME LogInv, UNCHANGED <<upload, log, task, counter>>
    PROVE  LogInv'
BY DEF LogInv, LogOK

LEMMA LogUpload ==
    ASSUME Typed, LogInv, NEW r \in Requests, UploadStep(r)
    PROVE  LogInv'
<1>1. upload[r] # "accepted"
    BY DEF UploadStep, RejectUpload, CreateInput, FailUpload, AcceptUpload
<1>2. task[r] = "none" /\ log[r] = <<>> /\ counter[r] = 1
    BY <1>1 DEF LogInv, LogOK
<1>3. /\ counter' = counter
      /\ log' = log \/ log' = [log EXCEPT ![r] = <<>>]
      /\ \/ task' = task
         \/ upload' = [upload EXCEPT ![r] = "accepted"] /\ task' = [task EXCEPT ![r] = "ready"]
      /\ \A q \in Requests \ {r} : upload'[q] = upload[q]
    BY DEF UploadStep, RejectUpload, CreateInput, FailUpload, AcceptUpload, taskVars, Typed, TypeOK
<1>4. /\ upload \in [Requests -> UploadState]
      /\ task \in [Requests -> TaskState]
      /\ log \in [Requests -> Seq(Notification)]
    BY DEF Typed, TypeOK
<1>5. ASSUME NEW q \in Requests, q # r PROVE LogOK(q)'
    <2>1. UNCHANGED <<upload[q], task[q], log[q], counter[q]>>
        BY <1>3, <1>4, <1>5
    <2>2. LogOK(q)
        BY DEF LogInv
    <2>3. QED BY <2>1, <2>2 DEF LogOK
<1>6. LogOK(r)'
    <2>1. log'[r] = <<>> /\ counter'[r] = 1
        BY <1>2, <1>3, <1>4
    <2>2. upload'[r] # "accepted" => task'[r] = "none"
        BY <1>2, <1>3, <1>4
    <2>3. QED BY <2>1, <2>2 DEF LogOK
<1>7. QED BY <1>5, <1>6 DEF LogInv

\* Publishing an update (the counter advances) or an outcome (the task is then past
\* the point where it publishes) keeps the log well formed.
LEMMA LogPublish ==
    ASSUME Typed, LogInv, NEW r \in Requests, NEW event \in Updates \cup Terminals,
           task[r] \in {"reading", "announcing"},
           log' = Published(r, event),
           UNCHANGED upload,
           \/ event \in Updates /\ counter' = [counter EXCEPT ![r] = @ + 1] /\ UNCHANGED task
           \/ UNCHANGED counter /\ task' = [task EXCEPT ![r] = "removing"]
    PROVE  LogInv'
<1>1. /\ Len(log'[r]) = Len(log[r]) + 1
      /\ \A i \in 1 .. Len(log[r]) : log'[r][i] = log[r][i]
      /\ log'[r][Len(log[r]) + 1] = [event |-> event, id |-> counter[r]]
      /\ \A q \in Requests \ {r} : log'[q] = log[q]
    BY PublishedLog DEF Typed
<1>2. /\ counter \in [Requests -> Nat]
      /\ task \in [Requests -> TaskState]
      /\ Len(log[r]) \in Nat
    BY DEF Typed, TypeOK
<1>3. ASSUME NEW q \in Requests, q # r PROVE LogOK(q)'
    <2>1. UNCHANGED <<upload[q], task[q], log[q], counter[q]>>
        BY <1>1, <1>2, <1>3
    <2>2. LogOK(q)
        BY DEF LogInv
    <2>3. QED BY <2>1, <2>2 DEF LogOK
<1>4. LogOK(r)'
    <2>1. LogOK(r)
        BY DEF LogInv
    <2>2. /\ counter[r] = Len(log[r]) + 1
          /\ upload[r] = "accepted"
          /\ \A i \in 1 .. Len(log[r]) : ~IsTerminal(log[r][i]) /\ log[r][i].id = i
        BY <2>1 DEF LogOK
    <2>3. \A i \in 1 .. Len(log'[r]) : i \in 1 .. Len(log[r]) \/ i = Len(log[r]) + 1
        BY <1>1, <1>2
    <2>4. ASSUME NEW i \in 1 .. Len(log'[r])
          PROVE  /\ log'[r][i].id = i
                 /\ IsTerminal(log'[r][i]) => i = Len(log'[r]) /\ event \in Terminals
        BY <1>1, <2>2, <2>3 DEF IsTerminal
    <2>5. CASE event \in Updates /\ counter' = [counter EXCEPT ![r] = @ + 1] /\ UNCHANGED task
        <3>1. event \notin Terminals
            BY <2>5 DEF Updates, Terminals
        <3>2. counter'[r] = Len(log'[r]) + 1
            BY <1>1, <1>2, <2>2, <2>5
        <3>3. QED BY <2>2, <2>4, <3>1, <3>2 DEF LogOK
    <2>6. CASE UNCHANGED counter /\ task' = [task EXCEPT ![r] = "removing"]
        <3>1. task'[r] = "removing"
            BY <1>2, <2>6
        <3>2. QED BY <2>2, <2>4, <3>1 DEF LogOK
    <2>7. QED BY <2>5, <2>6
<1>5. QED BY <1>3, <1>4 DEF LogInv

\* A task that moves on without publishing never goes back to where it publishes.
LEMMA LogTaskOnly ==
    ASSUME Typed, LogInv, NEW r \in Requests, NEW state \in TaskState, state # "none",
           task[r] \in {"none", "ready", "reading"} \/ state = "done",
           task[r] # "none",
           task' = [task EXCEPT ![r] = state],
           UNCHANGED <<upload, log, counter>>
    PROVE  LogInv'
<1>1. task \in [Requests -> TaskState]
    BY DEF Typed, TypeOK
<1>2. ASSUME NEW q \in Requests PROVE LogOK(q)'
    <2>1. LogOK(q) /\ UNCHANGED <<upload[q], log[q], counter[q]>>
        BY DEF LogInv
    <2>2. CASE q = r
        BY <1>1, <2>1, <2>2 DEF LogOK
    <2>3. CASE q # r
        <3>1. task'[q] = task[q]
            BY <1>1, <2>3
        <3>2. QED BY <2>1, <3>1 DEF LogOK
    <2>4. QED BY <2>2, <2>3
<1>3. QED BY <1>2 DEF LogInv

LEMMA LogTask ==
    ASSUME Typed, LogInv, NEW r \in Requests, TaskStep(r)
    PROVE  LogInv'
<1>1. CASE RejectTask(r)
    BY <1>1, LogTaskOnly DEF RejectTask
<1>2. CASE SpawnChild(r)
    BY <1>2, LogTaskOnly DEF SpawnChild
<1>3. CASE ReadLine(r)
    <2>1. CASE r \in registered
        BY <1>3, <2>1, LogPublish DEF ReadLine, NextCounter, Updates
    <2>2. CASE r \notin registered
        BY <1>3, <2>2, LogTaskOnly DEF ReadLine
    <2>3. QED BY <2>1, <2>2
<1>4. CASE FailToRead(r)
    BY <1>4, LogTaskOnly DEF FailToRead
<1>5. CASE ReapChild(r)
    BY <1>5, LogTaskOnly DEF ReapChild
<1>6. CASE Announce(r)
    <2>1. Outcome(r) \in Updates \cup Terminals
        BY DEF Outcome, Terminals
    <2>2. CASE r \in registered
        BY <1>6, <2>1, <2>2, LogPublish DEF Announce
    <2>3. CASE r \notin registered
        BY <1>6, <2>3, LogTaskOnly DEF Announce
    <2>4. QED BY <2>2, <2>3
<1>7. CASE RemoveInput(r)
    BY <1>7, LogTaskOnly DEF RemoveInput
<1>8. QED
    BY <1>1, <1>2, <1>3, <1>4, <1>5, <1>6, <1>7 DEF TaskStep, TaskProgress

\* The child, the streams and the downloads leave uploads, logs and tasks alone.
LEMMA OthersKeepLog ==
    ASSUME \/ \E r \in Requests : ChildStep(r)
           \/ \E s \in Streams : \/ \E r \in Requests : RequestStream(s, r)
                                 \/ StreamStep(s)
                                 \/ Disconnect(s)
           \/ \E d \in Downloads : \/ \E r \in Requests : RequestDownload(d, r)
                                   \/ DownloadStep(d)
    PROVE  UNCHANGED <<upload, log, task, counter, success>>
BY DEF ChildStep, PrintLine, StartCopy, FinishCopy, ExitWithError, ExitNormally,
       RequestStream, StreamStep, Subscribe, Poll, Disconnect, RequestDownload, DownloadStep,
       ReadDocument, DeleteDocument, ForgetRequest, taskVars

LEMMA LogInvInductive == Typed /\ LogInv /\ [Next]_vars => LogInv'
<1>1. ASSUME Typed, LogInv, Next PROVE LogInv'
    <2>1. CASE \E r \in Requests : UploadStep(r)
        BY <1>1, <2>1, LogUpload
    <2>2. CASE \E r \in Requests : TaskStep(r)
        BY <1>1, <2>2, LogTask
    <2>3. CASE \/ \E r \in Requests : ChildStep(r)
               \/ \E s \in Streams : \/ \E r \in Requests : RequestStream(s, r)
                                     \/ StreamStep(s)
                                     \/ Disconnect(s)
               \/ \E d \in Downloads : \/ \E r \in Requests : RequestDownload(d, r)
                                       \/ DownloadStep(d)
        <3>1. UNCHANGED <<upload, log, task, counter>>
            BY <2>3, OthersKeepLog
        <3>2. QED BY <1>1, <3>1, LogUntouched
    <2>4. QED BY <1>1, <2>1, <2>2, <2>3 DEF Next
<1>2. ASSUME LogInv, UNCHANGED vars PROVE LogInv'
    <2>1. UNCHANGED <<upload, log, task, counter>>
        BY <1>2 DEF vars, taskVars
    <2>2. QED BY <1>2, <2>1, LogUntouched
<1>3. QED BY <1>1, <1>2

LEMMA LogInvAlways == Spec => []LogInv
<1>1. Init => LogInv
    <2>1. ASSUME Init, NEW r \in Requests PROVE LogOK(r)
        <3>1. log[r] = <<>> /\ counter[r] = 1 /\ task[r] = "none"
            BY <2>1 DEF Init
        <3>2. Len(log[r]) = 0
            BY <3>1
        <3>3. QED BY <3>1, <3>2 DEF LogOK
    <2>2. QED BY <2>1 DEF LogInv
<1>2. QED BY <1>1, LogInvInductive, TypedAlways, PTL DEF Spec

\* For every upload, whatever the other requests, streams and downloads do, the
\* notifications are numbered without a gap and the outcome, if any, is the last.
THEOREM NotificationsInOrder == Spec => []LogWellFormed
<1>1. LogInv => LogWellFormed
    BY DEF LogInv, LogOK, LogWellFormed
<1>2. QED BY <1>1, LogInvAlways, PTL

-----------------------------------------------------------------------------
(* A success notification stands for a complete document.                  *)

\* A download that has taken a document stays one that has.
LEMMA TakenStays ==
    ASSUME Typed, Next, NEW q \in Requests, Taken(q)
    PROVE  Taken(q)'
<1>1. PICK e \in Downloads : target[e] = q /\ download[e] \in {"deleted", "responded"}
    BY DEF Taken
<1>2. download \in [Downloads -> DownloadState]
    BY DEF Typed, TypeOK
<1>3. ASSUME NEW d \in Downloads, NEW r \in Requests, RequestDownload(d, r) PROVE Taken(q)'
    <2>1. e # d /\ target'[e] = target[e] /\ download'[e] = download[e]
        BY <1>1, <1>2, <1>3 DEF RequestDownload
    <2>2. QED BY <1>1, <2>1 DEF Taken
<1>4. ASSUME NEW d \in Downloads, DownloadStep(d) PROVE Taken(q)'
    <2>1. target' = target
        BY <1>4 DEF DownloadStep, ReadDocument, DeleteDocument, ForgetRequest
    <2>2. \/ download[d] \in {"found", "read"} /\ e # d /\ download'[e] = download[e]
          \/ download[d] = "deleted" /\ download'[e] \in {download[e], "responded"}
        BY <1>1, <1>2, <1>4
           DEF DownloadStep, ReadDocument, DeleteDocument, ReadyToDelete, ForgetRequest
    <2>3. QED BY <1>1, <2>1, <2>2 DEF Taken
<1>5. CASE UNCHANGED downloadVars
    BY <1>1, <1>5 DEF Taken, downloadVars
<1>6. QED BY <1>3, <1>4, <1>5, DownloadsUntouched DEF Next

\* Steps under which a request keeps its document: nothing it depends on changes
\* but the downloads, or the task moves on once it has started.
LEMMA DocumentKept ==
    ASSUME Typed, Next, NEW q \in Requests, DocumentOK(q),
           UNCHANGED <<child[q], output[q], success[q], log[q]>>,
           task'[q] \in {"none", "ready"} => task[q] \in {"none", "ready"}
    PROVE  DocumentOK(q)'
<1>1. Taken(q) => Taken(q)'
    BY TakenStays
<1>2. Succeeded(q)' <=> Succeeded(q)
    BY DEF Succeeded, Announced
<1>3. QED BY <1>1, <1>2 DEF DocumentOK

LEMMA DocumentUpload ==
    ASSUME Typed, LogInv, DocumentInv, Next, NEW r \in Requests, UploadStep(r)
    PROVE  DocumentInv'
<1>1. /\ task \in [Requests -> TaskState]
      /\ log \in [Requests -> Seq(Notification)]
    BY DEF Typed, TypeOK
<1>2. task[r] = "none" /\ log[r] = <<>>
    BY DEF LogInv, LogOK, UploadStep, RejectUpload, CreateInput, FailUpload, AcceptUpload
<1>3. /\ UNCHANGED <<child, output, success>>
      /\ log' = log \/ log' = [log EXCEPT ![r] = <<>>]
      /\ task' = task \/ task' = [task EXCEPT ![r] = "ready"]
    BY DEF UploadStep, RejectUpload, CreateInput, FailUpload, AcceptUpload, taskVars, childVars
<1>4. ASSUME NEW q \in Requests PROVE DocumentOK(q)'
    <2>1. log'[q] = log[q]
        BY <1>1, <1>2, <1>3
    <2>2. task'[q] \in {"none", "ready"} => task[q] \in {"none", "ready"}
        BY <1>1, <1>2, <1>3
    <2>3. QED BY <1>3, <2>1, <2>2, DocumentKept DEF DocumentInv
<1>5. QED BY <1>4 DEF DocumentInv

\* No outcome has been published while the task still reads or announces.
LEMMA NoOutcomeYet ==
    ASSUME LogInv, NEW r \in Requests, task[r] \in {"none", "ready", "reading", "announcing"}
    PROVE  ~Succeeded(r)
<1>1. \A i \in 1 .. Len(log[r]) : ~IsTerminal(log[r][i])
    BY DEF LogInv, LogOK
<1>2. QED BY <1>1 DEF Succeeded, Announced, IsTerminal, Terminals

\* What publishing one notification adds to the outcomes of r.
LEMMA SucceededByPublishing ==
    ASSUME Typed, NEW r \in Requests, NEW event \in Updates \cup Terminals,
           log' = Published(r, event), Succeeded(r)'
    PROVE  Succeeded(r) \/ event = "processing_success"
<1>1. /\ Len(log'[r]) = Len(log[r]) + 1
      /\ \A i \in 1 .. Len(log[r]) : log'[r][i] = log[r][i]
      /\ log'[r][Len(log[r]) + 1] = [event |-> event, id |-> counter[r]]
    BY PublishedLog DEF Typed
<1>2. Len(log[r]) \in Nat
    BY DEF Typed, TypeOK
<1>3. PICK i \in 1 .. Len(log'[r]) : log'[r][i].event = "processing_success"
    BY DEF Succeeded, Announced
<1>4. CASE i \in 1 .. Len(log[r])
    BY <1>1, <1>3, <1>4 DEF Succeeded, Announced
<1>5. CASE i = Len(log[r]) + 1
    BY <1>1, <1>3, <1>5
<1>6. QED BY <1>1, <1>2, <1>4, <1>5

LEMMA DocumentTask ==
    ASSUME Typed, LogInv, DocumentInv, Next, NEW r \in Requests, TaskStep(r)
    PROVE  DocumentInv'
<1>1. /\ task \in [Requests -> TaskState]
      /\ child \in [Requests -> ChildState]
      /\ success \in [Requests -> BOOLEAN]
    BY DEF Typed, TypeOK
<1>2. /\ output' = output
      /\ \A q \in Requests \ {r} : UNCHANGED <<task[q], child[q], success[q]>>
      /\ task'[r] \notin {"none", "ready"}
    BY <1>1 DEF TaskStep, TaskProgress, RejectTask, SpawnChild, ReadLine, FailToRead, ReapChild,
                Announce, RemoveInput, childVars
<1>3. /\ \/ log' = log
         \/ log' = Published(r, "processing_update") /\ task[r] = "reading"
         \/ log' = Published(r, Outcome(r)) /\ task[r] = "announcing"
      /\ log' # log => UNCHANGED <<child, success>>
    BY DEF TaskStep, TaskProgress, RejectTask, SpawnChild, ReadLine, FailToRead, ReapChild,
           Announce, RemoveInput, childVars
<1>4. Outcome(r) \in Updates \cup Terminals /\ "processing_update" \in Updates \cup Terminals
    BY DEF Outcome, Updates, Terminals
<1>5. \A q \in Requests \ {r} : log'[q] = log[q]
    BY <1>3, <1>4, PublishedLog DEF Typed
<1>6. ASSUME NEW q \in Requests \ {r} PROVE DocumentOK(q)'
    BY <1>2, <1>5, DocumentKept DEF DocumentInv
<1>7. DocumentOK(r)'
    <2>1. DocumentOK(r) /\ (Taken(r) => Taken(r)')
        BY TakenStays DEF DocumentInv
    <2>2. CASE log' # log
        <3>1. Succeeded(r)' => Outcome(r) = "processing_success" /\ log' = Published(r, Outcome(r))
            BY <1>3, <1>4, <2>2, SucceededByPublishing, NoOutcomeYet
        <3>2. Succeeded(r)' => success[r]
            BY <3>1 DEF Outcome
        <3>3. QED BY <1>2, <1>3, <2>1, <2>2, <3>2 DEF DocumentOK
    <2>3. CASE log' = log
        <3>1. Succeeded(r)' <=> Succeeded(r)
            BY <2>3 DEF Succeeded, Announced
        <3>2. \/ UNCHANGED <<child[r], success[r]>>
              \/ task[r] = "ready" /\ child'[r] = "running" /\ success'[r] = success[r]
              \/ task[r] = "reading" /\ child'[r] = child[r]
                 /\ success'[r] = (child[r] = "exit_ok")
            BY <1>1 DEF TaskStep, TaskProgress, RejectTask, SpawnChild, ReadLine, FailToRead,
                        ReapChild, ExitedWell, Announce, RemoveInput, childVars
        <3>3. task[r] \in {"ready", "reading"} => ~Succeeded(r)
            BY NoOutcomeYet
        <3>4. task[r] = "ready" => ~success[r]
            BY <2>1 DEF DocumentOK
        <3>5. QED BY <1>2, <2>1, <3>1, <3>2, <3>3, <3>4 DEF DocumentOK
    <2>4. QED BY <2>2, <2>3
<1>8. QED BY <1>6, <1>7 DEF DocumentInv

LEMMA DocumentChild ==
    ASSUME Typed, DocumentInv, Next, NEW r \in Requests, ChildStep(r)
    PROVE  DocumentInv'
<1>1. /\ child \in [Requests -> ChildState]
      /\ output \in [Requests -> File]
    BY DEF Typed, TypeOK
<1>2. /\ UNCHANGED <<task, success, log>>
      /\ child[r] \in {"running", "copying", "copied"}
      /\ \A q \in Requests \ {r} : UNCHANGED <<child[q], output[q]>>
      /\ child'[r] \in {child[r], "exit_err"} => output'[r] = output[r]
      /\ \/ child'[r] \in {child[r], "exit_err"}
         \/ child'[r] = "copying" /\ output'[r] = "partial"
         \/ /\ child[r] = "copying" /\ child'[r] = "copied"
            /\ output'[r] = IF output[r] = "partial" THEN "full" ELSE output[r]
         \/ child[r] = "copied" /\ child'[r] = "exit_ok" /\ output'[r] = output[r]
    BY <1>1 DEF ChildStep, PrintLine, StartCopy, FinishCopy, ExitWithError, ExitNormally, taskVars
<1>3. ASSUME NEW q \in Requests \ {r} PROVE DocumentOK(q)'
    BY <1>2, <1>3, DocumentKept DEF DocumentInv
<1>4. DocumentOK(r)'
    <2>1. DocumentOK(r) /\ (Taken(r) => Taken(r)')
        BY TakenStays DEF DocumentInv
    <2>2. Succeeded(r)' <=> Succeeded(r)
        BY <1>2 DEF Succeeded, Announced
    <2>3. ~success[r] /\ task[r] \notin {"none", "ready"}
        BY <1>2, <2>1 DEF DocumentOK
    <2>4. QED BY <1>2, <2>1, <2>2, <2>3 DEF DocumentOK
<1>5. QED BY <1>3, <1>4 DEF DocumentInv

LEMMA DocumentDownload ==
    ASSUME Typed, DocumentInv, Next,
           \/ \E s \in Streams : \/ \E r \in Requests : RequestStream(s, r)
                                 \/ StreamStep(s)
                                 \/ Disconnect(s)
           \/ \E d \in Downloads : \/ \E r \in Requests : RequestDownload(d, r)
                                   \/ DownloadStep(d)
    PROVE  DocumentInv'
<1>1. UNCHANGED <<task, success, log>>
    BY OthersKeepLog
<1>2. child' = child
    BY DEF RequestStream, StreamStep, Subscribe, Poll, Disconnect, RequestDownload, DownloadStep,
           ReadDocument, DeleteDocument, ForgetRequest, childVars
<1>3. \/ output' = output
      \/ \E d \in Downloads : DeleteDocument(d)
    BY DEF RequestStream, StreamStep, Subscribe, Poll, Disconnect, RequestDownload, DownloadStep,
           ReadDocument, ForgetRequest
<1>4. ASSUME NEW q \in Requests PROVE DocumentOK(q)'
    <2>1. CASE output'[q] = output[q]
        BY <1>1, <1>2, <2>1, DocumentKept DEF DocumentInv
    <2>2. CASE output'[q] # output[q]
        <3>1. PICK d \in Downloads : DeleteDocument(d)
            BY <1>3, <2>2
        <3>2. /\ output' = [output EXCEPT ![target[d]] = "absent"]
              /\ download' = [download EXCEPT ![d] = "deleted"]
              /\ target' = target
            BY <2>2, <3>1 DEF DeleteDocument
        <3>3. output \in [Requests -> File] /\ download \in [Downloads -> DownloadState]
            BY DEF Typed, TypeOK
        <3>4. target[d] = q
            BY <2>2, <3>2, <3>3
        <3>5. Taken(q)'
            BY <3>2, <3>3, <3>4 DEF Taken
        <3>6. Succeeded(q)' <=> Succeeded(q)
            BY <1>1 DEF Succeeded, Announced
        <3>7. QED BY <1>1, <1>2, <3>5, <3>6 DEF DocumentInv, DocumentOK
    <2>3. QED BY <2>1, <2>2
<1>5. QED BY <1>4 DEF DocumentInv

LEMMA DocumentInvInductive == Typed /\ LogInv /\ DocumentInv /\ [Next]_vars => DocumentInv'
<1>1. ASSUME Typed, LogInv, DocumentInv, Next PROVE DocumentInv'
    <2>1. CASE \E r \in Requests : UploadStep(r)
        BY <1>1, <2>1, DocumentUpload
    <2>2. CASE \E r \in Requests : TaskStep(r)
        BY <1>1, <2>2, DocumentTask
    <2>3. CASE \E r \in Requests : ChildStep(r)
        BY <1>1, <2>3, DocumentChild
    <2>4. CASE \/ \E s \in Streams : \/ \E r \in Requests : RequestStream(s, r)
                                     \/ StreamStep(s)
                                     \/ Disconnect(s)
               \/ \E d \in Downloads : \/ \E r \in Requests : RequestDownload(d, r)
                                       \/ DownloadStep(d)
        BY <1>1, <2>4, DocumentDownload
    <2>5. QED BY <1>1, <2>1, <2>2, <2>3, <2>4 DEF Next
<1>2. ASSUME DocumentInv, UNCHANGED vars PROVE DocumentInv'
    <2>1. UNCHANGED <<task, child, output, success, log, target, download>>
        BY <1>2 DEF vars, taskVars, childVars, downloadVars
    <2>2. QED
        BY <1>2, <2>1 DEF DocumentInv, DocumentOK, Succeeded, Announced, Taken
<1>3. QED BY <1>1, <1>2

LEMMA DocumentInvAlways == Spec => []DocumentInv
<1>1. Init => DocumentInv
    <2>1. ASSUME Init, NEW r \in Requests PROVE DocumentOK(r)
        <3>1. log[r] = <<>> /\ child[r] = "none" /\ ~success[r]
            BY <2>1 DEF Init
        <3>2. ~Succeeded(r)
            BY <3>1 DEF Succeeded, Announced
        <3>3. QED BY <3>1, <3>2 DEF DocumentOK
    <2>2. QED BY <2>1 DEF DocumentInv
<1>2. QED BY <1>1, DocumentInvInductive, TypedAlways, LogInvAlways, PTL DEF Spec

\* processing_success is never announced without the whole document on disk,
\* except after a download of it, for any number of requests and downloads and
\* also when downloads come early and file operations fail.
THEOREM SuccessIsBacked == Spec => []SuccessMeansDocument
<1>1. DocumentInv => SuccessMeansDocument
    BY DEF DocumentInv, DocumentOK, SuccessMeansDocument, Taken
<1>2. QED BY <1>1, DocumentInvAlways, PTL

=============================================================================
