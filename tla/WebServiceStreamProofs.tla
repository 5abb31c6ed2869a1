------------------------ MODULE WebServiceStreamProofs ------------------------
(***************************************************************************)
(* Theorems of WebService about the event streams: every stream repeats    *)
(* the log of its request, for every number of streams and requests.       *)
(***************************************************************************)
EXTENDS WebServiceProofs

-----------------------------------------------------------------------------
(* Logs grow.                                                              *)

\* The log that a stream reads is only ever extended at its end.
Extended(r) ==
    /\ upload'[r] = "accepted"
    /\ Len(log[r]) <= Len(log'[r])
    /\ \A i \in 1 .. Len(log[r]) : log'[r][i] = log[r][i]

\* A step that leaves the log and the upload of r alone extends the log by nothing.
LEMMA SameLogExtended ==
    ASSUME Typed, NEW r \in Requests, upload[r] = "accepted", UNCHANGED <<upload[r], log[r]>>
    PROVE  Extended(r)
<1>1. Len(log[r]) \in Nat
    BY DEF Typed, TypeOK
<1>2. QED BY <1>1 DEF Extended

LEMMA LogGrows ==
    ASSUME Typed, LogInv, Next, NEW q \in Requests, upload[q] = "accepted"
    PROVE  Extended(q)
<1>1. /\ upload \in [Requests -> UploadState]
      /\ log \in [Requests -> Seq(Notification)]
    BY DEF Typed, TypeOK
<1>2. ASSUME NEW r \in Requests, UploadStep(r) PROVE Extended(q)
    <2>1. r # q
        BY <1>2 DEF UploadStep, RejectUpload, CreateInput, FailUpload, AcceptUpload
    <2>2. upload'[q] = upload[q] /\ log'[q] = log[q]
        BY <1>1, <1>2, <2>1 DEF UploadStep, RejectUpload, CreateInput, FailUpload, AcceptUpload
    <2>3. QED BY <2>2, SameLogExtended
<1>3. ASSUME NEW r \in Requests, TaskStep(r) PROVE Extended(q)
    <2>1. /\ upload' = upload
          /\ log' = log \/ \E e \in Updates \cup Terminals : log' = Published(r, e)
        BY <1>3 DEF TaskStep, TaskProgress, RejectTask, SpawnChild, ReadLine, FailToRead,
                    ReapChild, Announce, Outcome, RemoveInput, Updates, Terminals
    <2>2. CASE log' = log
        BY <2>1, <2>2, SameLogExtended
    <2>3. ASSUME NEW e \in Updates \cup Terminals, log' = Published(r, e) PROVE Extended(q)
        <3>1. /\ Len(log'[r]) = Len(log[r]) + 1
              /\ \A i \in 1 .. Len(log[r]) : log'[r][i] = log[r][i]
              /\ \A p \in Requests \ {r} : log'[p] = log[p]
            BY <2>3, PublishedLog DEF Typed
        <3>2. Len(log[r]) \in Nat
            BY <1>1
        <3>3. CASE q = r
            BY <2>1, <3>1, <3>2, <3>3 DEF Extended
        <3>4. CASE q # r
            BY <2>1, <3>1, <3>4, SameLogExtended
        <3>5. QED BY <3>3, <3>4
    <2>4. QED BY <2>1, <2>2, <2>3
<1>4. CASE \/ \E r \in Requests : ChildStep(r)
           \/ \E s \in Streams : \/ \E r \in Requests : RequestStream(s, r)
                                 \/ StreamStep(s)
                                 \/ Disconnect(s)
           \/ \E d \in Downloads : \/ \E r \in Requests : RequestDownload(d, r)
                                   \/ DownloadStep(d)
    <2>1. UNCHANGED <<upload, log>>
        BY <1>4, OthersKeepLog
    <2>2. QED BY <2>1, SameLogExtended
<1>5. QED BY <1>2, <1>3, <1>4 DEF Next

-----------------------------------------------------------------------------
(* Streams.                                                                *)

\* A stream that does not move goes on replaying a log that grows.
LEMMA RestingStream ==
    ASSUME Typed, LogInv, StreamInv, Next, NEW s \in Streams,
           UNCHANGED <<stream[s], source[s], idx[s], sent[s]>>
    PROVE  (StreamOK(s) /\ Replays(s))'
<1>1. StreamOK(s) /\ Replays(s)
    BY DEF StreamInv
<1>2. CASE stream[s] = "idle"
    BY <1>1, <1>2 DEF StreamOK, Replays
<1>3. CASE stream[s] # "idle"
    <2>1. source[s] \in Requests /\ upload[source[s]] = "accepted"
        BY <1>1, <1>3 DEF StreamOK
    <2>2. Extended(source[s])
        BY <2>1, LogGrows
    <2>3. /\ Len(sent[s]) \in Nat
          /\ Len(log[source[s]]) \in Nat
        BY <2>1 DEF Typed, TypeOK
    <2>4. StreamOK(s)'
        BY <1>1, <2>1, <2>2 DEF StreamOK, Extended
    <2>5. ASSUME sent[s] # <<>>, Len(log'[source[s]]) \in Nat
          PROVE  /\ Len(sent[s]) <= Len(log'[source[s]])
                 /\ \A i \in 1 .. Len(sent[s]) : sent[s][i] = log'[source[s]][i]
        BY <1>1, <2>2, <2>3, <2>5 DEF Replays, Extended
    <2>6. Typed'
        BY TypedStep
    <2>7. Len(log'[source[s]]) \in Nat
        BY <2>1, <2>6 DEF Typed, TypeOK
    <2>8. Replays(s)'
        BY <1>1, <2>5, <2>7 DEF Replays
    <2>9. QED BY <2>4, <2>8
<1>4. QED BY <1>2, <1>3

\* The steps of one stream leave the others where they are.
LEMMA OtherStreams ==
    ASSUME Typed, NEW t \in Streams,
           StreamStep(t) \/ Disconnect(t) \/ \E r \in Requests : RequestStream(t, r),
           NEW s \in Streams, s # t
    PROVE  UNCHANGED <<stream[s], source[s], idx[s], sent[s]>>
<1>1. /\ stream \in [Streams -> StreamState]
      /\ source \in [Streams -> Requests \cup {NoRequest}]
      /\ idx \in [Streams -> Nat]
      /\ sent \in [Streams -> Seq(Notification)]
    BY DEF Typed, TypeOK
<1>2. QED
    BY <1>1 DEF StreamStep, Subscribe, Poll, Disconnect, RequestStream

LEMMA MovingStream ==
    ASSUME Typed, LogInv, StreamInv, NEW s \in Streams,
           StreamStep(s) \/ Disconnect(s) \/ \E r \in Requests : RequestStream(s, r)
    PROVE  (StreamOK(s) /\ Replays(s))'
<1>1. StreamOK(s) /\ Replays(s)
    BY DEF StreamInv
<1>2. /\ stream \in [Streams -> StreamState]
      /\ source \in [Streams -> Requests \cup {NoRequest}]
      /\ idx \in [Streams -> Nat]
      /\ sent \in [Streams -> Seq(Notification)]
    BY DEF Typed, TypeOK
<1>3. UNCHANGED <<log, upload>>
    BY DEF StreamStep, Subscribe, Poll, Disconnect, RequestStream
<1>4. ASSUME NEW r \in Requests, RequestStream(s, r) PROVE (StreamOK(s) /\ Replays(s))'
    <2>1. /\ stream'[s] \in {"checked", "refused"} /\ source'[s] = r
          /\ sent'[s] = <<>> /\ idx'[s] = 0
          /\ upload[r] = "accepted"
        BY <1>1, <1>2, <1>4 DEF RequestStream, StreamOK
    <2>2. Len(sent'[s]) = 0
        BY <2>1
    <2>3. QED BY <1>3, <2>1, <2>2 DEF StreamOK, Replays
<1>5. CASE Subscribe(s)
    <2>1. /\ stream'[s] = "open" /\ stream[s] = "checked" /\ source'[s] = source[s]
          /\ sent'[s] = <<>> /\ idx'[s] = 0
        BY <1>1, <1>2, <1>5 DEF Subscribe, FirstIndex, StreamOK
    <2>2. Len(sent'[s]) = 0
        BY <2>1
    <2>3. QED BY <1>1, <1>3, <2>1, <2>2 DEF StreamOK, Replays
<1>6. CASE Poll(s)
    <2> DEFINE n == log[source[s]][idx[s] + 1]
    <2>1. /\ stream[s] = "open" /\ idx[s] < Len(log[source[s]])
          /\ source'[s] = source[s]
          /\ idx'[s] = idx[s] + 1
          /\ sent'[s] = Append(sent[s], n)
          /\ stream'[s] = IF IsTerminal(n) THEN "done" ELSE "open"
        BY <1>2, <1>6 DEF Poll, EndsStream
    <2>2. source[s] \in Requests /\ upload[source[s]] = "accepted"
        BY <1>1, <2>1 DEF StreamOK
    <2>3. log[source[s]] \in Seq(Notification)
        BY <2>2 DEF Typed, TypeOK
    <2>4. n \in Notification
        BY <1>2, <2>1, <2>3
    <2> HIDE DEF n
    <2>5. /\ Len(sent[s]) \in Nat /\ Len(sent'[s]) = Len(sent[s]) + 1
          /\ \A i \in 1 .. Len(sent[s]) : sent'[s][i] = sent[s][i]
          /\ sent'[s][Len(sent[s]) + 1] = n
          /\ sent'[s] # <<>>
        <3>1. sent[s] \in Seq(Notification)
            BY <1>2
        <3>2. /\ Append(sent[s], n) # <<>>
              /\ Len(Append(sent[s], n)) = Len(sent[s]) + 1
              /\ \A i \in 1 .. Len(sent[s]) : Append(sent[s], n)[i] = sent[s][i]
              /\ Append(sent[s], n)[Len(sent[s]) + 1] = n
            BY <2>4, <3>1, AppendProperties
        <3>3. Len(sent[s]) \in Nat
            BY <3>1, LenProperties
        <3>4. QED BY <2>1, <3>2, <3>3
    <2>6. idx[s] = Len(sent[s]) /\ \A i \in 1 .. Len(sent[s]) : ~IsTerminal(sent[s][i])
        BY <1>1, <2>1 DEF Replays
    <2>7. \A i \in 1 .. Len(sent[s]) : sent[s][i] = log[source[s]][i]
        BY <1>1, <2>5 DEF Replays
    <2>8. \A i \in 1 .. Len(sent'[s]) : sent'[s][i] = log[source[s]][i]
        BY <2>5, <2>6, <2>7 DEF n
    <2>9. Len(sent'[s]) <= Len(log[source[s]])
        BY <2>1, <2>3, <2>5, <2>6
    <2>10. IsTerminal(n) => IsTerminal(sent'[s][Len(sent'[s])])
        BY <2>5
    <2>11. ~IsTerminal(n) => \A i \in 1 .. Len(sent'[s]) : ~IsTerminal(sent'[s][i])
        BY <2>5, <2>6
    <2>12. Replays(s)'
        BY <1>3, <2>1, <2>5, <2>6, <2>8, <2>9, <2>10, <2>11 DEF Replays
    <2>13. StreamOK(s)'
        BY <1>3, <2>1, <2>2 DEF StreamOK
    <2>14. QED BY <2>12, <2>13
<1>7. CASE Disconnect(s)
    <2>1. stream[s] = "open" /\ stream'[s] = "gone" /\ UNCHANGED <<source, idx, sent>>
        BY <1>2, <1>7 DEF Disconnect
    <2>2. QED BY <1>1, <1>3, <2>1 DEF StreamOK, Replays
<1>8. QED BY <1>4, <1>5, <1>6, <1>7 DEF StreamStep

\* The steps of uploads, tasks, children and downloads leave every stream alone.
LEMMA StreamsUntouched ==
    ASSUME \/ \E r \in Requests : UploadStep(r) \/ TaskStep(r) \/ ChildStep(r)
           \/ \E d \in Downloads : \/ \E r \in Requests : RequestDownload(d, r)
                                   \/ DownloadStep(d)
    PROVE  UNCHANGED streamVars
BY DEF UploadStep, RejectUpload, CreateInput, FailUpload, AcceptUpload,
       TaskStep, TaskProgress, RejectTask, SpawnChild, ReadLine, FailToRead, ReapChild, Announce,
       RemoveInput, ChildStep, PrintLine, StartCopy, FinishCopy, ExitWithError, ExitNormally,
       RequestDownload, DownloadStep, ReadDocument, DeleteDocument, ForgetRequest

LEMMA StreamInvInductive == Typed /\ LogInv /\ StreamInv /\ [Next]_vars => StreamInv'
<1>1. ASSUME Typed, LogInv, StreamInv, Next PROVE StreamInv'
    <2>1. CASE \/ \E r \in Requests : UploadStep(r) \/ TaskStep(r) \/ ChildStep(r)
               \/ \E d \in Downloads : \/ \E r \in Requests : RequestDownload(d, r)
                                       \/ DownloadStep(d)
        <3>1. UNCHANGED streamVars
            BY <2>1, StreamsUntouched
        <3>2. QED BY <1>1, <3>1, RestingStream DEF StreamInv, streamVars
    <2>2. ASSUME NEW t \in Streams,
                 StreamStep(t) \/ Disconnect(t) \/ \E r \in Requests : RequestStream(t, r),
                 NEW s \in Streams
          PROVE  (StreamOK(s) /\ Replays(s))'
        <3>1. CASE s = t
            BY <1>1, <2>2, <3>1, MovingStream
        <3>2. CASE s # t
            <4>1. UNCHANGED <<stream[s], source[s], idx[s], sent[s]>>
                BY <1>1, <2>2, <3>2, OtherStreams
            <4>2. QED BY <1>1, <4>1, RestingStream
        <3>3. QED BY <3>1, <3>2
    <2>3. QED BY <1>1, <2>1, <2>2 DEF Next, StreamInv
<1>2. ASSUME StreamInv, UNCHANGED vars PROVE StreamInv'
    <2>1. UNCHANGED <<upload, log, stream, source, idx, sent>>
        BY <1>2 DEF vars, streamVars
    <2>2. QED BY <1>2, <2>1 DEF StreamInv, StreamOK, Replays
<1>3. QED BY <1>1, <1>2

LEMMA StreamInvAlways == Spec => []StreamInv
<1>1. Init => StreamInv
    <2>1. ASSUME Init, NEW s \in Streams PROVE StreamOK(s) /\ Replays(s)
        <3>1. stream[s] = "idle" /\ sent[s] = <<>> /\ idx[s] = 0 /\ Len(sent[s]) = 0
            BY <2>1 DEF Init
        <3>2. QED BY <3>1 DEF StreamOK, Replays
    <2>2. QED BY <2>1 DEF StreamInv
<1>2. QED BY <1>1, StreamInvInductive, TypedAlways, LogInvAlways, PTL DEF Spec

\* Every client of an event stream has got a prefix of its request's notifications
\* from the first one, without gap or repetition, and its stream ends exactly with
\* the outcome, for any number of requests and of streams of one request.
THEOREM StreamsAreFaithful == Spec => []StreamsReplayLog
<1>1. StreamInv => StreamsReplayLog
    BY DEF StreamInv, StreamsReplayLog
<1>2. QED BY <1>1, StreamInvAlways, PTL

-----------------------------------------------------------------------------
(* The outcome that a task owes.                                           *)

LEMMA RestingDebt ==
    ASSUME OwedInv, NEW q \in Requests, UNCHANGED <<upload[q], log[q], task[q]>>,
           registered' \subseteq registered \/ q \notin registered'
    PROVE  OwedOK(q)'
BY DEF OwedInv, OwedOK, Answered, Succeeded, Announced

LEMMA TaskPaysDebt ==
    ASSUME Typed, OwedInv, NEW r \in Requests, TaskStep(r)
    PROVE  OwedInv'
<1>1. /\ task \in [Requests -> TaskState]
      /\ log \in [Requests -> Seq(Notification)]
      /\ OwedOK(r)
    BY DEF Typed, TypeOK, OwedInv
<1>2. UNCHANGED <<upload, registered>>
    BY DEF TaskStep, TaskProgress, RejectTask, SpawnChild, ReadLine, FailToRead, ReapChild, Announce,
           RemoveInput
<1>3. ASSUME NEW q \in Requests \ {r} PROVE OwedOK(q)'
    <2>1. task'[q] = task[q] /\ log'[q] = log[q]
        BY <1>1, <1>3 DEF TaskStep, TaskProgress, RejectTask, SpawnChild, ReadLine, FailToRead, ReapChild,
                          Announce, RemoveInput, Published
    <2>2. QED BY <1>2, <2>1, RestingDebt
<1>4. OwedOK(r)'
    <2>1. CASE RejectTask(r)
        BY <1>2, <2>1 DEF RejectTask, OwedOK
    <2>2. CASE SpawnChild(r) \/ FailToRead(r) \/ ReapChild(r)
        <3>1. task'[r] \in Publishing
            BY <1>1, <2>2 DEF SpawnChild, FailToRead, ReapChild, Publishing
        <3>2. QED BY <3>1 DEF OwedOK
    <2>3. CASE ReadLine(r)
        <3>1. r \notin registered \/ task'[r] = "reading"
            BY <1>1, <2>3 DEF ReadLine
        <3>2. QED BY <1>2, <3>1 DEF OwedOK, Publishing
    <2>4. CASE Announce(r)
        <3>1. CASE r \in registered
            <4>1. log' = Published(r, Outcome(r)) /\ Outcome(r) \in Updates \cup Terminals
                BY <2>4, <3>1 DEF Announce, Outcome, Terminals
            <4>2. /\ Len(log'[r]) = Len(log[r]) + 1
                  /\ log'[r][Len(log[r]) + 1] = [event |-> Outcome(r), id |-> counter[r]]
                BY <4>1, PublishedLog DEF Typed
            <4>3. Len(log[r]) \in Nat
                BY <1>1
            <4>4. /\ Len(log[r]) + 1 \in 1 .. Len(log'[r])
                  /\ log'[r][Len(log[r]) + 1].event \in {"processing_success", "processing_failure"}
                BY <4>2, <4>3 DEF Outcome
            <4>5. Answered(r)'
                BY <4>4 DEF Answered, Succeeded, Announced
            <4>6. QED BY <4>5 DEF OwedOK
        <3>2. CASE r \notin registered
            BY <1>2, <3>2 DEF OwedOK
        <3>3. QED BY <3>1, <3>2
    <2>5. CASE RemoveInput(r)
        <3>1. task[r] = "removing" /\ UNCHANGED log
            BY <2>5 DEF RemoveInput
        <3>2. upload[r] = "accepted" /\ r \in Launchable \cap registered => Answered(r)
            BY <1>1, <3>1 DEF OwedOK, Publishing
        <3>3. Answered(r) => Answered(r)'
            BY <3>1 DEF Answered, Succeeded, Announced
        <3>4. QED BY <1>2, <3>2, <3>3 DEF OwedOK
    <2>6. QED BY <2>1, <2>2, <2>3, <2>4, <2>5 DEF TaskStep, TaskProgress
<1>5. QED BY <1>3, <1>4 DEF OwedInv

LEMMA OwedInvInductive == Typed /\ OwedInv /\ [Next]_vars => OwedInv'
<1>1. ASSUME Typed, OwedInv, UNCHANGED vars PROVE OwedInv'
    BY <1>1, RestingDebt DEF vars, taskVars, OwedInv
<1>2. ASSUME Typed, OwedInv, NEW r \in Requests, UploadStep(r) PROVE OwedInv'
    <2>1. /\ upload \in [Requests -> UploadState]
          /\ task \in [Requests -> TaskState]
          /\ log \in [Requests -> Seq(Notification)]
        BY <1>2 DEF Typed, TypeOK
    <2>2. ASSUME NEW q \in Requests \ {r} PROVE OwedOK(q)'
        <3>1. UNCHANGED <<upload[q], task[q], log[q]>>
            BY <1>2, <2>1, <2>2
               DEF UploadStep, RejectUpload, CreateInput, FailUpload, AcceptUpload, taskVars
        <3>2. q \in registered' => q \in registered
            BY <1>2, <2>2 DEF UploadStep, RejectUpload, CreateInput, FailUpload, AcceptUpload
        <3>3. QED BY <1>2, <3>1, <3>2 DEF OwedInv, OwedOK, Answered, Succeeded, Announced
    <2>3. OwedOK(r)'
        <3>1. upload'[r] = "accepted" => task'[r] = "ready"
            BY <1>2, <2>1 DEF UploadStep, RejectUpload, CreateInput, FailUpload, AcceptUpload
        <3>2. QED BY <3>1 DEF OwedOK, Publishing
    <2>4. QED BY <2>2, <2>3 DEF OwedInv
<1>3. ASSUME OwedInv,
             \/ \E r \in Requests : ChildStep(r)
             \/ \E s \in Streams : \/ \E r \in Requests : RequestStream(s, r)
                                   \/ StreamStep(s)
                                   \/ Disconnect(s)
             \/ \E d \in Downloads : \/ \E r \in Requests : RequestDownload(d, r)
                                     \/ DownloadStep(d)
      PROVE  OwedInv'
    <2>1. UNCHANGED <<upload, log, task>>
        BY <1>3, OthersKeepLog
    <2>2. registered' \subseteq registered
        BY <1>3 DEF ChildStep, PrintLine, StartCopy, FinishCopy, ExitWithError, ExitNormally, RequestStream,
                    StreamStep, Subscribe, Poll, Disconnect, RequestDownload, DownloadStep, ReadDocument,
                    DeleteDocument, ForgetRequest
    <2>3. QED BY <1>3, <2>1, <2>2, RestingDebt DEF OwedInv
<1>4. QED BY <1>1, <1>2, <1>3, TaskPaysDebt DEF Next

LEMMA OwedInvAlways == Spec => []OwedInv
<1>1. Init => OwedInv
    BY DEF Init, OwedInv, OwedOK
<1>2. QED BY <1>1, OwedInvInductive, TypedAlways, PTL DEF Spec

\* An event stream is never left open with nothing to come: as long as its request is
\* registered and its task could begin, there are notifications left or the task is
\* still to publish, whatever fails and whenever the stream has subscribed. This is
\* what the end of every stream needs besides fairness.
THEOREM StreamsNeverStall == Spec => []StreamsGoOn
<1>1. Typed /\ LogInv /\ StreamInv /\ OwedInv => StreamsGoOn
    <2> SUFFICES ASSUME Typed, LogInv, StreamInv, OwedInv, NEW s \in Streams, stream[s] = "open",
                        source[s] \in Launchable \cap registered,
                        task[source[s]] \notin Publishing, ~ (idx[s] < Len(log[source[s]]))
                 PROVE  FALSE
        BY DEF StreamsGoOn
    <2>1. source[s] \in Requests /\ upload[source[s]] = "accepted" /\ Replays(s)
        BY DEF StreamInv, StreamOK
    <2>2. Answered(source[s])
        BY <2>1 DEF OwedInv, OwedOK
    <2>3. PICK i \in 1 .. Len(log[source[s]]) : IsTerminal(log[source[s]][i])
        BY <2>2 DEF Answered, Succeeded, Announced, IsTerminal, Terminals
    <2>4. Len(log[source[s]]) \in Nat /\ Len(sent[s]) \in Nat /\ idx[s] = Len(sent[s])
        BY <2>1 DEF Typed, TypeOK, Replays
    <2>5. i \in 1 .. Len(sent[s])
        BY <2>3, <2>4
    <2>6. sent[s] # <<>>
        BY <2>4, <2>5
    <2>7. sent[s][i] = log[source[s]][i]
        BY <2>1, <2>5, <2>6 DEF Replays
    <2>8. QED BY <2>1, <2>3, <2>5, <2>7 DEF Replays
<1>2. QED BY <1>1, TypedAlways, LogInvAlways, StreamInvAlways, OwedInvAlways, PTL

=============================================================================
