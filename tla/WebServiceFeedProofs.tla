------------------------- MODULE WebServiceFeedProofs -------------------------
(***************************************************************************)
(* Theorems of WebService for clients that wait for processing_success     *)
(* before they download: no document that was announced is lost, and the   *)
(* server implements EventFeed; and, without faults, the uploaded file     *)
(* outlives the child that reads it.                                       *)
(***************************************************************************)
EXTENDS WebServiceStreamProofs

-----------------------------------------------------------------------------
(* The inductive invariants.                                               *)

\* A download that has begun is of a request whose success was announced.
HandOK(d) == download[d] # "idle" => target[d] \in Requests /\ Succeeded(target[d])
HandInv == \A d \in Downloads : HandOK(d)

\* Some download has all of the document.
HasFull(r) == \E d \in Downloads : target[d] = r /\ data[d] = "full"

\* What is read is the whole document, or somebody else has read that.
ReadOK(d) ==
    /\ download[d] \in {"idle", "not_found", "found"} => data[d] = "absent"
    /\ download[d] \in {"read", "deleted", "responded"} => HasFull(target[d])
ReadInv == \A d \in Downloads : ReadOK(d)

\* The task removes the input only after it has waited for the child.
InputOK(r) ==
    /\ task[r] \in {"announcing", "removing"} => child[r] \in Exited
    /\ upload[r] = "accepted" /\ input[r] = "absent" => child[r] \in Exited
InputInv == \A r \in Requests : InputOK(r)

\* A stream follows nobody before its request comes.
FollowInv == \A s \in Streams : stream[s] = "idle" => source[s] = NoRequest

-----------------------------------------------------------------------------
(* A success that was announced stays so, and a download follows one.      *)

LEMMA SucceededStays ==
    ASSUME Typed, LogInv, Next, NEW q \in Requests, Succeeded(q)
    PROVE  Succeeded(q)'
<1>1. PICK i \in 1 .. Len(log[q]) : log[q][i].event = "processing_success"
    BY DEF Succeeded, Announced
<1>2. upload[q] = "accepted"
    <2>1. CASE upload[q] # "accepted"
        <3>1. log[q] = <<>>
            BY <2>1 DEF LogInv, LogOK
        <3>2. QED BY <1>1, <3>1
    <2>2. QED BY <2>1
<1>3. Extended(q)
    BY <1>2, LogGrows
<1>4. /\ Len(log[q]) \in Nat
      /\ Len(log'[q]) \in Nat
    BY TypedStep DEF Typed, TypeOK
<1>5. i \in 1 .. Len(log'[q]) /\ log'[q][i].event = "processing_success"
    BY <1>1, <1>3, <1>4 DEF Extended
<1>6. QED BY <1>5 DEF Succeeded, Announced

\* A client that waits has seen the success, and streams repeat the log.
LEMMA DownloadFollowsSuccess ==
    ASSUME Typed, StreamInv, ~EarlyDownloads, NEW r \in Requests, MayDownload(r)
    PROVE  Succeeded(r)
<1>1. PICK s \in Streams : /\ source[s] = r
                           /\ \E i \in 1 .. Len(sent[s]) : sent[s][i].event = "processing_success"
    BY DEF MayDownload
<1>2. PICK i \in 1 .. Len(sent[s]) : sent[s][i].event = "processing_success"
    BY <1>1
<1>3. Replays(s)
    BY DEF StreamInv
<1>4. sent[s] # <<>> /\ Len(sent[s]) \in Nat /\ Len(log[r]) \in Nat
    <2>1. sent[s] \in Seq(Notification)
        BY DEF Typed, TypeOK
    <2>2. Len(sent[s]) \in Nat
        BY <2>1
    <2>3. sent[s] # <<>>
        <3>1. Len(sent[s]) > 0
            BY <1>2, <2>2
        <3>2. QED BY <3>1
    <2>4. QED BY <2>2, <2>3 DEF Typed, TypeOK
<1>5. i \in 1 .. Len(log[r]) /\ log[r][i].event = "processing_success"
    BY <1>1, <1>2, <1>3, <1>4 DEF Replays
<1>6. QED BY <1>5 DEF Succeeded, Announced

\* What a step of a download does to the variables of the downloads.
LEMMA DownloadMoves ==
    ASSUME Typed, NEW d \in Downloads,
           DownloadStep(d) \/ \E r \in Requests : RequestDownload(d, r)
    PROVE  /\ \A e \in Downloads \ {d} : UNCHANGED <<download[e], target[e], data[e]>>
           /\ UNCHANGED <<log, upload>>
           /\ download[d] # "idle" => UNCHANGED target[d] /\ download'[d] # "idle"
<1>1. /\ download \in [Downloads -> DownloadState]
      /\ target \in [Downloads -> Requests \cup {NoRequest}]
      /\ data \in [Downloads -> File]
    BY DEF Typed, TypeOK
<1>2. QED
    BY <1>1 DEF DownloadStep, ReadDocument, DeleteDocument, ReadyToDelete, ForgetRequest, RequestDownload

LEMMA HandStep ==
    ASSUME Typed, LogInv, StreamInv, HandInv, ~EarlyDownloads, Next
    PROVE  HandInv'
<1>1. ASSUME NEW d \in Downloads, UNCHANGED <<download[d], target[d]>>
      PROVE  HandOK(d)'
    BY <1>1, SucceededStays DEF HandInv, HandOK
<1>2. CASE UNCHANGED downloadVars
    BY <1>1, <1>2 DEF downloadVars, HandInv
<1>3. ASSUME NEW d \in Downloads,
             DownloadStep(d) \/ \E r \in Requests : RequestDownload(d, r)
      PROVE  HandInv'
    <2>1. /\ \A e \in Downloads \ {d} : UNCHANGED <<download[e], target[e], data[e]>>
          /\ download[d] # "idle" => UNCHANGED target[d]
        BY <1>3, DownloadMoves
    <2>2. HandOK(d)'
        <3>1. CASE download[d] # "idle"
            BY <2>1, <3>1, SucceededStays DEF HandInv, HandOK
        <3>2. CASE download[d] = "idle"
            <4>1. PICK r \in Requests : RequestDownload(d, r)
                BY <1>3, <3>2 DEF DownloadStep, ReadDocument, DeleteDocument, ReadyToDelete, ForgetRequest
            <4>2. target'[d] = r /\ MayDownload(r)
                BY <4>1 DEF RequestDownload, Typed, TypeOK
            <4>3. Succeeded(r)
                BY <4>2, DownloadFollowsSuccess
            <4>4. QED BY <4>2, <4>3, SucceededStays DEF HandOK
        <3>3. QED BY <3>1, <3>2
    <2>3. QED BY <1>1, <2>1, <2>2 DEF HandInv
<1>4. QED BY <1>2, <1>3, DownloadsUntouched DEF Next

-----------------------------------------------------------------------------
(* The document is read before it is deleted.                              *)

LEMMA ReadStep ==
    ASSUME Typed, DocumentInv, HandInv, ReadInv, ~Faults, Next
    PROVE  ReadInv'
<1>1. /\ download \in [Downloads -> DownloadState]
      /\ target \in [Downloads -> Requests \cup {NoRequest}]
      /\ data \in [Downloads -> File]
    BY DEF Typed, TypeOK
<1>2. CASE UNCHANGED downloadVars
    BY <1>2 DEF downloadVars, ReadInv, ReadOK, HasFull
<1>3. ASSUME NEW d \in Downloads,
             DownloadStep(d) \/ \E r \in Requests : RequestDownload(d, r)
      PROVE  ReadInv'
    <2>1. /\ \A e \in Downloads \ {d} : UNCHANGED <<download[e], target[e], data[e]>>
          /\ download[d] # "idle" => UNCHANGED target[d]
        BY <1>3, DownloadMoves
    <2>2. data[d] # "absent" => UNCHANGED <<data[d], target[d]>>
        <3>1. data[d] # "absent" => download[d] \in {"read", "deleted", "responded"}
            BY <1>1 DEF ReadInv, ReadOK, DownloadState
        <3>2. QED
            BY <1>3, <3>1 DEF DownloadStep, ReadDocument, DeleteDocument, ReadyToDelete, ForgetRequest,
                              RequestDownload
    <2>3. ASSUME NEW q, HasFull(q) PROVE HasFull(q)'
        BY <2>1, <2>2, <2>3 DEF HasFull
    <2>4. ReadOK(d)'
        <3>1. ASSUME NEW r \in Requests, RequestDownload(d, r) PROVE ReadOK(d)'
            BY <1>1, <3>1 DEF RequestDownload, ReadInv, ReadOK
        <3>2. CASE ReadDocument(d)
            <4>1. /\ download[d] = "found" /\ download'[d] = "read"
                  /\ data'[d] = output[target[d]] /\ UNCHANGED target
                BY <1>1, <3>2 DEF ReadDocument
            <4>2. target[d] \in Requests /\ Succeeded(target[d])
                BY <4>1 DEF HandInv, HandOK
            <4>3. output[target[d]] = "full" \/ Taken(target[d])
                BY <4>2 DEF DocumentInv, DocumentOK
            <4>4. Taken(target[d]) => HasFull(target[d])
                BY DEF Taken, ReadInv, ReadOK
            <4>5. HasFull(target[d])'
                BY <2>3, <4>1, <4>3, <4>4 DEF HasFull
            <4>6. QED BY <4>1, <4>5 DEF ReadOK
        <3>3. CASE DeleteDocument(d) \/ ForgetRequest(d)
            <4>1. /\ download[d] \in {"read", "deleted"} /\ download'[d] \in {"deleted", "responded"}
                  /\ UNCHANGED target
                BY <1>1, <3>3 DEF DeleteDocument, ReadyToDelete, ForgetRequest
            <4>2. HasFull(target[d])
                BY <4>1 DEF ReadInv, ReadOK
            <4>3. QED BY <2>3, <4>1, <4>2 DEF ReadOK
        <3>4. QED BY <1>3, <3>1, <3>2, <3>3 DEF DownloadStep
    <2>5. ASSUME NEW e \in Downloads \ {d} PROVE ReadOK(e)'
        BY <2>1, <2>3 DEF ReadInv, ReadOK
    <2>6. QED BY <2>4, <2>5 DEF ReadInv
<1>4. QED BY <1>2, <1>3, DownloadsUntouched DEF Next

LEMMA ReadsKeepDocuments ==
    ASSUME DocumentInv, ReadInv
    PROVE  NoDocumentLost
<1>1. ASSUME NEW r \in Requests, Succeeded(r), output[r] # "full" PROVE HasFull(r)
    <2>1. Taken(r)
        BY <1>1 DEF DocumentInv, DocumentOK
    <2>2. QED BY <2>1 DEF Taken, ReadInv, ReadOK
<1>2. QED BY <1>1 DEF NoDocumentLost, HasFull

-----------------------------------------------------------------------------
(* The uploaded file.                                                      *)

LEMMA RestingInput ==
    ASSUME InputInv, NEW q \in Requests, UNCHANGED <<upload[q], input[q], task[q], child[q]>>
    PROVE  InputOK(q)'
BY DEF InputInv, InputOK

LEMMA InputStep ==
    ASSUME Typed, LogInv, DocumentInv, InputInv, ~Faults, Next
    PROVE  InputInv'
<1>1. /\ upload \in [Requests -> UploadState]
      /\ input \in [Requests -> File]
      /\ task \in [Requests -> TaskState]
      /\ child \in [Requests -> ChildState]
    BY DEF Typed, TypeOK
<1>2. ASSUME NEW r \in Requests, UploadStep(r), NEW q \in Requests PROVE InputOK(q)'
    <2>1. CASE q # r
        <3>1. UNCHANGED <<upload[q], input[q], task[q], child[q]>>
            BY <1>1, <1>2, <2>1
               DEF UploadStep, RejectUpload, CreateInput, FailUpload, AcceptUpload, taskVars, childVars
        <3>2. QED BY <3>1, RestingInput
    <2>2. CASE q = r
        <3>1. task[r] = "none"
            BY <1>2 DEF UploadStep, RejectUpload, CreateInput, FailUpload, AcceptUpload, LogInv, LogOK
        <3>2. /\ task'[r] \in {"none", "ready"}
              /\ upload'[r] = "accepted" => input'[r] = "full"
            BY <1>1, <1>2, <3>1
               DEF UploadStep, RejectUpload, CreateInput, FailUpload, AcceptUpload, taskVars, childVars
        <3>3. QED BY <2>2, <3>2 DEF InputOK
    <2>3. QED BY <2>1, <2>2
<1>3. ASSUME NEW r \in Requests, TaskStep(r), NEW q \in Requests PROVE InputOK(q)'
    <2> USE DEF TaskStep, TaskProgress, RejectTask, SpawnChild, ReadLine, FailToRead, ReapChild, Announce,
                RemoveInput, childVars
    <2>1. CASE q # r
        <3>1. UNCHANGED <<upload[q], input[q], task[q], child[q]>>
            BY <1>1, <1>3, <2>1
        <3>2. QED BY <3>1, RestingInput
    <2>2. CASE q = r
        <3>1. InputOK(r) /\ DocumentOK(r)
            BY DEF InputInv, DocumentInv
        <3>2. upload' = upload
            BY <1>3
        <3>3. \/ /\ task[r] = "ready" /\ input'[r] = input[r]
                 /\ task'[r] \in {"reading", "done"}
              \/ /\ task[r] = "reading" /\ input'[r] = input[r] /\ child'[r] = child[r]
                 /\ task'[r] \in {"reading", "done"} \/ (task'[r] = "announcing" /\ child[r] \in Exited)
              \/ /\ task[r] = "announcing" /\ input'[r] = input[r] /\ child'[r] = child[r]
                 /\ task'[r] \in {"removing", "done"}
              \/ task[r] = "removing" /\ task'[r] = "done" /\ child'[r] = child[r]
            BY <1>1, <1>3 DEF ChildGone
        <3>4. task[r] = "ready" => child[r] = "none" /\ (upload[r] = "accepted" => input[r] # "absent")
            BY <3>1 DEF DocumentOK, InputOK, Exited
        <3>5. QED BY <2>2, <3>1, <3>2, <3>3, <3>4 DEF InputOK
    <2>3. QED BY <2>1, <2>2
<1>4. ASSUME NEW r \in Requests, ChildStep(r), NEW q \in Requests PROVE InputOK(q)'
    <2> USE DEF ChildStep, PrintLine, StartCopy, FinishCopy, ExitWithError, ExitNormally, taskVars
    <2>1. CASE q # r
        <3>1. UNCHANGED <<upload[q], input[q], task[q], child[q]>>
            BY <1>1, <1>4, <2>1
        <3>2. QED BY <3>1, RestingInput
    <2>2. CASE q = r
        <3>1. /\ UNCHANGED <<upload, input, task>>
              /\ child[r] \notin Exited
            BY <1>4 DEF Exited
        <3>2. InputOK(r)
            BY DEF InputInv
        <3>3. QED BY <2>2, <3>1, <3>2 DEF InputOK
    <2>3. QED BY <2>1, <2>2
<1>5. CASE \/ \E s \in Streams : \/ \E r \in Requests : RequestStream(s, r)
                                 \/ StreamStep(s)
                                 \/ Disconnect(s)
           \/ \E d \in Downloads : \/ \E r \in Requests : RequestDownload(d, r)
                                   \/ DownloadStep(d)
    <2>1. UNCHANGED <<upload, input, task, child>>
        BY <1>5 DEF RequestStream, StreamStep, Subscribe, Poll, Disconnect, RequestDownload, DownloadStep,
                    ReadDocument, DeleteDocument, ForgetRequest, taskVars, childVars
    <2>2. QED BY <2>1 DEF InputInv, InputOK
<1>6. QED BY <1>2, <1>3, <1>4, <1>5 DEF Next, InputInv

-----------------------------------------------------------------------------
(* The refinement.                                                         *)

LEMMA FollowStep ==
    ASSUME Typed, FollowInv, Next
    PROVE  FollowInv'
<1>1. CASE UNCHANGED streamVars
    BY <1>1 DEF FollowInv, streamVars
<1>2. ASSUME NEW s \in Streams, StreamStep(s) \/ Disconnect(s) \/ \E r \in Requests : RequestStream(s, r)
      PROVE  FollowInv'
    <2>1. ASSUME NEW t \in Streams, t # s PROVE UNCHANGED <<stream[t], source[t], idx[t], sent[t]>>
        BY <1>2, <2>1, OtherStreams
    <2>2. stream'[s] # "idle"
        BY <1>2 DEF StreamStep, Subscribe, Poll, Disconnect, RequestStream, Typed, TypeOK
    <2>3. QED BY <2>1, <2>2 DEF FollowInv
<1>3. QED BY <1>1, <1>2, StreamsUntouched DEF Next

\* A download has answered with the document of its request, or with none.
LEMMA HandedOf ==
    ASSUME NEW d \in Downloads
    PROVE  /\ Handed[d] = IF download[d] = "responded" /\ data[d] # "absent" THEN target[d] ELSE NoRequest
           /\ Handed'[d] = IF download'[d] = "responded" /\ data'[d] # "absent" THEN target'[d] ELSE NoRequest
BY DEF Handed

\* What a client cannot see.
LEMMA Invisible ==
    ASSUME UNCHANGED <<log, source, sent>>, \A d \in Downloads : Handed'[d] = Handed[d]
    PROVE  UNCHANGED (Feed!vars)
<1>1. Handed' = Handed
    BY DEF Handed
<1>2. QED BY <1>1 DEF Feed!vars

LEMMA HandedUntouched ==
    ASSUME UNCHANGED downloadVars
    PROVE  Handed' = Handed
BY DEF Handed, downloadVars

\* Each notification that the task publishes is one of the feed.
LEMMA TaskFeeds ==
    ASSUME Typed, LogInv, NEW r \in Requests, TaskStep(r)
    PROVE  [Feed!Next]_(Feed!vars)
<1>1. UNCHANGED downloadVars /\ UNCHANGED streamVars
    BY DownloadsUntouched, StreamsUntouched
<1>2. Handed' = Handed /\ UNCHANGED <<source, sent>>
    BY <1>1, HandedUntouched DEF streamVars
<1>3. \/ log' = log
      \/ \E e \in Updates \cup Terminals : log' = Published(r, e) /\ task[r] \in {"reading", "announcing"}
    BY DEF TaskStep, TaskProgress, RejectTask, SpawnChild, ReadLine, FailToRead, ReapChild, Announce, Outcome,
           RemoveInput, Updates, Terminals
<1>4. CASE log' = log
    BY <1>2, <1>4 DEF Feed!vars
<1>5. ASSUME NEW e \in Updates \cup Terminals, log' = Published(r, e), task[r] \in {"reading", "announcing"}
      PROVE  Feed!Next
    <2>1. counter[r] = Len(log[r]) + 1 /\ \A i \in 1 .. Len(log[r]) : ~IsTerminal(log[r][i])
        BY <1>5 DEF LogInv, LogOK
    <2>2. log[r] \in Seq(Notification)
        BY DEF Typed, TypeOK
    <2>3. ~Feed!Ended(log[r])
        <3>1. CASE log[r] # <<>>
            <4>1. Len(log[r]) \in 1 .. Len(log[r])
                BY <2>2, <3>1
            <4>2. log[r][Len(log[r])] \in Notification /\ ~IsTerminal(log[r][Len(log[r])])
                BY <2>1, <2>2, <4>1
            <4>3. log[r][Len(log[r])].event = "processing_update"
                BY <4>2 DEF Notification, IsTerminal, Updates, Terminals
            <4>4. QED BY <4>3 DEF Feed!Ended, Feed!Last
        <3>2. CASE log[r] = <<>>
            BY <3>2 DEF Feed!Ended
        <3>3. QED BY <3>1, <3>2
    <2>4. e \in Feed!Events
        BY DEF Feed!Events, Updates, Terminals
    <2>5. log' = [log EXCEPT ![r] = Append(@, [event |-> e, id |-> Len(log[r]) + 1])]
        BY <1>5, <2>1 DEF Published
    <2>6. Feed!Publish(r)
        BY <1>2, <2>3, <2>4, <2>5 DEF Feed!Publish
    <2>7. QED BY <2>6 DEF Feed!Next
<1>6. QED BY <1>3, <1>4, <1>5

LEMMA StreamFeeds ==
    ASSUME Typed, StreamInv, FollowInv, NEW s \in Streams,
           StreamStep(s) \/ Disconnect(s) \/ \E r \in Requests : RequestStream(s, r)
    PROVE  [Feed!Next]_(Feed!vars)
<1>1. UNCHANGED downloadVars /\ UNCHANGED log
    BY DownloadsUntouched DEF StreamStep, Subscribe, Poll, Disconnect, RequestStream
<1>2. Handed' = Handed
    BY <1>1, HandedUntouched
<1>3. ASSUME NEW r \in Requests, RequestStream(s, r) PROVE Feed!Next
    <2>1. Feed!Follow(s, r)
        BY <1>1, <1>2, <1>3 DEF Feed!Follow, RequestStream, FollowInv
    <2>2. QED BY <2>1 DEF Feed!Next
<1>4. CASE Subscribe(s) \/ Disconnect(s)
    BY <1>1, <1>2, <1>4 DEF Subscribe, Disconnect, Feed!vars
<1>5. CASE Poll(s)
    <2>1. source[s] # NoRequest
        BY <1>5, ConstantsAssumption DEF Poll, Typed, TypeOK
    <2>2. idx[s] = Len(sent[s])
        BY DEF StreamInv, Replays
    <2>3. Feed!Repeat(s)
        BY <1>1, <1>2, <1>5, <2>1, <2>2 DEF Feed!Repeat, Poll
    <2>4. QED BY <2>3 DEF Feed!Next
<1>6. QED BY <1>3, <1>4, <1>5 DEF StreamStep

LEMMA DownloadFeeds ==
    ASSUME Typed, LogInv, HandInv, NEW d \in Downloads,
           DownloadStep(d) \/ \E r \in Requests : RequestDownload(d, r)
    PROVE  [Feed!Next]_(Feed!vars)
<1>1. /\ download \in [Downloads -> DownloadState]
      /\ target \in [Downloads -> Requests \cup {NoRequest}]
      /\ data \in [Downloads -> File]
    BY DEF Typed, TypeOK
<1>2. UNCHANGED <<log, source, sent>>
    BY DEF DownloadStep, ReadDocument, DeleteDocument, ForgetRequest, RequestDownload, streamVars
<1>3. \A e \in Downloads \ {d} : Handed'[e] = Handed[e]
    BY DownloadMoves, HandedOf
<1>4. CASE ReadDocument(d) \/ DeleteDocument(d) \/ \E r \in Requests : RequestDownload(d, r)
    <2>1. download[d] # "responded" /\ download'[d] # "responded"
        BY <1>1, <1>4 DEF ReadDocument, DeleteDocument, ReadyToDelete, RequestDownload
    <2>2. Handed'[d] = Handed[d]
        BY <2>1, HandedOf
    <2>3. QED BY <1>2, <1>3, <2>2, Invisible
<1>5. CASE ForgetRequest(d)
    <2>1. /\ download[d] = "deleted" /\ download'[d] = "responded"
          /\ UNCHANGED <<data, target>>
        BY <1>1, <1>5 DEF ForgetRequest
    <2>2. CASE data[d] = "absent"
        <3>1. Handed'[d] = Handed[d]
            BY <2>1, <2>2, HandedOf
        <3>2. QED BY <1>2, <1>3, <3>1, Invisible
    <2>3. CASE data[d] # "absent"
        <3> DEFINE r == target[d]
        <3>1. r \in Requests /\ Succeeded(r)
            BY <2>1 DEF HandInv, HandOK
        <3>2. PICK i \in 1 .. Len(log[r]) : log[r][i].event = "processing_success"
            BY <3>1 DEF Succeeded, Announced
        <3>3. i = Len(log[r])
            BY <3>1, <3>2 DEF LogInv, LogOK, IsTerminal, Terminals
        <3>4. log[r] # <<>>
            <4>1. log[r] \in Seq(Notification)
                BY <3>1 DEF Typed, TypeOK
            <4>2. Len(log[r]) > 0
                BY <3>2, <4>1
            <4>3. QED BY <4>2
        <3>5. Handed[d] = NoRequest /\ Handed'[d] = r
            BY <2>1, <2>3, HandedOf
        <3>6. Handed' = [Handed EXCEPT ![d] = r]
            <4>1. Handed' = [e \in Downloads |-> Handed'[e]] /\ Handed = [e \in Downloads |-> Handed[e]]
                BY DEF Handed
            <4>2. QED BY <1>3, <3>5, <4>1
        <3>7. Feed!HandOver(d, r)
            BY <1>2, <3>2, <3>3, <3>4, <3>5, <3>6 DEF Feed!HandOver, Feed!Last
        <3>8. QED BY <3>1, <3>7 DEF Feed!Next
    <2>4. QED BY <2>2, <2>3
<1>6. QED BY <1>4, <1>5 DEF DownloadStep

LEMMA EachStepFeeds ==
    ASSUME Typed, LogInv, StreamInv, HandInv, FollowInv, Next
    PROVE  [Feed!Next]_(Feed!vars)
<1>1. ASSUME NEW r \in Requests, UploadStep(r) \/ ChildStep(r) PROVE UNCHANGED (Feed!vars)
    <2>1. UNCHANGED downloadVars /\ UNCHANGED streamVars
        BY <1>1, DownloadsUntouched, StreamsUntouched
    <2>2. log' = log
        <3>1. CASE ChildStep(r)
            BY <3>1, OthersKeepLog
        <3>2. CASE UploadStep(r)
            <4>1. log[r] = <<>>
                BY <3>2 DEF LogInv, LogOK, UploadStep, RejectUpload, CreateInput, FailUpload, AcceptUpload
            <4>2. log \in [Requests -> Seq(Notification)]
                BY DEF Typed, TypeOK
            <4>3. log' = log \/ log' = [log EXCEPT ![r] = <<>>]
                BY <3>2 DEF UploadStep, RejectUpload, CreateInput, FailUpload, AcceptUpload
            <4>4. QED BY <4>1, <4>2, <4>3
        <3>3. QED BY <1>1, <3>1, <3>2
    <2>3. QED BY <2>1, <2>2, HandedUntouched DEF streamVars, Feed!vars
<1>2. QED BY <1>1, TaskFeeds, StreamFeeds, DownloadFeeds DEF Next

-----------------------------------------------------------------------------
(* The theorems.                                                           *)

LEMMA FollowInvAlways == Spec => []FollowInv
<1>1. Init => FollowInv
    BY DEF Init, FollowInv
<1>2. Typed /\ FollowInv /\ [Next]_vars => FollowInv'
    <2>1. ASSUME FollowInv, UNCHANGED vars PROVE FollowInv'
        BY <2>1 DEF FollowInv, vars, streamVars
    <2>2. QED BY <2>1, FollowStep
<1>3. QED BY <1>1, <1>2, TypedAlways, PTL DEF Spec

LEMMA HandInvAlways ==
    ASSUME ~EarlyDownloads
    PROVE  Spec => []HandInv
<1>1. Init => HandInv
    BY DEF Init, HandInv, HandOK
<1>2. Typed /\ LogInv /\ StreamInv /\ HandInv /\ [Next]_vars => HandInv'
    <2>1. ASSUME HandInv, UNCHANGED vars PROVE HandInv'
        BY <2>1 DEF HandInv, HandOK, Succeeded, Announced, vars, downloadVars
    <2>2. QED BY <2>1, HandStep
<1>3. QED BY <1>1, <1>2, TypedAlways, LogInvAlways, StreamInvAlways, PTL DEF Spec

\* When clients wait for processing_success and no file operation fails, a document that
\* was announced is on disk or was read as a whole by a download, for any number of
\* downloads of the same request (exists, read, remove_file and remove in downloads).
THEOREM DocumentsAreKept ==
    ASSUME ~EarlyDownloads, ~Faults
    PROVE  Spec => []NoDocumentLost
<1>1. Init => ReadInv
    BY DEF Init, ReadInv, ReadOK
<1>2. Typed /\ DocumentInv /\ HandInv /\ ReadInv /\ [Next]_vars => ReadInv'
    <2>1. ASSUME ReadInv, UNCHANGED vars PROVE ReadInv'
        BY <2>1 DEF ReadInv, ReadOK, HasFull, vars, downloadVars
    <2>2. QED BY <2>1, ReadStep
<1>3. DocumentInv /\ ReadInv => NoDocumentLost
    BY ReadsKeepDocuments
<1>4. QED BY <1>1, <1>2, <1>3, TypedAlways, DocumentInvAlways, HandInvAlways, PTL DEF Spec

\* While every pipe can be read and every file be written, the uploaded file is not
\* removed before entrusted-cli has ended (run_entrusted).
THEOREM InputsOutliveChildren ==
    ASSUME ~Faults
    PROVE  Spec => []InputOutlivesChild
<1>1. Init => InputInv
    BY DEF Init, InputInv, InputOK
<1>2. Typed /\ LogInv /\ DocumentInv /\ InputInv /\ [Next]_vars => InputInv'
    <2>1. ASSUME InputInv, UNCHANGED vars PROVE InputInv'
        BY <2>1 DEF InputInv, InputOK, vars, taskVars, childVars
    <2>2. QED BY <2>1, InputStep
<1>3. InputInv => InputOutlivesChild
    BY DEF InputInv, InputOK, InputOutlivesChild
<1>4. QED BY <1>1, <1>2, <1>3, TypedAlways, LogInvAlways, DocumentInvAlways, PTL DEF Spec

\* For clients that wait for processing_success the server implements EventFeed, also
\* when file and pipe operations fail: feeds are numbered and end with one outcome,
\* streams repeat them, documents are handed over only for those that succeeded.
THEOREM ServesTheFeeds ==
    ASSUME ~EarlyDownloads
    PROVE  Spec => ImplementsFeed
<1>1. Init => Feed!Init
    BY DEF Init, Feed!Init, Handed
<1>2. Typed /\ LogInv /\ StreamInv /\ HandInv /\ FollowInv /\ [Next]_vars => [Feed!Next]_(Feed!vars)
    <2>1. ASSUME UNCHANGED vars PROVE UNCHANGED (Feed!vars)
        BY <2>1, HandedUntouched DEF vars, streamVars, Feed!vars
    <2>2. QED BY <2>1, EachStepFeeds
<1>3. QED BY <1>1, <1>2, TypedAlways, LogInvAlways, StreamInvAlways, HandInvAlways, FollowInvAlways, PTL
          DEF Spec, ImplementsFeed, Feed!Spec

==============================================================================
