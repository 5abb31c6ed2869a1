------------------------------ MODULE WebService ------------------------------
(***************************************************************************)
(* The web server of Entrusted (entrusted_webserver/src/server.rs): the    *)
(* upload, events and downloads handlers, the background task that runs    *)
(* entrusted-cli for an upload, and the state they share - the registry of *)
(* notifications, the uploaded (input) and sanitized (output) files of the *)
(* temporary directory, and the entrusted-cli child process.               *)
(*                                                                         *)
(* The handlers run on a multi-threaded runtime and share only the         *)
(* registry's mutex and the file system, so one action stands for the code *)
(* between two accesses to shared state.                                   *)
(***************************************************************************)
EXTENDS Naturals, Sequences

CONSTANTS
    Requests,       \* identifiers of upload requests (fresh UUIDs)
    Streams,        \* GET /events/{id} requests, each of which may open a stream
    Downloads,      \* GET /downloads/{id} requests
    NoRequest,      \* what a stream or a download refers to before it starts
    MaxLines,       \* bound: lines that a child prints (progress messages)
    Launchable,     \* uploads whose OCR language is known and whose child starts
    EarlyDownloads, \* TRUE: a download may come before processing_success
    Faults          \* TRUE: file system and pipe operations may fail

ASSUME ConstantsAssumption ==
    /\ NoRequest \notin Requests
    /\ MaxLines \in Nat
    /\ Launchable \subseteq Requests
    /\ EarlyDownloads \in BOOLEAN
    /\ Faults \in BOOLEAN

VARIABLES
    upload,      \* the upload handler of each request
    input,       \* the uploaded file
    output,      \* the sanitized PDF
    registered,  \* keys of NOTIFICATIONS_PER_REFID
    log,         \* the notifications of each key; kept as history once unregistered
    task,        \* where run_entrusted is
    counter,     \* the identifier of the next notification
    success,     \* run_entrusted's local of that name
    child,       \* the entrusted-cli process
    printed,     \* lines the child has printed
    unread,      \* lines of them still in the pipes
    stream,      \* the events handler and the Client it returns
    source,      \* Client::refid
    idx,         \* Client::idx
    sent,        \* the notifications that a stream has handed to its HTTP client
    download,    \* the downloads handler
    target,      \* its request
    data         \* what it read of the sanitized PDF

taskVars     == <<task, counter, success>>
childVars    == <<child, printed, unread>>
streamVars   == <<stream, source, idx, sent>>
downloadVars == <<download, target, data>>
vars == <<upload, input, output, registered, log, taskVars, childVars,
          streamVars, downloadVars>>

-----------------------------------------------------------------------------
Updates   == {"processing_update"}
Terminals == {"processing_success", "processing_failure"}
Notification == [event : Updates \cup Terminals, id : Nat]

File == {"absent", "partial", "full"}
UploadState == {"none", "created", "accepted", "failed"}
TaskState == {"none", "ready", "reading", "announcing", "removing", "done"}
Exited == {"exit_ok", "exit_err"}
ChildState == {"none", "running", "copying", "copied"} \cup Exited
StreamState == {"idle", "refused", "checked", "open", "done", "gone"}
DownloadState == {"idle", "not_found", "found", "read", "deleted", "responded"}

IsTerminal(n) == n.event \in Terminals
OnlySuccessIsTerminal(n) == n.event = "processing_success" \* mutant of EndsStream
EndsStream(n) == IsTerminal(n)

Announced(r, event) == \E i \in 1 .. Len(log[r]) : log[r][i].event = event
Succeeded(r) == Announced(r, "processing_success")
Answered(r) == Succeeded(r) \/ Announced(r, "processing_failure")

Init ==
    /\ upload = [r \in Requests |-> "none"]
    /\ input = [r \in Requests |-> "absent"]
    /\ output = [r \in Requests |-> "absent"]
    /\ registered = {}
    /\ log = [r \in Requests |-> <<>>]
    /\ task = [r \in Requests |-> "none"]
    /\ counter = [r \in Requests |-> 1]
    /\ success = [r \in Requests |-> FALSE]
    /\ child = [r \in Requests |-> "none"]
    /\ printed = [r \in Requests |-> 0]
    /\ unread = [r \in Requests |-> 0]
    /\ stream = [s \in Streams |-> "idle"]
    /\ source = [s \in Streams |-> NoRequest]
    /\ idx = [s \in Streams |-> 0]
    /\ sent = [s \in Streams |-> <<>>]
    /\ download = [d \in Downloads |-> "idle"]
    /\ target = [d \in Downloads |-> NoRequest]
    /\ data = [d \in Downloads |-> "absent"]

-----------------------------------------------------------------------------
(* POST /upload: save_file, then the registry entry and the task.          *)

\* A form without its fields, a bad visual quality, a name without extension,
\* or (Faults) a file that cannot be created: 500 and no file.
RejectUpload(r) ==
    /\ upload[r] = "none"
    /\ upload' = [upload EXCEPT ![r] = "failed"]
    /\ UNCHANGED <<input, output, registered, log, taskVars, childVars, streamVars, downloadVars>>

CreateInput(r) ==
    /\ upload[r] = "none"
    /\ upload' = [upload EXCEPT ![r] = "created"]
    /\ input' = [input EXCEPT ![r] = "partial"]
    /\ UNCHANGED <<output, registered, log, taskVars, childVars, streamVars, downloadVars>>

\* write_all fails: 500, and the file stays as it is.
FailUpload(r) ==
    /\ Faults
    /\ upload[r] = "created"
    /\ upload' = [upload EXCEPT ![r] = "failed"]
    /\ UNCHANGED <<input, output, registered, log, taskVars, childVars, streamVars, downloadVars>>

\* Nobody knows the identifier before the 202 response: the write, the insertion
\* of an empty vector, the spawn of the task and the response are one step.
AcceptUpload(r) ==
    /\ upload[r] = "created"
    /\ upload' = [upload EXCEPT ![r] = "accepted"]
    /\ input' = [input EXCEPT ![r] = "full"]
    /\ registered' = registered \cup {r}
    /\ log' = [log EXCEPT ![r] = <<>>]
    /\ task' = [task EXCEPT ![r] = "ready"]
    /\ UNCHANGED <<output, counter, success, childVars, streamVars, downloadVars>>

-----------------------------------------------------------------------------
(* The background task, run_entrusted.                                     *)

\* progress_made on a registered request.
Published(r, event) == [log EXCEPT ![r] = Append(@, [event |-> event, id |-> counter[r]])]

\* Unknown OCR language, no entrusted-cli in the PATH, or a failed spawn: the
\* error goes to the server's log and to nobody else.
RejectTask(r) ==
    /\ task[r] = "ready"
    /\ r \notin Launchable
    /\ task' = [task EXCEPT ![r] = "done"]
    /\ UNCHANGED <<upload, input, output, registered, log, counter, success, childVars,
                   streamVars, downloadVars>>

SpawnChild(r) ==
    /\ task[r] = "ready"
    /\ r \in Launchable
    /\ task' = [task EXCEPT ![r] = "reading"]
    /\ child' = [child EXCEPT ![r] = "running"]
    /\ UNCHANGED <<upload, input, output, registered, log, counter, success, printed, unread,
                   streamVars, downloadVars>>

EndOfFileIsALine(r) == TRUE \* mutant of LineReady
LineReady(r) == unread[r] > 0

CounterKept(r) == counter \* mutant of NextCounter
NextCounter(r) == [counter EXCEPT ![r] = @ + 1]

\* One of the two line branches of select!: publish an update, or give up when
\* the entry is gone (`?`). A stream at its end yields None and changes nothing.
ReadLine(r) ==
    /\ task[r] = "reading"
    /\ LineReady(r)
    /\ unread' = [unread EXCEPT ![r] = @ - 1]
    /\ \/ /\ r \in registered
          /\ log' = Published(r, "processing_update")
          /\ counter' = NextCounter(r)
          /\ UNCHANGED task
       \/ /\ r \notin registered
          /\ task' = [task EXCEPT ![r] = "done"]
          /\ UNCHANGED <<log, counter>>
    /\ UNCHANGED <<upload, input, output, registered, success, child, printed, streamVars,
                   downloadVars>>

\* A pipe that cannot be read (or a line that is not UTF-8) ends the loop: the
\* child is neither waited for nor killed.
FailToRead(r) ==
    /\ Faults
    /\ task[r] = "reading"
    /\ task' = [task EXCEPT ![r] = "announcing"]
    /\ UNCHANGED <<upload, input, output, registered, log, counter, success, childVars,
                   streamVars, downloadVars>>

Started(r) == child[r] # "none"          \* mutant of ChildGone
GoneWell(r) == child[r] = "exit_ok"      \* mutant of ChildGone
ChildGone(r) == child[r] \in Exited
AnyExit(r) == ChildGone(r)               \* mutant of ExitedWell
ExitedWell(r) == child[r] = "exit_ok"

\* The third branch of select!, child.wait(): whatever is unread stays unread.
ReapChild(r) ==
    /\ task[r] = "reading"
    /\ ChildGone(r)
    /\ success' = [success EXCEPT ![r] = ExitedWell(r)]
    /\ task' = [task EXCEPT ![r] = "announcing"]
    /\ UNCHANGED <<upload, input, output, registered, log, counter, childVars, streamVars,
                   downloadVars>>

Outcome(r) == IF success[r] THEN "processing_success" ELSE "processing_failure"

\* mutant of Announce: only a success goes on to remove the uploaded file.
AnnounceAndKeepFailedInput(r) ==
    /\ task[r] = "announcing"
    /\ r \in registered
    /\ log' = Published(r, Outcome(r))
    /\ task' = [task EXCEPT ![r] = IF success[r] THEN "removing" ELSE "done"]
    /\ UNCHANGED <<upload, input, output, registered, counter, success, childVars,
                   streamVars, downloadVars>>

\* The terminal notification; the `?` skips the removal when the entry is gone.
Announce(r) ==
    /\ task[r] = "announcing"
    /\ \/ /\ r \in registered
          /\ log' = Published(r, Outcome(r))
          /\ task' = [task EXCEPT ![r] = "removing"]
       \/ /\ r \notin registered
          /\ task' = [task EXCEPT ![r] = "done"]
          /\ UNCHANGED log
    /\ UNCHANGED <<upload, input, output, registered, counter, success, childVars,
                   streamVars, downloadVars>>

RemoveInput(r) ==
    /\ task[r] = "removing"
    /\ \/ input' = [input EXCEPT ![r] = "absent"]
       \/ Faults /\ UNCHANGED input  \* the error is only logged
    /\ task' = [task EXCEPT ![r] = "done"]
    /\ UNCHANGED <<upload, output, registered, log, counter, success, childVars,
                   streamVars, downloadVars>>

-----------------------------------------------------------------------------
(* The child: main_cli.rs and the end of container.rs, seen from the pipes *)
(* and the file system.                                                    *)

\* Nobody reads the pipes once run_entrusted has returned: println! panics.
PrintLine(r) ==
    /\ child[r] \in {"running", "copying", "copied"}
    /\ printed[r] < MaxLines
    /\ printed' = [printed EXCEPT ![r] = @ + 1]
    /\ \/ /\ task[r] # "done"
          /\ unread' = [unread EXCEPT ![r] = @ + 1]
          /\ UNCHANGED child
       \/ /\ task[r] = "done"
          /\ child' = [child EXCEPT ![r] = "exit_err"]
          /\ UNCHANGED unread
    /\ UNCHANGED <<upload, input, output, registered, log, taskVars, streamVars, downloadVars>>

\* fs::copy creates the output file, then fills it. A file that a download has
\* unlinked in between is filled all the same, without a name.
StartCopy(r) ==
    /\ child[r] = "running"
    /\ child' = [child EXCEPT ![r] = "copying"]
    /\ output' = [output EXCEPT ![r] = "partial"]
    /\ UNCHANGED <<upload, input, registered, log, taskVars, printed, unread, streamVars,
                   downloadVars>>

FinishCopy(r) ==
    /\ child[r] = "copying"
    /\ child' = [child EXCEPT ![r] = "copied"]
    /\ output' = [output EXCEPT ![r] = IF @ = "partial" THEN "full" ELSE @]
    /\ UNCHANGED <<upload, input, registered, log, taskVars, printed, unread, streamVars,
                   downloadVars>>

\* A conversion may fail on the document; after the copy, opening the output
\* fails if it has been unlinked, and the rest only on a file system fault.
ExitWithError(r) ==
    /\ \/ child[r] = "running"
       \/ child[r] = "copying" /\ Faults
       \/ child[r] = "copied" /\ (Faults \/ output[r] = "absent")
    /\ child' = [child EXCEPT ![r] = "exit_err"]
    /\ UNCHANGED <<upload, input, output, registered, log, taskVars, printed, unread,
                   streamVars, downloadVars>>

ExitNormally(r) ==
    /\ child[r] = "copied"
    /\ child' = [child EXCEPT ![r] = "exit_ok"]
    /\ UNCHANGED <<upload, input, output, registered, log, taskVars, printed, unread,
                   streamVars, downloadVars>>

-----------------------------------------------------------------------------
(* GET /events/{id}: check the registry, then subscribe, then poll_next.   *)

RequestStream(s, r) ==
    /\ stream[s] = "idle"
    /\ upload[r] = "accepted"
    /\ source' = [source EXCEPT ![s] = r]
    /\ stream' = [stream EXCEPT ![s] = IF r \in registered THEN "checked" ELSE "refused"]
    /\ UNCHANGED <<upload, input, output, registered, log, taskVars, childVars, idx, sent,
                   downloadVars>>

FromNowOn(s) == Len(log[source[s]]) \* mutant of FirstIndex
FirstIndex(s) == 0

Subscribe(s) ==
    /\ stream[s] = "checked"
    /\ stream' = [stream EXCEPT ![s] = "open"]
    /\ idx' = [idx EXCEPT ![s] = FirstIndex(s)]
    /\ UNCHANGED <<upload, input, output, registered, log, taskVars, childVars, source, sent,
                   downloadVars>>

\* Otherwise poll_next is Pending and wakes itself up: nothing changes.
Poll(s) ==
    LET i == idx[s] + 1
        n == log[source[s]][i]
    IN  /\ stream[s] = "open"
        /\ source[s] \in registered
        /\ idx[s] < Len(log[source[s]])
        /\ sent' = [sent EXCEPT ![s] = Append(@, n)]
        /\ idx' = [idx EXCEPT ![s] = i]
        /\ stream' = [stream EXCEPT ![s] = IF EndsStream(n) THEN "done" ELSE @]
        /\ UNCHANGED <<upload, input, output, registered, log, taskVars, childVars, source,
                       downloadVars>>

Disconnect(s) ==
    /\ stream[s] = "open"
    /\ stream' = [stream EXCEPT ![s] = "gone"]
    /\ UNCHANGED <<upload, input, output, registered, log, taskVars, childVars, source, idx,
                   sent, downloadVars>>

-----------------------------------------------------------------------------
(* GET /downloads/{id}: exists, read, remove_file, registry.remove.        *)

\* The API's contract: after processing_success was received from 'events'.
MayDownload(r) ==
    /\ upload[r] = "accepted"
    /\ \/ EarlyDownloads
       \/ \E s \in Streams : /\ source[s] = r
                             /\ \E i \in 1 .. Len(sent[s]) : sent[s][i].event = "processing_success"

RequestDownload(d, r) ==
    /\ download[d] = "idle"
    /\ MayDownload(r)
    /\ target' = [target EXCEPT ![d] = r]
    /\ download' = [download EXCEPT ![d] = IF output[r] = "absent" THEN "not_found" ELSE "found"]
    /\ UNCHANGED <<upload, input, output, registered, log, taskVars, childVars, streamVars, data>>

\* fs::read; "absent" in data means that it failed, which ends in a 500.
ReadDocument(d) ==
    /\ download[d] = "found"
    /\ download' = [download EXCEPT ![d] = "read"]
    /\ \/ data' = [data EXCEPT ![d] = output[target[d]]]
       \/ Faults /\ UNCHANGED data
    /\ UNCHANGED <<upload, input, output, registered, log, taskVars, childVars, streamVars, target>>

DeleteFirst(d) == download[d] \in {"found", "read"} \* mutant of ReadyToDelete
ReadyToDelete(d) == download[d] = "read"

DeleteDocument(d) ==
    /\ ReadyToDelete(d)
    /\ download' = [download EXCEPT ![d] = "deleted"]
    /\ \/ output' = [output EXCEPT ![target[d]] = "absent"]
       \/ Faults /\ UNCHANGED output  \* the error is ignored or logged
    /\ UNCHANGED <<upload, input, registered, log, taskVars, childVars, streamVars, target, data>>

ForgetRequest(d) ==
    /\ download[d] = "deleted"
    /\ download' = [download EXCEPT ![d] = "responded"]
    /\ registered' = registered \ {target[d]}
    /\ UNCHANGED <<upload, input, output, log, taskVars, childVars, streamVars, target, data>>

-----------------------------------------------------------------------------
UploadStep(r) == RejectUpload(r) \/ CreateInput(r) \/ FailUpload(r) \/ AcceptUpload(r)
TaskProgress(r) ==
    \/ RejectTask(r) \/ SpawnChild(r) \/ ReadLine(r)
    \/ ReapChild(r) \/ Announce(r) \/ RemoveInput(r)
TaskStep(r) == TaskProgress(r) \/ FailToRead(r)
ChildStep(r) ==
    \/ PrintLine(r) \/ StartCopy(r) \/ FinishCopy(r) \/ ExitWithError(r) \/ ExitNormally(r)
StreamStep(s) == Subscribe(s) \/ Poll(s)
DownloadStep(d) == ReadDocument(d) \/ DeleteDocument(d) \/ ForgetRequest(d)

Next ==
    \/ \E r \in Requests : UploadStep(r) \/ TaskStep(r) \/ ChildStep(r)
    \/ \E s \in Streams : \/ \E r \in Requests : RequestStream(s, r)
                          \/ StreamStep(s)
                          \/ Disconnect(s)
    \/ \E d \in Downloads : \/ \E r \in Requests : RequestDownload(d, r)
                            \/ DownloadStep(d)

Spec == Init /\ [][Next]_vars

\* The runtime polls every task and stream that it has been woken for, a handler
\* that was called runs to its end, and a conversion ends. Nobody has to upload,
\* subscribe, disconnect or download, and no pipe has to fail.
Fairness ==
    /\ \A r \in Requests : /\ WF_vars(AcceptUpload(r) \/ FailUpload(r))
                           /\ WF_vars(TaskProgress(r))
                           /\ WF_vars(ChildStep(r))
    /\ \A s \in Streams : WF_vars(StreamStep(s))
    /\ \A d \in Downloads : WF_vars(DownloadStep(d))

FairSpec == Spec /\ Fairness

-----------------------------------------------------------------------------
(* Type invariant of the server's state: every file, handler, task, child, *)
(* stream and download is in one of its states, counters are naturals.     *)
TypeOK ==
    /\ upload \in [Requests -> UploadState]
    /\ input \in [Requests -> File]
    /\ output \in [Requests -> File]
    /\ registered \subseteq Requests
    /\ log \in [Requests -> Seq(Notification)]
    /\ task \in [Requests -> TaskState]
    /\ counter \in [Requests -> Nat]
    /\ success \in [Requests -> BOOLEAN]
    /\ child \in [Requests -> ChildState]
    /\ printed \in [Requests -> Nat]
    /\ unread \in [Requests -> Nat]
    /\ stream \in [Streams -> StreamState]
    /\ source \in [Streams -> Requests \cup {NoRequest}]
    /\ idx \in [Streams -> Nat]
    /\ sent \in [Streams -> Seq(Notification)]
    /\ download \in [Downloads -> DownloadState]
    /\ target \in [Downloads -> Requests \cup {NoRequest}]
    /\ data \in [Downloads -> File]

\* The notifications of a request are numbered 1, 2, 3... without a gap or a
\* repetition (run_entrusted's counter), and nothing is published after the
\* notification that tells the outcome, so that there is at most one outcome.
LogWellFormed ==
    \A r \in Requests : \A i \in 1 .. Len(log[r]) :
        /\ log[r][i].id = i
        /\ IsTerminal(log[r][i]) => i = Len(log[r])

\* What a stream has handed over so far is the beginning of its request's log.
Replays(s) ==
    /\ idx[s] = Len(sent[s])
    /\ sent[s] # <<>> =>
          /\ Len(sent[s]) <= Len(log[source[s]])
          /\ \A i \in 1 .. Len(sent[s]) : sent[s][i] = log[source[s]][i]
    /\ stream[s] = "done" => sent[s] # <<>> /\ IsTerminal(sent[s][Len(sent[s])])
    /\ stream[s] = "open" => \A i \in 1 .. Len(sent[s]) : ~IsTerminal(sent[s][i])

\* Whenever a stream subscribes, and however its polls interleave with the task
\* that publishes, its client has got a prefix of the notifications from the
\* very first one, each once and in order; the stream ends with the outcome.
StreamsReplayLog == \A s \in Streams : Replays(s)

\* An open stream never waits for nothing: it has notifications left, or the task is
\* still to publish the outcome, whatever fails - unless the task could not begin, or a
\* download has removed the entry from the registry.
Publishing == {"ready", "reading", "announcing"}
StreamsGoOn ==
    \A s \in Streams : stream[s] = "open" /\ source[s] \in Launchable \cap registered =>
        idx[s] < Len(log[source[s]]) \/ task[source[s]] \in Publishing

\* processing_success is published only when the whole sanitized PDF is on disk,
\* and the only thing that takes it away is a download of that request (also
\* when downloads come early, entries vanish and file operations fail).
SuccessMeansDocument ==
    \A r \in Requests : Succeeded(r) =>
        \/ output[r] = "full"
        \/ \E d \in Downloads : target[d] = r /\ download[d] \in {"deleted", "responded"}

\* A sanitized PDF that was announced is never lost: as long as downloads wait for
\* processing_success, it is on disk or some download has read all of it, whatever
\* the interleaving of several downloads of the same request.
NoDocumentLost ==
    \A r \in Requests : Succeeded(r) =>
        \/ output[r] = "full"
        \/ \E d \in Downloads : target[d] = r /\ data[d] = "full"

\* The uploaded file stays until the child that converts it has ended: it is
\* removed after the outcome, never under a running entrusted-cli.
InputOutlivesChild ==
    \A r \in Requests : upload[r] = "accepted" /\ input[r] = "absent" => child[r] \in Exited

\* Every accepted upload whose child could be started is eventually answered by
\* a processing_success or a processing_failure.
LaunchedUploadsAnswered ==
    \A r \in Launchable : upload[r] = "accepted" ~> Answered(r)

\* The same for every accepted upload, also one with an unknown OCR language.
UploadsAnswered ==
    \A r \in Requests : upload[r] = "accepted" ~> Answered(r)

\* An open stream of such an upload ends by itself with the outcome, unless its
\* client leaves or a download has removed the entry from the registry.
StreamsEnd ==
    \A s \in Streams, r \in Launchable :
        stream[s] = "open" /\ source[s] = r
            ~> stream[s] \in {"done", "gone"} \/ r \notin registered

\* The uploaded file of such an upload is eventually removed from the server.
InputsRemoved ==
    \A r \in Launchable : upload[r] = "accepted" ~> input[r] = "absent"

\* A task that was spawned comes to its end whatever fails around it: a vanished
\* entry, an unreadable pipe, a child that nobody listens to.
TasksEnd ==
    \A r \in Requests : task[r] = "ready" ~> task[r] = "done"

-----------------------------------------------------------------------------
(* Refinement: while downloads wait for processing_success, the server     *)
(* implements the feeds of EventFeed. A response of 200 (with the data of  *)
(* the document) is a document handed over; 404 and 500 are not.           *)
Handed == [d \in Downloads |->
              IF download[d] = "responded" /\ data[d] # "absent" THEN target[d] ELSE NoRequest]

Feed == INSTANCE EventFeed WITH
            feed <- log, follows <- source, got <- sent, handed <- Handed

\* The server implements the abstract feeds: each of its steps is one of theirs
\* or changes none of what a client can see.
ImplementsFeed == Feed!Spec

-----------------------------------------------------------------------------
(* The inductive invariants behind the theorems of WebServiceProofs.       *)

\* Until the outcome is published, counter is one more than the length of the
\* log and no notification is terminal; before the upload, nothing has begun.
LogOK(r) ==
    /\ upload[r] # "accepted" => task[r] = "none" /\ log[r] = <<>> /\ counter[r] = 1
    /\ task[r] \in {"none", "ready", "reading", "announcing"} =>
          /\ counter[r] = Len(log[r]) + 1
          /\ \A i \in 1 .. Len(log[r]) : ~IsTerminal(log[r][i])
    /\ \A i \in 1 .. Len(log[r]) :
          /\ log[r][i].id = i
          /\ IsTerminal(log[r][i]) => i = Len(log[r])
LogInv == \A r \in Requests : LogOK(r)

\* A stream that has begun belongs to an accepted upload, whose log only grows.
StreamOK(s) ==
    /\ stream[s] # "idle" => source[s] \in Requests /\ upload[source[s]] = "accepted"
    /\ stream[s] \in {"idle", "refused", "checked"} => sent[s] = <<>> /\ idx[s] = 0
StreamInv == \A s \in Streams : StreamOK(s) /\ Replays(s)

\* The task of a registered upload that could begin owes an outcome until it is told.
OwedOK(r) ==
    upload[r] = "accepted" /\ r \in Launchable \cap registered =>
        task[r] \in Publishing \/ Answered(r)
OwedInv == \A r \in Requests : OwedOK(r)

Taken(r) == \E d \in Downloads : target[d] = r /\ download[d] \in {"deleted", "responded"}

\* success is entrusted-cli's exit status 0, which follows a complete copy.
DocumentOK(r) ==
    /\ task[r] \in {"none", "ready"} => child[r] = "none"
    /\ child[r] = "copying" => output[r] = "partial" \/ Taken(r)
    /\ child[r] \in {"copied", "exit_ok"} => output[r] = "full" \/ Taken(r)
    /\ success[r] => child[r] = "exit_ok"
    /\ Succeeded(r) => success[r]
DocumentInv == \A r \in Requests : DocumentOK(r)

=============================================================================
