# A TLA+ model of Entrusted

Entrusted turns documents that may be harmful into PDFs that are not: a document
is rendered to pixels inside a container and the pixels become a new PDF. This
directory holds the specification of the programs around that idea, the
configurations that model-check it with TLC, and the theorems that TLAPS checks.
Paths of the code are relative to `src/app/`.

    tlc -config WebService_contract.cfg MCWebService.tla    # one of the runs
    tlapm WebServiceProofs.tla                              # the proofs
    tlapm WebServiceStreamProofs.tla
    tlapm WebServiceFeedProofs.tla
    tlapm GuiProofs.tla
    tlapm ConversionProofs.tla
    tlapm SandboxProofs.tla
    tlapm WebClientsProofs.tla
    tlapm ListTheorems.tla

## 1. The system and its parts

| part | state | operations | talks to |
|---|---|---|---|
| web service, `entrusted_webserver/src/server.rs` | registry `NOTIFICATIONS_PER_REFID` (request -> vector of notifications), uploaded files and sanitized PDFs in the temporary directory, one task and one child process per upload, one `Client` per event stream | `upload`, `events` (`Client::poll_next`), `downloads`, `run_entrusted`, `progress_made` | browser page, web client (HTTP, server-sent events), `entrusted-cli` (pipes, files) |
| `Broadcaster` (same file) | channels of the streams | `new_client`, pings, removal of stale clients | event streams |
| desktop client, `entrusted_client/src/main_gui.rs` | list of rows and vector of ticked rows, controls, worker thread, two channels, three atomics | drop, tick, delete, convert, cancel; the worker's loop; the event loop | conversion |
| conversion, `entrusted_client/src/container.rs` | temporary directories, seccomp profile, container process, result file | `install`, `process`, `exec_crt_command`, `cleanup_dir` | container runtime, sandbox |
| command line client, `entrusted_client/src/main_cli.rs` | - | prints the events of one conversion, exit status | conversion; it is the child of the web service |
| sandbox, `entrusted_container/src/main.rs` | work directory, progress | type detection, conversion to PDF, pages to images, images to PDF, OCR, combination | conversion (standard output, exit status, mounted directory) |
| browser page, `entrusted_webserver/web-assets/index.html` | queue of files, cancel flag | `submitForm`, `submitOneFile`, `onComplete`, deletion, cancellation | web service |
| web client, `entrusted_webclient/src/main.rs` | - | upload, follow the events, download | web service |
| translations, `entrusted_l10n/src/lib.rs` | catalogs | negotiation, format placeholders | all |
| configuration, start-up, viewers, packaging | files | pure I/O | - |

What is hard here, and what makes each part correct:

* **Web service.** Handlers run on a multi-threaded runtime and interleave at
  every access to the registry or to the file system; a client may subscribe at
  any time, leave, or download twice; the child prints on two pipes and exits on
  its own. Correct means: each stream repeats the whole history of its request,
  in order, and ends with the one outcome; `processing_success` means that the
  document is there; a document that was announced is not lost; the uploaded file
  lives as long as the child needs it and no longer; everybody gets an answer.
* **Desktop client.** Three parties (user, worker, event loop) share rows by
  index, a shared "current row", a stop flag, two channels and fltk's wake-up.
  Correct means: what is ticked is what is deleted, each status and progress bar
  is about its own file, no acknowledgement or wake-up is lost, Cancel stops the
  batch it was pressed for, and the window comes back after every batch.
* **Conversion.** A sequence of fallible file and process operations with early
  returns. Correct means: success exactly when the result is complete, temporary
  files removed on every path, concurrent conversions kept apart.
* **Sandbox.** A pipeline whose stages divide a progress range and pages. Correct
  means: every page in the result, in order; progress grows and stays in range.
* **Page and web client.** A queue with cancellation, a stream that may break, a
  download that may fail. Correct means: one request at a time, one outcome per
  file, no document made of an error message.

## 2. Modules

| module | stands for |
|---|---|
| `WebService` | the server's handlers, background task and child process |
| `EventFeed` | what the web API promises to its clients, without tasks, files and processes |
| `MCWebService` | values of the constants for TLC |
| `WebServiceProofs` | theorems about `WebService`: types, log, outcome |
| `WebServiceStreamProofs` | theorems about the event streams of `WebService` |
| `WebServiceFeedProofs` | theorems about documents and inputs of `WebService`, and the refinement of `EventFeed` |
| `FileList` | rows and `selected_indices` of `FileListWidget` |
| `Gui` | user, worker thread and event loop of the desktop client, over `FileList` |
| `GuiProofs` | theorems about `Gui`: types, handshake, wake-ups, selection, deletion, progress, outcome |
| `Sanitization` | what a conversion promises to whoever asked for it |
| `Conversion` | `convert` with its runtimes, commands, pipes and files, for several conversions at once |
| `ConversionProofs` | theorems about `Conversion`, with the refinement of `Sanitization` |
| `MimeTypes` | the detection of a document's type, as functions |
| `Sandbox` | the stages of `entrusted-container`, over `MimeTypes` |
| `SandboxProofs` | theorems about the progress, the pages and the type detection of `Sandbox` |
| `WebPage` | the page of the web server, over `EventFeed` |
| `WebClient` | the command line web client, over `EventFeed` |
| `WebClients` | `WebPage` and `WebClient` beside a server that is `EventFeed` |
| `WebClientsProofs` | theorems about every invariant of `WebClients` |
| `Lists` | lists without some elements (`Vec::retain`, `Array.filter`), their elements, images of lists |
| `ListTheorems` | induction and recursion on the natural numbers, and lemmas on `Lists` |
| `Broadcaster` | clients, pings and the removal of stale clients |
| `MCGui`, `MCConversion`, `MCSandbox`, `MCWebClients` | values of the constants for TLC |

The modules meet at two abstract specifications. `EventFeed` is implemented by
`WebService` and used as the server by `WebPage` and `WebClient`; `Sanitization` is
implemented by `Conversion`, which is what the child of `WebService` and the worker
of `Gui` run.

### WebService

`Requests`, `Streams` and `Downloads` are the HTTP requests that may come. An
action is the code between two accesses to shared state.

* `upload[r]`: `CreateInput` creates the file of `save_file`; `AcceptUpload` is
  the rest of the handler, up to the 202 response (the identifier is a fresh UUID
  that nobody knows before it); `RejectUpload` and `FailUpload` are its errors.
* `registered`, `log`: keys and vectors of the registry. Removing a key drops its
  vector; the model keeps it as history, to say what streams should have seen.
* `task[r]`, `counter`, `success`: `run_entrusted`. `ReadLine`, `FailToRead` and
  `ReapChild` are the branches of `select!`; `Announce` and `RemoveInput` what
  follows. Every `?` of `progress_made` is an alternative that ends the task.
* `child[r]`, `printed`, `unread`: `entrusted-cli` as the server sees it. It
  prints, copies its result (`fs::copy` creates, then fills), exits. Once the task
  is over nobody reads its pipes, and its next line kills it.
* `stream[s]`, `source`, `idx`, `sent`: the events handler looks at the registry,
  then makes a `Client`; `Poll` is a `poll_next` that returns a notification. A
  `poll_next` that is pending changes nothing but its waker.
* `download[d]`, `target`, `data`: exists, read, remove, forget, as four steps.
  `MayDownload` is the clients' part: with `EarlyDownloads = FALSE` they wait for
  `processing_success`, as the API asks them to (`openapi.yml`).
* `Faults` lets each file and pipe operation whose error the code handles fail.
  `Launchable` are the uploads that pass the checks of `run_entrusted`.

The content of a line is not modelled (an update is an update), the two pipes are
one bag of unread lines, and a key is unique (a fresh UUID).

### EventFeed and the refinement

`EventFeed` has four variables: the feed of each request, what each stream
follows and has got, and what each download has handed over. `Feed` in
`WebService` maps the log, `source`, `sent` and the successful responses onto
them. `ImplementsFeed` says that every step of the server is a step of the feeds
or is invisible: feeds end with one outcome, streams never skip or repeat, and a
document is only handed over for a feed that ended with success.

### FileList and Gui

`FileList` has the rows (file, tick, active, status), `selected_indices` and
`panicked`, which an index out of bounds sets. Indices count from 0 as in the
code. `MaxSelected` bounds the vector, which Select all may make longer than the
list.

`Gui` adds the controls that decide what the user can do (`convertible`,
`droppable`, `selectable`, `overall`, `cancellable`), the shared atomics, the
worker (`pc`, `tasks`, `idx`, `counts`), the channels `events` and `acks`, and
`awake`, fltk's wake-up. `Sending` followed by `Flush` is `GuiEventSender::send`,
which wakes the loop up before it sends; `SentUnderLock` is the last event, sent
under fltk's lock. `WithRow` is the indexing of `update_status` and
`update_progress`, and panics like it. A file that is dropped is any of `Files`;
a drop of several files is several drops. Progress messages are bounded by
`MaxProgress`, batches by `MaxBatches`. `Deleted` is the loop of
`delete_selection`, one removal per step of a recursive function; it sorts the vector
once, which `Greatest` stands for.

### Sanitization and Conversion

A conversion `c` of `Conversions` is a call of `convert`, in a process of its own (the
command line client, also as the child of the web server) or in the worker of the
desktop client. Several of them share the temporary directory.

* `place[c]` is where `convert` is: `runtime` (`container_runtime_path`),
  `inspect`, `pull` (`install`), `prepare`, `create`, `write`, `folder`, `run`,
  `replace`, `copy`, `copying`, `copied`, `cleanup`, `sweep_ok`, `sweep_failed`
  (`process`) and the answers. Each name stands for the code up to the next access to
  a file, a pipe or the sender of progress messages.
* `child`, `owed`, `pipe`: the command of `exec_crt_command`, the lines that it still
  prints on each pipe, and those in the pipes. `ReadLine` is a reader thread;
  `Returns` says that both were joined and the command was waited for. How many lines a
  command prints is chosen when it starts.
* `profile`: the shared seccomp profile. `CheckProfile`, `CreateProfile` and
  `WriteProfile` are the three accesses, so that two conversions may race for it;
  `StartSandbox` is the moment when the runtime reads it.
* `folder`, `output`: the folder `safe/<uuid>` and the output path. `StartCopy` and
  `FinishCopy` are `fs::copy` (created, then filled).
* `told`: the last percentage sent; 50 stands for all that the sandbox prints below
  100. `handover` and `spoiled` are history.
* `Faults` lets every file operation, the start of a command and the sandbox fail;
  `DieCommand` also covers a container runtime that answers 0 although the sandbox
  left no result, which is the case the code's test for the result exists for.
  `Crashes` kills the converting process: its folder stays, its command lives on.

`Sanitization` has a phase per conversion and the output paths. `Promise` maps
`place` and `handover` onto the phase: a conversion works until the sandbox is done,
delivers afterwards, and answers; a killed conversion never answers. The arguments of
the commands and the copies that Lima needs of input and output are left out.

### MimeTypes and Sandbox

`MimeTypes` is `mimetypes.rs` on records of what the code looks at: the signature, the
class of a compound file, the names in an archive in their order and the types that
two of its entries mention. `Probe` is one step of the loop that counts names,
folded over the archive. Archives in which a name comes twice are left out.

`Sandbox` has one action per iteration or early return of the stages of `execute`:
`Detect` to `OpenPdf` are `input_as_pdf_to_pathbuf_uri` (with LibreOffice's password
callback), `SplitPage` is `split_pdf_pages_into_images`, `SavePage` and `OcrPage` the
two ways from images to PDFs, `CollectPage` to `CombineDone` is `pdf_combine_pdfs`
with the identifiers of the objects, `CopyResult` and `RemoveSource` the move, and
`LogResult` and `Exit` the end of `main`. `range` and `percent` are the code's
integers. LibreOffice, poppler, cairo, Tesseract and lopdf are external: with `Faults`
each may fail, and those whose result is not looked at may fail silently.

### WebPage, WebClient, WebClients

`WebPage` follows the script of `index.html`: `fileList` and the table, which is a
sequence of its own (`rows`), the controls, and `job`, the arguments of
`submitOneFile` together with how far its promise is. A handler of the page is one
action; `Complete` is `onComplete`, with the submission of the next file or the end of
the batch that follow in the same call. A file stands for its request, so that each
is chosen once. `BodyLost` is an upload's response whose body breaks off: the rejection
of `response.json()` has no handler, and the batch stays where it is. A Submit without
a file (a drop that held none has enabled it) throws, and leaves the page disabled.

`WebClient` is `convert_file` and `process_notifications`; the checks of its arguments
are one step with the upload. It takes the first error of the event stream as its end.

`WebClients` runs both beside a server that does what `EventFeed` says, which
`WebService` was shown to implement: it serves the requests that it has accepted, with
at most `MaxNotifications` notifications each, in any interleaving with the
clients.

### Broadcaster

The channel of each client, a ping for all of them and the removal of those whose
channel refuses it. It is a module of its own because notifications do not go through
these channels: `Client::poll_next` reads the registry.

## 3. What is checked

| run | instance | result |
|---|---|---|
| `webservice_contract` | 2 uploads of which 1 can be launched, 2 streams, 2 downloads, 2 lines, clients that follow the API, no faults | pass |
| `webservice_faults` | 1 upload, 1 stream, 2 downloads, 2 lines, early downloads, faults | pass |
| `webservice_silent` | 2 uploads of which 1 can be launched | `UploadsAnswered` is violated |
| `gui_batches` | 2 files, one of them on the command line, 3 batches, 1 progress message per conversion | pass |
| `gui_cancel` | 2 files, 2 batches | `CancelledOnlyIfAsked` is violated |
| `gui_delete` | 3 files, 1 batch | `DeletesOnlySelected` is violated |
| `conversion_parallel` | 2 conversions, one over an old output, every runtime, pipes of 1 line, up to 2 lines on each pipe, faults and crashes | pass |
| `conversion_leftovers` | 1 conversion in a container, faults | `TemporaryFolderRemoved` is violated |
| `sandbox_pages` | up to 3 pages, archives of up to 3 names in every order, every password and language, faults | pass |
| `web_clients` | 3 files chosen two at once or one, 1 web client, faults | pass |
| `webclient_error` | the same without faults of the page | `ClientSavesDocument` is violated |
| `broadcaster_pings` | 2 streams, channels of 100 as in the code | `LiveClientsKept` is violated |

* `LogWellFormed`, `StreamsReplayLog`: history and streams. Two streams cover an
  early and a late subscriber of one request, and two requests at the same time;
  two lines and an outcome make a log long enough for a gap or a repetition.
* `NoDocumentLost`: with two downloads of one request, one of them has all of the
  document. `SuccessMeansDocument` is its weaker form that survives faults and
  early downloads (which may take a document before it is complete: that is the
  client's breach of the API, so `NoDocumentLost` is checked without it).
* `InputOutlivesChild`, `InputsRemoved`: the uploaded file is neither removed
  too early nor kept, for uploads that could be launched. A client that downloads
  before the outcome makes the task end early and keeps the input for ever.
* `LaunchedUploadsAnswered`, `StreamsEnd`, `TasksEnd`: liveness. `StreamsGoOn` is the part of
  `StreamsEnd` that needs no fairness: an open stream has notifications left or a task that is
  still to publish. It also holds with faults and early downloads.
* `UploadsAnswered` fails: `run_entrusted` returns before it has published anything
  when the OCR language is unknown or `entrusted-cli` is missing; the client has
  its 202 and an event stream that never says anything.
* `SelectionShown`: ticks and `selected_indices` agree (as sets). `DeletesTicked`:
  deleting removes exactly the ticked rows, as long as no index was selected twice.
* `ProgressOnOwnRow`, `OneAckPerResult`, `StatusTellsOutcome`: worker and window
  agree on the row, on the acknowledgements and on the outcome of each file. The
  first and the last are stated for batches during which no row was deleted: the
  delete button stays active during a batch, and a deletion makes the worker's
  indices wrong (or aborts the program). The run contains those behaviours.
* `BatchGoesOn`: no party of a batch waits for what nobody will send. It is the part of
  `BatchEnds` that needs no fairness.
* `BatchEnds`: the window comes back after each batch, without help from the user.
  It needs the lock around the last event: sent like the others, it may get lost
  between a wake-up and the channel. All other events are followed by a wake-up,
  because the worker spins while it waits.
* `CancelledOnlyIfAsked` fails: Cancel during the last conversion is kept for the
  next batch, which ends at once with all its rows cancelled.
* `DeletesOnlySelected` fails: Select all after a click on a row puts that row's
  index in the vector twice. `DeletesTicked` says that nothing else can make
  `delete_selection` go wrong: it is the same promise for a vector without repetition.
* `ImplementsSanitization`: the old output is untouched until the sandbox is done, `ok`
  means the complete document of this very conversion, and the answer is final.
  `FoldersSwept`: temporary folders are gone after every answer, unless a file
  operation of the delivery or of the sweep failed. `BarFilled`: the last percentage of
  an answered conversion is 100, on every path through five functions.
  `IncompleteProfileHasWriter`: the race for the profile heals itself, unless a
  conversion was killed or could not write. `ConversionsEnd`: a conversion ends,
  whatever its commands print; pipes of one line and a command that prints two on each
  are enough to stop a reader that empties one pipe before the other (which is a mutant
  of the run).
* `TemporaryFolderRemoved` fails: `?` after the copy, after the removal of the result
  and after the opening of the output leave `process` before it sweeps.
* `PercentInStage`, `PercentNeverFalls`: the arithmetic of `ProgressRange` over the
  loops. `SuccessMeansEveryPage`: status 0 means every page, in order, except pages
  that Tesseract did not process (its results are not looked at, which the model
  keeps as `blank`). `DetectionFitsArchive`: the loop over the names of an archive
  against a definition without order. `SandboxEnds`: also with a wrong password.
* `RowsTellTheList`, `OutcomesAreTrue`, `SummaryCountsFailures`: list, table and batch
  agree, "Succeeded" is the server's word, and failures are counted once, also when
  files of the running batch are deleted, when a batch is cancelled, and when a second
  one begins. `PageBatchEnds` leaves out the lost body.
* `ClientSavesAnswer`, `ClientsEnd`: status 0 of the web client follows a
  `processing_success` of its own request, and the client always ends.
* `ClientSavesDocument` fails: the status of the download's response is not looked at,
  and the description of an error becomes the sanitized PDF.
* `LiveClientsKept` fails: nobody receives from the channel of a client, so that the
  hundredth ping removes the sender of a stream that is still open. Its
  notifications still arrive.

Bounds: each action is local to one request, stream or download, and the
properties relate at most two of them, so that two of each are the smallest
instance with every interference; a third batch of the desktop client adds no
state that two do not have (the first comes from the command line).

Two conversions are what the shared profile and the shared directory need: a third
does nothing that a second has not done, and the theorems hold for any number. Three
pages are the fewest that can be permuted with one left in place, and make the divisions
of the progress round. Three names make every archive that has one family, both
in part, or one and half of the other. Three files give a batch of two (submission of the
next, cancellation of the rest, deletion of the one that waits) followed or joined
by another; two notifications for the web client are an update and an outcome, for a
file the outcome alone, since the page treats an update as no event at all.

Fairness. The runtime polls every task and stream that was woken (weak fairness of
`TaskProgress`, which leaves out the failing pipe, `StreamStep`, `DownloadStep` and of the rest of an upload): a stream
wakes itself on every pending poll, and a task is woken by its pipes and its child.
A conversion ends (`ChildStep`): its lines are bounded. Nobody has to
upload, subscribe, leave or download. In the desktop client the worker and its
spinning are fair, the loop only while it has been woken up; no user action and no
event of the window system is assumed. `Conversion` assumes that the threads of the
converting process and its commands are scheduled (`ConvertStep`, `ReaderStep`,
`CommandStep`), `Sandbox` that its one thread runs and its external operations return
(`Stage`), `WebClients` that the server goes on with what it has accepted and that
answers arrive at the page and the client (`Serve`, `AnswerStep`, `ClientStep`). Faults,
crashes, users and lost connections are never assumed to happen.

Deadlock is not checked where the system may stop: all requests served, all
conversions answered or the sandbox exited, or a user who does nothing more. `Broadcaster`
pings for ever, and its configuration leaves the check on.

## 4. What is proved

`WebServiceProofs`, for all values of the constants that satisfy
`ConstantsAssumption` (so also with faults and early downloads):

* `TypeCorrectness`: `[]TypeOK`, one lemma per group of actions.
* `NotificationsInOrder`: `[]LogWellFormed`. It is not inductive: a step of the
  task must know that, until the outcome is published, the counter is one more than
  the length of the log and nothing in it is terminal. That is `LogInv`, which also
  says that nothing has begun before the upload is accepted (`AcceptUpload` resets
  the log).
* `SuccessIsBacked`: `[]SuccessMeansDocument`, from `DocumentInv`, which follows the
  document from the copy through the exit status and `success` to the outcome.

`WebServiceStreamProofs` adds, from the same assumptions:

* `StreamsAreFaithful`: `[]StreamsReplayLog`. Beyond the property itself, `StreamInv`
  says that a stream that has begun belongs to an accepted upload and that one which
  has not subscribed yet has handed over nothing. The accepted upload matters because
  of the lemma `LogGrows`: from then on a step only extends the log at its end
  (`AcceptUpload` no longer resets it, `progress_made` only appends), so what a stream
  has handed over stays a prefix while others move.

* `StreamsNeverStall`: `[]StreamsGoOn`. `OwedInv` says that the task of a registered upload that
  could begin publishes an outcome before it ends: the only ways out without one are a
  task that cannot begin and a registry entry that is gone. With `StreamInv`, a
  stream that has handed over the whole log has handed over the outcome, and is
  not open any more.

`WebServiceFeedProofs` rests on the invariants of the two modules before it. Two of its
theorems assume `~EarlyDownloads` (a client asks for the document only after it has seen
the success) and two assume `~Faults` (files can be read and removed); the run with
faults says why each is needed.

* `ServesTheFeeds` (`~EarlyDownloads`): `Spec => ImplementsFeed`, for all fault
  behaviours. `TaskFeeds`, `StreamFeeds` and `DownloadFeeds` map the steps of each group of
  actions; every other step is invisible (`Invisible`). A download hands over in the feed
  when it responds with data, and the feed allows that only after the success. That is
  `HandInv`: a client that waits has seen the success in its stream, streams replay
  the log (`StreamInv`), and a success in the log stays (`SucceededStays`).
* `DocumentsAreKept` (`~EarlyDownloads`, `~Faults`): `[]NoDocumentLost`. `ReadInv` says
  that once a download has read, it or another download of the request has the whole
  document. With `DocumentInv` (what was complete is on disk or was taken) nothing is lost.
* `InputsOutliveChildren` (`~Faults`): `[]InputOutlivesChild`, by `InputInv`: when the task
  announces or removes, and when the input of an accepted upload is gone, the
  child has exited.

`GuiProofs`, for any files, batches and progress events. The invariants are proved one
after the other, each with those before it:

* `AcksMatchResults`: `[]OneAckPerResult`. The worker only asks whether there is any
  acknowledgement, so one too many would make it skip a result. `HandshakeInv` says what may
  be on its way at each place of the worker: reports while it converts; while it
  waits, one result at the end, or nothing and at most one acknowledgement; nothing between
  tasks. `FrozenInv` keeps the user from starting a batch while the last one, or
  its final event, is on its way: the convert button and the drop area stay
  inactive until that event has been shown.
* `StateIsTyped`: `[](TypeOK /\ WorkerInv)`. That `selected_indices` stays within the rows
  after a deletion is an induction over the removals (`PopInv`); that `counts` stays within
  the batch is `WorkerInv`, which ties the counts to the task the worker is at.
* `BatchesGoOn`: `[]BatchGoesOn`. `OwedInv` says that the last event comes with its wake-up, that
  a worker which waits in quiet has its acknowledgement, and that the
  drop area is active when nothing is on its way. The result a worker waits for is in
  `HandshakeInv`.
* `SelectionIsShown`: `[]SelectionShown`. `ActivityInv` says that the rows are inactive
  from the start of a batch to the emptying of the list, and active with status pending
  otherwise; without it `toggle_selection`, which skips inactive rows, and `select_all`,
  which selects every index, would disagree. `ShownInv` adds that no two rows have the
  same file: a click finds its index by the file (`row_index`).
* `DeletionIsExact`: `DeletesTicked`. After each removal the indices that are left are
  distinct and point to ticked rows, because only rows behind them were taken out, no ticked
  row is without its index (`PopInv`), and the rows that are not ticked are those of the
  beginning, in their order (`Exact`).
* `ProgressIsOnOwnRow`: `[]ProgressOnOwnRow`. `EventsInv` says that every event on its
  way is about the task the worker is at (it moves on only after the acknowledgement,
  and then nothing is on its way), and `RowsAreTasks` that, unless rows were deleted, rows
  and tasks are the same.
* `StatusIsOutcome`: `[]StatusTellsOutcome`. `BatchInv` follows a batch that no deletion
  disturbs: the counts against the outcomes of the tasks done (`CountsInv`), the rows that
  were told them (`ToldInv`: all before the current task, and the current one once its result
  was shown), and the summary with the rows that were cancelled (`SummaryInv`).

`SelectionIsShown`, `DeletionIsExact` and `StatusIsOutcome` assume `Distinct(StartFiles)`: no
file comes twice on the command line. The code does not check this (`main_gui.rs:2502`
adds without `contains_path`), and with a file twice the three statements are false,
since a click on the second row selects the first. A drop cannot bring it about, because it
does check. The other three theorems hold without it.

One thing that the properties do not say showed up on the way: after a batch in which no
file failed, the label is `ngettext("One file failed to process", "Multiple files failed to
process", 0)` in the colour of success (`main_gui.rs:2877-2894`). The model keeps text and
colour apart, and `StatusTellsOutcome` reads the success off the colour.

`ConversionProofs`, for any number of conversions, any runtime, any output of the
commands, with and without faults and crashes:

* `TypeCorrectness`, `FoldersAreSwept`, `BarsAreFilled`, `ProfileHasWriter`: the four
  invariants of the run. `Inv` is inductive where they are not: `PlaceInv` (a command
  exists only while `convert` waits for it or was killed), `FolderInv` (what is in the
  folder at each place), `OutputInv` (the output is written only after the handover, and
  holds this conversion's document from the copy to the answer) and `BarInv` (the
  sandbox keeps its last line until its result is stored, so that whoever finds a result
  has been told 100). Each speaks of one conversion; `KeptIsEnough` says that a step which
  keeps its own conversion good, touches no other and leaves an incomplete profile its
  writer preserves `Inv`, and one lemma per action shows that it is such a step.
* `KeepsThePromise`: `Spec => ImplementsSanitization`. `PromisedStep` reduces a step of
  `Sanitization` to what happens to the phase and the output of one conversion; five
  lemmas name the ways (on the way, hands over, writes, fails, succeeds), and the
  actions are sorted into them. That `ok` means this conversion's own document
  comes from `OutputInv` and `FolderInv`.

`SandboxProofs`, for inputs of any number of pages and archives of any number of names:

* `TypeCorrectness`, `PercentStaysInStage`, `ProgressNeverFalls`. `ProgressInv` ties the
  range to the stage and bounds the percentage by that of the pages already done;
  `QuotientBounds` and `QuotientGrows` are the facts about integer division that the
  loops rest on.
* `EveryPageInOrder`: `[]SuccessMeansEveryPage`. `ExtractedInv` says that no stage
  succeeds before every page has its PDF. `OrderInv` says that the
  identifiers given so far are below `maxId` and list, in their order, the pages of the
  documents renumbered so far; a new identifier is greater than all before it, so that
  its page comes last (`ListedNext`).
* `DetectionFits`: `[]DetectionFitsArchive`. `ProbeInv` is the invariant of the loop over
  the names: what was counted of each family is the number of its names among those
  seen, and the loop has stopped only if both of one family were seen. It is carried over
  the archive by induction. `FilesAssumption` says that the names are
  strings; that none comes twice is a premise of the property itself.

`WebClientsProofs`, for any files, any number of web clients and any notifications, with
lost bodies, broken streams and clients that give up: every invariant of the run.

* `WebTypes`: `[]TypeOK`, with the fact that the count handed from one `submitOneFile` to
  the next does not exceed the place in the batch (`CountInv`).
* `WebTable`: `[]RowsTellTheList`. `TableInv` is the shape of the table: rows that have ended,
  the row in progress, and the files of the list in their order. A deletion takes the same
  files out of both (`WithoutOfImage`), a cancellation ends all that wait.
* `WebOutcomes`: `[]OutcomesAreTrue`. `SentInv` says which files the server has never heard
  of (those not added, and those that wait), and that the file in progress has not been
  answered yet; so what is heard last is the answer to the row that gets it.
* `WebSummary`: `[]SummaryCountsFailures`. `CountInv` says that the count handed on is the
  number of failed rows. That a batch begins without failed rows, because `updateFileList`
  resets a table whose batch is over, is why the count may begin with 0.
* `WebClientSaves`: `[]ClientSavesAnswer`. `ClientInv` says, for each place of a client, what
  it follows and what it has been handed, and that it downloads only after its success.
* `FeedInv` (streams repeat a part of their feed, and only its last notification is an
  outcome) is what they use of the server. `WebService` implements `EventFeed`
  (`ServesTheFeeds`), so it is a fact about that server too.

The page's `SelectionsAssumption` says that one choice of files does not have a file twice, which
the browser's dialog guarantees, and that there are finitely many files, so that failures
can be counted.

`ListTheorems` makes induction over data possible: the induction rule of the library takes a
predicate, which cannot be instantiated here, so `Induction` and `BoundedInduction`
state it for a set (proved from the well-foundedness of `<`), and `RecursionExists` that a
function defined by recursion is there. What was a fold with a recursive operator in the
model is therefore a recursive function (`Without`, `Deleted`, `OfficeMime`).

The argument is the same each time: initial states satisfy the invariant, each group
of actions preserves it, the actions of the other groups leave its variables alone.

Only model-checked: liveness under fairness (`LaunchedUploadsAnswered`, `StreamsEnd`,
`InputsRemoved`, `TasksEnd`, `BatchEnds`, `ConversionsEnd`, `SandboxEnds`, `PageBatchEnds`, `ClientsEnd`),
which is out of the prover's reach, as is `ENABLED`. Every invariant, action property and
refinement of the passing runs has a theorem. The six properties that fail have
counterexamples instead.

## 5. Plan

1. *done* `WebService`, `EventFeed`; `FileList`, `Gui`.
2. *done* `Sanitization`, `Conversion`; `MimeTypes`, `Sandbox`; `WebPage`, `WebClient`
   and their composition; `Broadcaster`.
3. *done* Theorems about every invariant of the web service and its refinement of
   `EventFeed`; about every invariant of `Conversion` and its refinement of
   `Sanitization`; about the progress, the pages and the type detection of the sandbox; about
   every invariant of the desktop client; about every invariant of the page and the web client.
4. *done* The safety half of two liveness properties, as invariants that need no fairness:
   `StreamsGoOn` and `BatchGoesOn`.
5. *left* The same for the page and for the conversions (a command with lines left has a
   reader that can take them). What `EventFeed` and `Sanitization` promise to their
   users, as theorems about the abstract specifications themselves.

## 6. Not modelled

* Translations (`entrusted_l10n`): the lookup of a message, the fallback of a language and
  the replacement of placeholders are functions on strings without state over time, and
  no property of the other parts depends on wording.
* Configuration files and the arguments of the programs: read once, with defaults.
* Start-up and static text of the web server; viewers, "Open with" and the Finder of
  the desktop client: calls into the operating system whose answers nothing else uses.
  The one macOS handler that changes the list of files is listed as a hazard.
* The dialogs of the page (password, log, settings) and of the desktop client: they
  give a conversion its options before it starts.
* Lima's copies of input and output, time stamps of the output, and the wording of
  messages.
* Packaging, the live CD and the test data: no state of a running program.
* Layout and drawing.
