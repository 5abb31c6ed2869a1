--------------------------------- MODULE Gui ---------------------------------
(***************************************************************************)
(* The desktop client (entrusted_client/src/main_gui.rs): the user's       *)
(* callbacks, the worker thread that converts the files of one batch after *)
(* another, and fltk's event loop that shows what the worker reports. They *)
(* share two channels, three atomics and fltk's lock and wake-up.          *)
(***************************************************************************)
EXTENDS FileList, TLC

CONSTANTS
    StartFiles,           \* the files of the command line, converted at once
    MaxBatches,           \* bound: batches that the user starts
    MaxProgress           \* bound: progress events of one conversion

ASSUME GuiAssumption ==
    /\ StartFiles \in Seq(Files)
    /\ MaxBatches \in Nat
    /\ MaxProgress \in Nat

VARIABLES
    is_converting,    \* a batch was started since the list was last emptied
    convertible,      \* convert_button is active
    droppable,        \* convert_frame is active: files may be dropped
    selectable,       \* "Select all" and "Deselect all" are shown and active
    overall,          \* overall_progress_frame and the cancel button are shown
    cancellable,      \* cancel_tasks_button is active
    stop_requested,   \* converstion_stop_requested
    current_row_idx,
    summary,          \* messages_frame after a batch: its text and its colour
    pc,               \* where the worker thread is
    tasks,            \* its tasks, each identified by its file
    idx,              \* the task it is at
    counts,           \* its completed_count and fail_count
    outbox,           \* an event whose wake-up has been sent, but not the event
    events,           \* the channel from the worker to the event loop
    acks,             \* the channel from the event loop to the worker
    awake,            \* fltk has been woken up
    batches,          \* batches started so far
    reported,         \* progress events of the current conversion
    outcome,          \* history: how the conversion of a file ended
    asked,            \* history: Cancel was pressed during this batch
    disturbed         \* history: rows were deleted after this batch was started

uiVars     == <<is_converting, convertible, droppable, selectable, overall, cancellable>>
workerVars == <<pc, tasks, idx, counts, reported>>
chanVars   == <<outbox, events, acks, awake>>
histVars   == <<outcome, asked, disturbed, batches>>
vars == <<listVars, uiVars, stop_requested, current_row_idx, summary, workerVars, chanVars,
          histVars>>

NoSummary == [text |-> "none", color |-> "black"]

\* An event's file is history: the code's events carry the row's index, or nothing.
Event == [type : {"start", "progress", "success", "failure", "ended"}, row : Nat,
          file : Files \cup {"none"}]

Init ==
    /\ rows = [i \in DOMAIN StartFiles |-> NewRow(StartFiles[i])]
    /\ selected = <<>>
    /\ panicked = FALSE
    /\ is_converting = FALSE
    /\ convertible = FALSE
    /\ droppable = TRUE
    /\ selectable = FALSE
    /\ overall = FALSE
    /\ cancellable = TRUE
    /\ stop_requested = FALSE
    /\ current_row_idx = 0
    /\ summary = NoSummary
    /\ pc = "none"
    /\ tasks = <<>>
    /\ idx = 0
    /\ counts = [completed |-> 0, failed |-> 0]
    /\ outbox = <<>>
    /\ events = <<>>
    /\ acks = 0
    /\ awake = FALSE
    /\ batches = 0
    /\ reported = 0
    /\ outcome = [f \in Files |-> "none"]
    /\ asked = FALSE
    /\ disturbed = FALSE

\* The event loop and the callbacks run on the thread that a panic unwinds; the
\* worker runs on until the process is gone.
Alive == ~panicked
\* The files of the command line are converted before the user does anything.
Autoconvert == batches = 0 /\ StartFiles # <<>>
Idle == pc \in {"none", "finished"}

-----------------------------------------------------------------------------
(* The user's callbacks. Each runs as an event of fltk's loop.             *)

\* EVENT_ID_SELECTION_CHANGED, handled before the callback that caused it ends.
SelectionChanged ==
    /\ convertible' = (convertible /\ rows' # <<>>)
    /\ selectable' = (selectable /\ rows' # <<>>)
    /\ overall' = (overall /\ rows' # <<>>)
    /\ UNCHANGED <<is_converting, droppable, cancellable>>

Select ==
    /\ Alive /\ ~Autoconvert
    /\ \/ \E i \in DOMAIN rows : ClickRow(i)
       \/ selectable /\ SelectAll
       \/ selectable /\ DeselectAll
    /\ SelectionChanged
    /\ UNCHANGED <<stop_requested, current_row_idx, summary, workerVars, chanVars, histVars>>

\* The delete button is active exactly while something is selected; starting a
\* batch does not deactivate it.
Delete ==
    /\ Alive /\ ~Autoconvert
    /\ DeleteSelection
    /\ SelectionChanged
    /\ disturbed' = (pc # "none")
    /\ UNCHANGED <<stop_requested, current_row_idx, summary, workerVars, chanVars, outcome, asked,
                   batches>>

\* A file dropped on the frame, or chosen in its dialog. After a batch the list
\* (and the selection) is emptied first, which also hides the overall progress.
Drop(f) ==
    /\ Alive /\ ~Autoconvert
    /\ droppable
    /\ batches < MaxBatches
    /\ is_converting \/ ~ContainsPath(f)
    /\ rows' = IF is_converting THEN <<NewRow(f)>> ELSE Append(rows, NewRow(f))
    /\ selected' = IF is_converting THEN <<>> ELSE selected
    /\ summary' = IF is_converting THEN NoSummary ELSE summary
    /\ overall' = (overall /\ ~is_converting)
    /\ is_converting' = FALSE
    /\ convertible' = TRUE
    /\ selectable' = TRUE
    /\ UNCHANGED <<panicked, droppable, cancellable, stop_requested, current_row_idx, workerVars,
                   chanVars, histVars>>

\* The convert button's callback: freeze the controls and spawn the worker. The
\* frame of the overall progress (with Cancel) appears for two files or more.
StartBatch ==
    LET shown == Len(rows) > 1 /\ ~overall IN
    /\ Alive
    /\ convertible \/ Autoconvert
    /\ batches < MaxBatches
    /\ batches' = batches + 1
    /\ convertible' = FALSE
    /\ selectable' = FALSE
    /\ droppable' = FALSE
    /\ is_converting' = TRUE
    /\ rows' = [i \in DOMAIN rows |-> [rows[i] EXCEPT !.active = FALSE]]
    /\ overall' = (overall \/ shown)
    /\ cancellable' = (cancellable \/ shown)
    /\ tasks' = [i \in DOMAIN rows |-> rows[i].file]
    /\ pc' = "top"
    /\ idx' = 0
    /\ reported' = 0
    /\ counts' = [completed |-> 0, failed |-> 0]
    /\ outcome' = [f \in Files |-> "none"]
    /\ asked' = FALSE
    /\ disturbed' = FALSE
    /\ UNCHANGED <<selected, panicked, stop_requested, current_row_idx, summary, chanVars>>

Cancel ==
    /\ Alive
    /\ overall /\ cancellable
    /\ stop_requested' = TRUE
    /\ cancellable' = FALSE
    /\ asked' = TRUE
    /\ UNCHANGED <<listVars, is_converting, convertible, droppable, selectable, overall,
                   current_row_idx, summary, workerVars, chanVars, outcome, disturbed, batches>>

-----------------------------------------------------------------------------
(* The worker thread. GuiEventSender::send wakes fltk up before it puts    *)
(* the event in the channel, so the loop may wake up for nothing.          *)

Sending(e) == outbox' = <<e>> /\ awake' = TRUE /\ UNCHANGED <<events, acks>>

Flush ==
    /\ outbox # <<>>
    /\ events' = events \o outbox
    /\ outbox' = <<>>
    /\ UNCHANGED <<listVars, uiVars, stop_requested, current_row_idx, summary, workerVars, acks,
                   awake, histVars>>

StartTask ==
    /\ pc = "top" /\ outbox = <<>>
    /\ idx < Len(tasks)
    /\ ~stop_requested
    /\ pc' = "converting"
    /\ reported' = 0
    /\ Sending([type |-> "start", row |-> idx, file |-> tasks[idx + 1]])
    /\ UNCHANGED <<listVars, uiVars, stop_requested, current_row_idx, summary, tasks, idx, counts,
                   histVars>>

\* The flag is looked at before each task, and cleared when it stops the batch.
StopBatch ==
    /\ pc = "top"
    /\ idx < Len(tasks)
    /\ stop_requested
    /\ stop_requested' = FALSE
    /\ pc' = "end"
    /\ UNCHANGED <<listVars, uiVars, current_row_idx, summary, tasks, idx, counts, reported,
                   chanVars, histVars>>

Progress ==
    /\ pc = "converting" /\ outbox = <<>>
    /\ reported < MaxProgress
    /\ reported' = reported + 1
    /\ Sending([type |-> "progress", row |-> 0, file |-> tasks[idx + 1]])
    /\ UNCHANGED <<listVars, uiVars, stop_requested, current_row_idx, summary, pc, tasks, idx,
                   counts, histVars>>

FinishTask(ok) ==
    /\ pc = "converting" /\ outbox = <<>>
    /\ pc' = "waiting"
    /\ counts' = [completed |-> counts.completed + 1,
                  failed |-> IF ok THEN counts.failed ELSE counts.failed + 1]
    /\ outcome' = [outcome EXCEPT ![tasks[idx + 1]] = IF ok THEN "ok" ELSE "error"]
    /\ Sending([type |-> IF ok THEN "success" ELSE "failure", row |-> idx,
                file |-> tasks[idx + 1]])
    /\ UNCHANGED <<listVars, uiVars, stop_requested, current_row_idx, summary, tasks, idx,
                   reported, asked, disturbed, batches>>

NextWithoutAck == pc = "waiting" /\ outbox = <<>> \* mutant of Acknowledged
Acknowledged == pc = "waiting" /\ outbox = <<>> /\ acks > 0

\* The acknowledgement of the event loop lets the worker move to the next task.
NextTask ==
    /\ Acknowledged
    /\ acks' = IF acks = 0 THEN 0 ELSE acks - 1
    /\ idx' = idx + 1
    /\ current_row_idx' = idx + 1
    /\ pc' = IF idx + 1 < Len(tasks) THEN "top" ELSE "end"
    /\ awake' = TRUE
    /\ UNCHANGED <<listVars, uiVars, stop_requested, summary, tasks, counts, reported, outbox,
                   events, histVars>>

\* Without one it spins, and wakes fltk up each time round.
Spin ==
    /\ pc = "waiting" /\ outbox = <<>> /\ acks = 0
    /\ awake' = TRUE
    /\ UNCHANGED <<listVars, uiVars, stop_requested, current_row_idx, summary, workerVars, outbox,
                   events, acks, histVars>>

EndedEvent == [type |-> "ended", row |-> 0, file |-> "none"]
SentUnlocked == Sending(EndedEvent) \* mutant of SentUnderLock
\* Under fltk's lock: the loop cannot wake up between the wake-up and the event.
SentUnderLock ==
    /\ events' = Append(events, EndedEvent)
    /\ awake' = TRUE
    /\ UNCHANGED <<outbox, acks>>

EndBatch ==
    /\ pc = "end" /\ outbox = <<>>
    /\ current_row_idx' = 0
    /\ pc' = "finished"
    /\ SentUnderLock
    /\ UNCHANGED <<listVars, uiVars, stop_requested, summary, tasks, idx, counts, reported,
                   histVars>>

-----------------------------------------------------------------------------
(* fltk's loop: each time round it takes at most one event. It goes round  *)
(* when it is woken up, but also on any event of the window system.        *)

WithRow(i, status) ==
    /\ panicked' = (i >= Len(rows))
    /\ rows' = IF i < Len(rows) THEN [rows EXCEPT ![i + 1].status = status] ELSE rows
    /\ UNCHANGED selected

ShowStart(e) ==
    /\ e.type = "start"
    /\ WithRow(e.row, "in_progress")
    /\ UNCHANGED <<uiVars, summary, acks>>

\* A progress event has no row of its own: it goes to the current one.
ShowProgress(e) ==
    /\ e.type = "progress"
    /\ panicked' = (current_row_idx >= Len(rows))
    /\ summary' = [summary EXCEPT !.text = "log"]
    /\ UNCHANGED <<rows, selected, uiVars, acks>>

ShowResult(e) ==
    /\ e.type \in {"success", "failure"}
    /\ WithRow(e.row, IF e.type = "success" THEN "succeeded" ELSE "failed")
    /\ acks' = IF e.row < Len(rows) THEN acks + 1 ELSE acks
    /\ UNCHANGED <<uiVars, summary>>

CancelledOffByOne == counts.completed + 2 \* mutant of CancelledFrom
CancelledFrom == counts.completed + 1

\* AllConversionEnded carries the worker's counts, which no longer change. Without a
\* failure the text is still the one for several (in the colour of success).
ShowEnded(e) ==
    LET cancelled == counts.completed # Len(tasks) IN
    /\ e.type = "ended"
    /\ summary' = [text  |-> IF cancelled THEN "cancelled"
                             ELSE IF counts.failed # Len(tasks) THEN "some_failed" ELSE "all_failed",
                   color |-> IF cancelled THEN "cancelled"
                             ELSE IF counts.failed = 0 THEN "succeeded" ELSE "failed"]
    /\ rows' = IF cancelled
               THEN [i \in DOMAIN rows |->
                       IF i >= CancelledFrom THEN [rows[i] EXCEPT !.status = "cancelled"]
                                             ELSE rows[i]]
               ELSE rows
    /\ droppable' = TRUE
    /\ cancellable' = FALSE
    /\ UNCHANGED <<selected, panicked, is_converting, convertible, selectable, overall, acks>>

\* Every handler wakes the loop up once more.
TakeEvent ==
    /\ Alive
    /\ events # <<>>
    /\ \/ ShowStart(Head(events))
       \/ ShowProgress(Head(events))
       \/ ShowResult(Head(events))
       \/ ShowEnded(Head(events))
    /\ events' = Tail(events)
    /\ awake' = TRUE
    /\ UNCHANGED <<stop_requested, current_row_idx, workerVars, outbox, histVars>>

WakeForNothing ==
    /\ Alive
    /\ awake
    /\ events = <<>>
    /\ awake' = FALSE
    /\ UNCHANGED <<listVars, uiVars, stop_requested, current_row_idx, summary, workerVars, outbox,
                   events, acks, histVars>>

-----------------------------------------------------------------------------
WorkerStep ==
    \/ Flush \/ StartTask \/ StopBatch \/ Progress \/ (\E ok \in BOOLEAN : FinishTask(ok))
    \/ NextTask \/ EndBatch
LoopStep == TakeEvent \/ WakeForNothing
UserStep == Select \/ Delete \/ (\E f \in Files : Drop(f)) \/ StartBatch \/ Cancel

Next == WorkerStep \/ Spin \/ LoopStep \/ UserStep

Spec == Init /\ [][Next]_vars

\* The worker's thread runs, and fltk's loop once it is woken up; nothing says that
\* the window system or the user ever does anything.
Fairness == WF_vars(WorkerStep) /\ WF_vars(Spin) /\ WF_vars(awake /\ LoopStep)
FairSpec == Spec /\ Fairness

-----------------------------------------------------------------------------
\* Type invariant of the client's state; at most one event waits for its wake-up.
TypeOK ==
    /\ TypeOKList
    /\ {is_converting, convertible, droppable, selectable, overall, cancellable, stop_requested,
        awake, asked, disturbed} \subseteq BOOLEAN
    /\ current_row_idx \in Nat
    /\ summary \in [text : {"none", "log", "cancelled", "some_failed", "all_failed"},
                    color : {"black", "cancelled", "succeeded", "failed"}]
    /\ pc \in {"none", "top", "converting", "waiting", "end", "finished"}
    /\ tasks \in Seq(Files)
    /\ idx \in 0 .. Len(tasks)
    /\ counts \in [completed : Nat, failed : Nat]
    /\ events \in Seq(Event) /\ outbox \in Seq(Event) /\ Len(outbox) <= 1
    /\ acks \in Nat /\ batches \in Nat /\ reported \in Nat
    /\ outcome \in [Files -> {"none", "ok", "error"}]

\* What the user sees ticked is what Delete will act on: the rows with a ticked
\* checkbox are exactly those in selected_indices, through any sequence of
\* clicks, (de)selections, deletions, drops and batches.
SelectionShown ==
    Alive => {x + 1 : x \in Elements(selected)} = Checked

\* A progress message carries no row: when the loop shows it, the shared
\* current_row_idx is still the row of the file that it is about, as long as no row
\* was deleted meanwhile.
ProgressOnOwnRow ==
    events # <<>> /\ Head(events).type = "progress" /\ ~disturbed =>
        /\ current_row_idx < Len(rows)
        /\ rows[current_row_idx + 1].file = Head(events).file

\* Each acknowledgement answers the result that the worker is waiting for; none is
\* left over for a later task or batch.
OneAckPerResult ==
    /\ acks <= 1
    /\ acks = 1 => pc = "waiting" /\ events = <<>>

\* When a batch is over and shown, each row says how its own file fared: converted,
\* failed, or cancelled if it was never converted; and the summary, which is made of
\* the worker's counts, agrees with the rows.
StatusTellsOutcome ==
    is_converting /\ pc = "finished" /\ events = <<>> /\ outbox = <<>> /\ ~disturbed =>
        /\ summary.text = "cancelled" <=> \E i \in DOMAIN rows : rows[i].status = "cancelled"
        /\ summary.text = "all_failed" <=> \A i \in DOMAIN rows : rows[i].status = "failed"
        /\ summary.color = "succeeded" <=> \A i \in DOMAIN rows : rows[i].status = "succeeded"
        /\ \A i \in DOMAIN rows :
            rows[i].status = CASE outcome[rows[i].file] = "ok"    -> "succeeded"
                               [] outcome[rows[i].file] = "error" -> "failed"
                               [] outcome[rows[i].file] = "none"  -> "cancelled"

\* While the window is frozen, something brings the batch to its end: the loop sleeps
\* with events in the channel only while the worker will wake it up again, a worker
\* that waits has its answer or its result on the way to the window, and when the last
\* event was shown the window accepts files again.
BatchGoesOn ==
    Alive =>
        /\ events # <<>> /\ ~awake => pc \in {"converting", "waiting"}
        /\ pc = "waiting" /\ acks = 0 =>
            \E i \in DOMAIN (events \o outbox) : (events \o outbox)[i].type \in {"success", "failure"}
        /\ ~droppable /\ Idle => events # <<>>

\* A batch that was started comes to its end and the window accepts files again
\* (unless a deletion made the program abort): no acknowledgement and no wake-up is
\* lost between the worker and the loop.
BatchEnds == ~Idle ~> (droppable \/ panicked)

\* Rows are shown as cancelled only when Cancel was pressed during that batch.
CancelledOnlyIfAsked ==
    \A i \in DOMAIN rows : rows[i].status = "cancelled" => asked

\* As long as no row is selected twice, Delete removes the rows that are ticked, keeps
\* the others in their order and does not abort: popping the greatest index first
\* leaves the rows of the other indices where they are.
DeletesTicked ==
    [][Delete /\ Distinct(selected) =>
                 /\ ~panicked'
                 /\ rows' = Without(rows, {rows[i] : i \in Checked})]_vars

\* Deleting removes the rows that are ticked and no other.
DeletesOnlySelected ==
    [][pc = "none" /\ Delete =>
                 /\ ~panicked'
                 /\ FilesOf(rows') = {rows[i].file : i \in DOMAIN rows \ Checked}]_vars

=============================================================================
