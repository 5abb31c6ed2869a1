-------------------------------- MODULE WebPage --------------------------------
(***************************************************************************)
(* The page of the web server (entrusted_webserver/web-assets/index.html): *)
(* the list of files, the table of their rows, and the batch that submits  *)
(* one file after the other. Every handler of the page runs to its end     *)
(* before the next one; between them come the answers of the server, whose *)
(* feeds and streams are those of EventFeed. A file is added once, and     *)
(* stands for its upload request and for the stream of that request.       *)
(***************************************************************************)
EXTENDS EventFeed, FiniteSets, Lists

CONSTANTS
    Files,       \* files that the user may add
    Selections,  \* bound: what is chosen or dropped at once, sequences of files
    PageFaults   \* TRUE: connections may break

\* One choice in the dialog, or one drop, does not have the same file twice.
ASSUME SelectionsAssumption ==
    /\ IsFiniteSet(Files)
    /\ Selections \subseteq Seq(Files)
    /\ \A s \in Selections : Distinct(s)

VARIABLES
    fileList,      \* files that wait
    rows,          \* the table, a file and its status per row
    added,         \* history: files that were added
    uploaded,      \* history: files that the server has accepted
    zone,          \* the drop zone and the file dialog are enabled
    submitButton,  \* and the Submit button
    bar,           \* the overall progress, with its Cancel button, is visible
    cancelButton,  \* and the Cancel button enabled
    cancelPendingTasksRequested,
    isConverting,
    job,           \* the arguments of submitOneFile, and how far its promise is
    summary        \* conversionSummary, with the number of failures that it tells

pageVars == <<fileList, rows, added, uploaded, zone, submitButton, bar, cancelButton,
              cancelPendingTasksRequested, isConverting, job, summary>>

-----------------------------------------------------------------------------
NoFile == <<>>
NoJob == [step |-> "none", idx |-> 0, fails |-> 0, file |-> NoFile]
NoSummary == [text |-> "none", fails |-> 0]
Outcomes == {"Succeeded", "Failed", "Cancelled"}

Pending(s) == [k \in DOMAIN s |-> [file |-> s[k], status |-> "Pending"]]
WithStatus(table, f, status) ==
    [k \in DOMAIN table |-> IF table[k].file = f THEN [table[k] EXCEPT !.status = status] ELSE table[k]]

PageInit ==
    /\ fileList = <<>> /\ rows = <<>> /\ added = {} /\ uploaded = {}
    /\ zone = TRUE /\ submitButton = FALSE /\ bar = FALSE /\ cancelButton = TRUE
    /\ cancelPendingTasksRequested = FALSE /\ isConverting = FALSE
    /\ job = NoJob
    /\ summary = NoSummary

-----------------------------------------------------------------------------
(* Adding and removing files.                                              *)

\* resetFileListTable: the rows of the last batch go when a new list begins.
KeptRows(list) == rows \* mutant of RowsLeft
RowsLeft(list) == IF list = <<>> THEN <<>> ELSE rows

\* updateFileList(s) after the list has become list.
Update(list, s) ==
    /\ fileList' = list \o s
    /\ rows' = RowsLeft(list) \o Pending(s)
    /\ added' = added \cup Elements(s)
    /\ submitButton' = TRUE
    /\ bar' = (bar /\ list # <<>>)
    /\ cancelButton' = (cancelButton \/ list = <<>>)
    /\ UNCHANGED <<uploaded, zone, cancelPendingTasksRequested, job>>

Choose(s) ==
    /\ zone
    /\ Elements(s) \cap added = {}
    /\ Update(fileList, s)
    /\ summary' = IF fileList = <<>> THEN NoSummary ELSE summary
    /\ UNCHANGED isConverting

\* isConverting is still set after a batch: the list is emptied first.
Drop(s) ==
    /\ zone
    /\ Elements(s) \cap added = {}
    /\ Update(IF isConverting THEN <<>> ELSE fileList, s)
    /\ summary' = IF isConverting \/ fileList = <<>> THEN NoSummary ELSE summary
    /\ isConverting' = FALSE

\* The check boxes of waiting files; fireSelectionChange resets the controls when
\* none is left, also while a batch runs.
DeleteSelection(S) ==
    LET left == Without(fileList, S)
    IN  /\ S # {} /\ S \subseteq Elements(fileList)
        /\ fileList' = left
        /\ rows' = Without(rows, {row \in Elements(rows) : row.file \in S})
        /\ submitButton' = (submitButton /\ left # <<>>)
        /\ bar' = (bar /\ left # <<>>)
        /\ cancelButton' = (cancelButton \/ left = <<>>)
        /\ summary' = IF left = <<>> THEN NoSummary ELSE summary
        /\ UNCHANGED <<added, uploaded, zone, cancelPendingTasksRequested, isConverting, job>>

CancelPendingTasks ==
    /\ bar /\ cancelButton
    /\ cancelPendingTasksRequested' = TRUE
    /\ cancelButton' = FALSE
    /\ UNCHANGED <<fileList, rows, added, uploaded, zone, submitButton, bar, isConverting, job,
                   summary>>

-----------------------------------------------------------------------------
(* The batch.                                                              *)

\* Without a file, shift() gives undefined and the handler throws.
SubmitForm ==
    /\ submitButton
    /\ isConverting' = TRUE
    /\ zone' = FALSE
    /\ submitButton' = FALSE
    /\ IF fileList = <<>> THEN UNCHANGED <<fileList, rows, bar, job>>
       ELSE /\ fileList' = Tail(fileList)
            /\ rows' = WithStatus(rows, Head(fileList), "InProgress")
            /\ bar' = (bar \/ Len(fileList) > 1)
            /\ job' = [step |-> "fetch", idx |-> 0, fails |-> 0, file |-> Head(fileList)]
    /\ UNCHANGED <<added, uploaded, cancelButton, cancelPendingTasksRequested, summary>>

\* onComplete's newFailCount, which the next submitOneFile is called with.
SameFailCount(status) == job.fails \* mutant of NewFailCount
FailCountTwice(status) == IF status = "Failed" THEN job.fails + 2 ELSE job.fails \* mutant of NewFailCount
NewFailCount(status) == IF status = "Failed" THEN job.fails + 1 ELSE job.fails

\* The rows after the idx-th, by their place in the table.
LeaveRows(table, idx) == table \* mutant of CancelRowsAfter
CancelRowsFrom(table, idx) == \* mutant of CancelRowsAfter
    [k \in DOMAIN table |-> IF k > idx THEN [table[k] EXCEPT !.status = "Cancelled"] ELSE table[k]]
CancelRowsAfter(table, idx) ==
    [k \in DOMAIN table |-> IF k > idx + 1 THEN [table[k] EXCEPT !.status = "Cancelled"] ELSE table[k]]

Complete(status) ==
    LET table == WithStatus(rows, job.file, status)
        fails == NewFailCount(status)
    IN  \/ /\ fileList # <<>> /\ ~cancelPendingTasksRequested
           /\ fileList' = Tail(fileList)
           /\ rows' = WithStatus(table, Head(fileList), "InProgress")
           /\ job' = [step |-> "fetch", idx |-> job.idx + 1, fails |-> fails, file |-> Head(fileList)]
           /\ UNCHANGED <<zone, cancelButton, cancelPendingTasksRequested, summary>>
        \/ /\ fileList = <<>> \/ cancelPendingTasksRequested
           /\ rows' = IF cancelPendingTasksRequested THEN CancelRowsAfter(table, job.idx) ELSE table
           /\ fileList' = <<>>
           /\ summary' = IF cancelPendingTasksRequested THEN [text |-> "cancelled", fails |-> 0]
                                                        ELSE [text |-> "done", fails |-> fails]
           /\ zone' = TRUE
           /\ cancelButton' = FALSE
           /\ cancelPendingTasksRequested' = FALSE
           /\ job' = NoJob

pageRest == <<added, submitButton, bar, isConverting>>
Await(step) ==
    /\ job' = [job EXCEPT !.step = step]
    /\ UNCHANGED <<fileList, rows, zone, cancelButton, cancelPendingTasksRequested, summary>>

\* The response of the upload: 202, another status, or no response at all.
Accepted ==
    /\ job.step = "fetch"
    /\ uploaded' = uploaded \cup {job.file}
    /\ Await("body")
    /\ UNCHANGED <<pageRest, vars>>

Refused ==
    /\ job.step = "fetch"
    /\ Complete("Failed")
    /\ UNCHANGED <<uploaded, pageRest, vars>>

\* Its body, or (nobody handles this rejection) a connection that breaks before.
BodyArrives ==
    /\ job.step = "body"
    /\ Follow(job.file, job.file)
    /\ Await("stream")
    /\ UNCHANGED <<uploaded, pageRest>>

BodyLost ==
    /\ PageFaults
    /\ job.step = "body"
    /\ Await("lost")
    /\ UNCHANGED <<uploaded, pageRest, vars>>

\* The listeners of processing_update, processing_success and processing_failure.
NoListener(e) == FALSE \* mutant of FailureHeard
FailureHeard(e) == e = "processing_failure"

Hear ==
    /\ job.step = "stream"
    /\ Repeat(job.file)
    /\ LET e == got'[job.file][Len(got'[job.file])].event
       IN  CASE e = "processing_success" -> Complete("Succeeded")
             [] FailureHeard(e) -> Complete("Failed")
             [] OTHER -> Await("stream")
    /\ UNCHANGED <<uploaded, pageRest>>

\* The listener of error: also of a connection that EventSource would reopen.
StreamBreaks ==
    /\ PageFaults
    /\ job.step = "stream"
    /\ Complete("Failed")
    /\ UNCHANGED <<uploaded, pageRest, vars>>

-----------------------------------------------------------------------------
UserStep ==
    /\ \/ \E s \in Selections : Choose(s) \/ Drop(s)
       \/ \E S \in SUBSET Files : DeleteSelection(S)
       \/ CancelPendingTasks
       \/ SubmitForm
    /\ UNCHANGED vars
AnswerStep == Accepted \/ Refused \/ BodyArrives \/ Hear
PageNext == UserStep \/ AnswerStep \/ BodyLost \/ StreamBreaks

PageTypeOK ==
    /\ fileList \in Seq(Files)
    /\ \A k \in DOMAIN rows : rows[k].file \in Files /\ rows[k].status \in Outcomes \cup {"Pending", "InProgress"}
    /\ job.idx \in 0..Cardinality(Files) /\ job.fails \in 0..job.idx
    /\ uploaded \subseteq added /\ added \subseteq Files
    /\ {zone, submitButton, bar, cancelButton, cancelPendingTasksRequested, isConverting} \subseteq BOOLEAN
    /\ job.step \in {"none", "fetch", "body", "stream", "lost"} /\ job.file \in Files \cup {NoFile}
    /\ summary.text \in {"none", "cancelled", "done"}

-----------------------------------------------------------------------------
StatusOf(f) == {rows[k].status : k \in {n \in DOMAIN rows : rows[n].file = f}}
FilesThat(status) == {rows[k].file : k \in {n \in DOMAIN rows : rows[n].status = status}}

\* The list, the table and the batch agree, through any sequence of additions,
\* deletions (also of files of the running batch), cancellations and answers: the
\* rows that are pending are those of the files that wait, and the row in progress
\* is that of the file that is submitted.
RowsTellTheList ==
    /\ FilesThat("Pending") = Elements(fileList)
    /\ FilesThat("InProgress") = IF job.step = "none" THEN {} ELSE {job.file}

\* "Succeeded" is shown exactly when the server's feed of that file has ended so and
\* the page has heard it; "Cancelled" only for files that were never sent.
OutcomesAreTrue ==
    \A k \in DOMAIN rows :
        LET f == rows[k].file IN
        /\ rows[k].status = "Succeeded" <=> Ended(got[f]) /\ Last(got[f]) = "processing_success"
        /\ rows[k].status = "Cancelled" => f \notin uploaded

\* The summary counts the failures of the whole batch: the count that was handed
\* from one submitOneFile to the next is the number of rows that have failed.
SummaryCountsFailures ==
    summary.text = "done" => summary.fails = Cardinality(FilesThat("Failed"))

\* A batch ends by itself and gives the controls back to the user, unless the body of
\* an upload's response was lost.
PageBatchEnds == job.step # "none" ~> (job.step = "none" /\ zone) \/ job.step = "lost"

=============================================================================
