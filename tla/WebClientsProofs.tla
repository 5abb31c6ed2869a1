---------------------------- MODULE WebClientsProofs ----------------------------
(***************************************************************************)
(* Theorems of WebClients: the table of the page agrees with its list and  *)
(* its batch, and tells the outcomes that the server has announced; the    *)
(* summary counts the failures; and the command line client saves the      *)
(* answer of a conversion that has succeeded.                              *)
(***************************************************************************)
EXTENDS WebClients, ListTheorems, FiniteSetTheorems

-----------------------------------------------------------------------------
(* The inductive invariants.                                               *)

Row == [file : Files, status : Outcomes \cup {"Pending", "InProgress"}]
Job == [step : {"none", "fetch", "body", "stream", "lost"}, idx : Nat, fails : Nat,
        file : Files \cup {NoFile}]
Note == [event : Events, id : Nat]

FeedTyped ==
    /\ feed \in [Requests -> Seq(Note)]
    /\ follows \in [Requests -> Requests \cup {NoRequest}]
    /\ got \in [Requests -> Seq(Note)]
    /\ handed \in [Clients -> Requests \cup {NoRequest}]

PageTyped ==
    /\ fileList \in Seq(Files) /\ rows \in Seq(Row)
    /\ uploaded \subseteq added /\ added \subseteq Files
    /\ zone \in BOOLEAN /\ submitButton \in BOOLEAN /\ bar \in BOOLEAN /\ cancelButton \in BOOLEAN
    /\ cancelPendingTasksRequested \in BOOLEAN /\ isConverting \in BOOLEAN
    /\ job \in Job
    /\ summary \in [text : {"none", "cancelled", "done"}, fails : Nat]

Running == job.step # "none"

\* During a batch the user can neither add files nor submit, and there is a file.
JobInv ==
    /\ Running => ~zone /\ ~submitButton /\ job.file \in Files
    /\ ~Running => job = NoJob

\* The number of rows that do not wait: those that have ended, and the one in progress.
Begun == IF Running THEN job.idx + 1 ELSE IF fileList = <<>> THEN Len(rows) ELSE 0

\* The rows that have ended, the row in progress, and those that wait, in this order;
\* no file has two rows.
TableInv ==
    /\ Len(rows) = Begun + Len(fileList)
    /\ \A k \in 1 .. Len(fileList) :
          rows[Begun + k].file = fileList[k] /\ rows[Begun + k].status = "Pending"
    /\ \A k \in 1 .. Begun :
          IF Running /\ k = Begun THEN rows[k].file = job.file /\ rows[k].status = "InProgress"
                                  ELSE rows[k].status \in Outcomes
    /\ \A k, l \in 1 .. Len(rows) : rows[k].file = rows[l].file => k = l
    /\ \A k \in 1 .. Len(rows) : rows[k].file \in added

\* The count of a batch is right when it is handed on and when it is told.
CountInv ==
    /\ Running => job.fails = Cardinality(FilesThat("Failed")) /\ job.fails <= job.idx
    /\ SummaryCountsFailures
    /\ summary.text # "none" => fileList = <<>> /\ ~Running

\* Files that were not submitted: the server knows nothing of them.
Untouched(f) == got[f] = <<>> /\ follows[f] = NoRequest /\ f \notin uploaded

SentInv ==
    /\ \A f \in Files \ added : Untouched(f)
    /\ \A k \in 1 .. Len(fileList) : Untouched(fileList[k])
    /\ Running => ~Ended(got[job.file])
    /\ job.step \in {"fetch", "body"} => got[job.file] = <<>> /\ follows[job.file] = NoRequest
    /\ job.step = "stream" => follows[job.file] = job.file

\* A feed ends with its outcome, and streams repeat a part of it.
FeedInv ==
    /\ \A r \in Requests : \A k \in 1 .. Len(feed[r]) - 1 : feed[r][k].event = "processing_update"
    /\ \A s \in Requests :
          IF follows[s] = NoRequest THEN got[s] = <<>>
          ELSE /\ Len(got[s]) <= Len(feed[follows[s]])
               /\ \A k \in 1 .. Len(got[s]) : got[s][k] = feed[follows[s]][k]

Answer(k) == IF handed[k] = k THEN "document" ELSE "problem"
ClientFollows(k) ==
    /\ step[k] \in {"start", "follow"} => follows[k] = NoRequest
    /\ step[k] = "listen" => follows[k] = k
    /\ step[k] \in {"start", "follow", "listen", "download"} => handed[k] = NoRequest
    /\ step[k] \in {"download", "save", "exit_ok"} =>
          Ended(feed[k]) /\ Last(feed[k]) = "processing_success"
    /\ step[k] = "save" => fetched[k] = Answer(k)
    /\ step[k] = "exit_ok" => saved[k] = Answer(k)
ClientInv == \A k \in Clients : ClientFollows(k)

-----------------------------------------------------------------------------
(* Rows.                                                                   *)

Statuses == Outcomes \cup {"Pending", "InProgress"}

LEMMA RowsOf ==
    ASSUME PageTyped
    PROVE  /\ Len(rows) \in Nat /\ DOMAIN rows = 1 .. Len(rows)
           /\ Len(fileList) \in Nat /\ DOMAIN fileList = 1 .. Len(fileList)
           /\ \A k \in 1 .. Len(rows) : rows[k] \in Row /\ rows[k].file \in Files /\ rows[k].status \in Statuses
           /\ \A k \in 1 .. Len(fileList) : fileList[k] \in Files
           /\ fileList = <<>> <=> Len(fileList) = 0
<1>1. fileList \in Seq(Files) /\ rows \in Seq(Row)
    BY DEF PageTyped
<1>2. /\ Len(rows) \in Nat /\ DOMAIN rows = 1 .. Len(rows)
      /\ Len(fileList) \in Nat /\ DOMAIN fileList = 1 .. Len(fileList)
      /\ \A k \in 1 .. Len(rows) : rows[k] \in Row
      /\ \A k \in 1 .. Len(fileList) : fileList[k] \in Files
    BY <1>1
<1>3. \A row \in Row : row.file \in Files /\ row.status \in Statuses
    BY DEF Row, Statuses
<1>4. fileList = <<>> <=> Len(fileList) = 0
    BY <1>1
<1>5. QED BY <1>2, <1>3, <1>4

LEMMA WithStatusRows ==
    ASSUME NEW table \in Seq(Row), NEW f, NEW status \in Statuses
    PROVE  /\ WithStatus(table, f, status) \in Seq(Row)
           /\ Len(WithStatus(table, f, status)) = Len(table)
           /\ \A k \in 1 .. Len(table) :
                 /\ WithStatus(table, f, status)[k].file = table[k].file
                 /\ WithStatus(table, f, status)[k].status =
                       IF table[k].file = f THEN status ELSE table[k].status
<1>1. DOMAIN table = 1 .. Len(table) /\ Len(table) \in Nat
    OBVIOUS
<1>2. \A k \in 1 .. Len(table) : table[k] \in Row
    OBVIOUS
<1>3. \A k \in 1 .. Len(table) : [table[k] EXCEPT !.status = status] \in Row
    BY <1>2 DEF Row, Statuses
<1>4. \A k \in 1 .. Len(table) : WithStatus(table, f, status)[k] \in Row
    BY <1>1, <1>2, <1>3 DEF WithStatus
<1>5. /\ DOMAIN WithStatus(table, f, status) = 1 .. Len(table)
      /\ WithStatus(table, f, status) = [k \in 1 .. Len(table) |-> WithStatus(table, f, status)[k]]
    BY <1>1 DEF WithStatus
<1>6. WithStatus(table, f, status) \in [1 .. Len(table) -> Row]
    BY <1>4, <1>5
<1>7. WithStatus(table, f, status) \in Seq(Row) /\ Len(WithStatus(table, f, status)) = Len(table)
    BY <1>1, <1>6
<1>8. \A k \in 1 .. Len(table) :
         /\ WithStatus(table, f, status)[k].file = table[k].file
         /\ WithStatus(table, f, status)[k].status = IF table[k].file = f THEN status ELSE table[k].status
    BY <1>1, <1>2 DEF WithStatus, Row
<1>9. QED BY <1>7, <1>8

LEMMA CancelledRows ==
    ASSUME NEW table \in Seq(Row), NEW idx \in Nat
    PROVE  /\ CancelRowsAfter(table, idx) \in Seq(Row)
           /\ Len(CancelRowsAfter(table, idx)) = Len(table)
           /\ \A k \in 1 .. Len(table) :
                 /\ CancelRowsAfter(table, idx)[k].file = table[k].file
                 /\ CancelRowsAfter(table, idx)[k].status =
                       IF k > idx + 1 THEN "Cancelled" ELSE table[k].status
<1>1. DOMAIN table = 1 .. Len(table) /\ Len(table) \in Nat
    OBVIOUS
<1>2. \A k \in 1 .. Len(table) : table[k] \in Row
    OBVIOUS
<1>3. \A k \in 1 .. Len(table) : [table[k] EXCEPT !.status = "Cancelled"] \in Row
    BY <1>2 DEF Row, Outcomes
<1>4. \A k \in 1 .. Len(table) : CancelRowsAfter(table, idx)[k] \in Row
    BY <1>1, <1>2, <1>3 DEF CancelRowsAfter
<1>5. /\ DOMAIN CancelRowsAfter(table, idx) = 1 .. Len(table)
      /\ CancelRowsAfter(table, idx) = [k \in 1 .. Len(table) |-> CancelRowsAfter(table, idx)[k]]
    BY <1>1 DEF CancelRowsAfter
<1>6. CancelRowsAfter(table, idx) \in [1 .. Len(table) -> Row]
    BY <1>4, <1>5
<1>7. CancelRowsAfter(table, idx) \in Seq(Row) /\ Len(CancelRowsAfter(table, idx)) = Len(table)
    BY <1>1, <1>6
<1>8. \A k \in 1 .. Len(table) :
         /\ CancelRowsAfter(table, idx)[k].file = table[k].file
         /\ CancelRowsAfter(table, idx)[k].status = IF k > idx + 1 THEN "Cancelled" ELSE table[k].status
    BY <1>1, <1>2 DEF CancelRowsAfter, Row
<1>9. QED BY <1>7, <1>8

\* The places of the table, seen through TableInv.
LEMMA Places ==
    ASSUME PageTyped, JobInv, TableInv
    PROVE  /\ Begun \in Nat /\ Len(rows) = Begun + Len(fileList)
           /\ Running => /\ Begun = job.idx + 1 /\ Begun \in 1 .. Len(rows) /\ job.idx \in Nat
                         /\ \A k \in 1 .. Len(rows) : rows[k].file = job.file <=> k = Begun
                         /\ rows[Begun].status = "InProgress"
           /\ \A k \in 1 .. Len(rows) : rows[k].status = "Pending" <=> k > Begun
           /\ \A k \in 1 .. Len(rows) : rows[k].status = "InProgress" <=> Running /\ k = Begun
           /\ \A k \in 1 .. Len(rows) : k > Begun => /\ k - Begun \in 1 .. Len(fileList)
                                                     /\ rows[k].file = fileList[k - Begun]
<1>1. /\ Len(rows) \in Nat /\ Len(fileList) \in Nat
      /\ fileList = <<>> <=> Len(fileList) = 0
    BY RowsOf
<1>2. job.idx \in Nat
    BY DEF PageTyped, Job
<1>3. Begun \in Nat
    BY <1>1, <1>2 DEF Begun
<1>4. Len(rows) = Begun + Len(fileList)
    BY DEF TableInv
<1>5. ASSUME Running
      PROVE  /\ Begun = job.idx + 1 /\ Begun \in 1 .. Len(rows)
             /\ \A k \in 1 .. Len(rows) : rows[k].file = job.file <=> k = Begun
             /\ rows[Begun].status = "InProgress"
    <2>1. Begun = job.idx + 1
        BY <1>5 DEF Begun
    <2>2. Begun \in 1 .. Len(rows) /\ Begun \in 1 .. Begun
        BY <1>1, <1>2, <1>4, <2>1
    <2>3. rows[Begun].file = job.file /\ rows[Begun].status = "InProgress"
        BY <1>5, <2>2 DEF TableInv
    <2>4. QED BY <2>1, <2>2, <2>3 DEF TableInv
<1>6. ASSUME NEW k \in 1 .. Len(rows), k > Begun
      PROVE  /\ k - Begun \in 1 .. Len(fileList) /\ rows[k].file = fileList[k - Begun]
             /\ rows[k].status = "Pending"
    <2>1. k - Begun \in 1 .. Len(fileList) /\ Begun + (k - Begun) = k
        BY <1>1, <1>3, <1>4, <1>6
    <2>2. QED BY <2>1 DEF TableInv
<1>7. ASSUME NEW k \in 1 .. Len(rows), ~ (k > Begun)
      PROVE  rows[k].status \in IF Running /\ k = Begun THEN {"InProgress"} ELSE Outcomes
    <2>1. k \in 1 .. Begun
        BY <1>1, <1>3, <1>7
    <2>2. QED BY <2>1 DEF TableInv
<1>8. ASSUME NEW k \in 1 .. Len(rows)
      PROVE  /\ rows[k].status = "Pending" <=> k > Begun
             /\ rows[k].status = "InProgress" <=> Running /\ k = Begun
    <2>1. CASE k > Begun
        <3>1. k # Begun
            BY <1>3, <2>1
        <3>2. QED BY <1>6, <2>1, <3>1
    <2>2. CASE ~ (k > Begun)
        <3>1. "Pending" \notin Outcomes /\ "InProgress" \notin Outcomes
            BY DEF Outcomes
        <3>2. QED BY <1>7, <2>2, <3>1
    <2>3. QED BY <2>1, <2>2
<1>9. QED BY <1>2, <1>3, <1>4, <1>5, <1>6, <1>8

THEOREM TableAgrees ==
    ASSUME PageTyped, JobInv, TableInv
    PROVE  RowsTellTheList
<1>1. /\ Len(rows) \in Nat /\ DOMAIN rows = 1 .. Len(rows) /\ Len(fileList) \in Nat
      /\ DOMAIN fileList = 1 .. Len(fileList)
    BY RowsOf
<1>2. FilesThat("Pending") = Elements(fileList)
    <2>1. ASSUME NEW k \in 1 .. Len(rows), rows[k].status = "Pending"
          PROVE  rows[k].file \in Elements(fileList)
        BY <1>1, <2>1, Places DEF Elements
    <2>2. ASSUME NEW k \in 1 .. Len(fileList)
          PROVE  fileList[k] \in FilesThat("Pending")
        <3>1. Begun + k \in 1 .. Len(rows)
            BY <1>1, Places
        <3>2. rows[Begun + k].file = fileList[k] /\ rows[Begun + k].status = "Pending"
            BY DEF TableInv
        <3>3. QED BY <1>1, <3>1, <3>2 DEF FilesThat
    <2>3. QED BY <1>1, <2>1, <2>2 DEF FilesThat, Elements
<1>3. FilesThat("InProgress") = IF job.step = "none" THEN {} ELSE {job.file}
    <2>1. CASE Running
        <3>1. FilesThat("InProgress") = {job.file}
            BY <1>1, <2>1, Places DEF FilesThat
        <3>2. QED BY <2>1, <3>1 DEF Running
    <2>2. CASE ~Running
        <3>1. FilesThat("InProgress") = {}
            BY <1>1, <2>2, Places DEF FilesThat
        <3>2. QED BY <2>2, <3>1 DEF Running
    <2>3. QED BY <2>1, <2>2
<1>4. QED BY <1>2, <1>3 DEF RowsTellTheList

-----------------------------------------------------------------------------
(* The steps of the page, as far as they concern the list, the table and   *)
(* the batch.                                                              *)

PageOK == PageTyped /\ JobInv /\ TableInv /\ CountInv

LEMMA UpdateStep ==
    ASSUME PageOK, zone, NEW s \in Selections, NEW list, Elements(s) \cap added = {},
           list \in {fileList, <<>>}, Update(list, s),
           summary' \in {NoSummary, summary}, fileList # <<>> \/ summary' = NoSummary,
           isConverting' \in BOOLEAN
    PROVE  PageOK' /\ \A k \in 1 .. Len(rows') : rows'[k].status = "Pending"
<1> USE DEF PageOK
<1>1. s \in Seq(Files) /\ Distinct(s)
    BY SelectionsAssumption
<1>2. /\ Len(s) \in Nat /\ DOMAIN s = 1 .. Len(s)
      /\ \A k \in 1 .. Len(s) : s[k] \in Files /\ s[k] \notin added
      /\ \A k, l \in 1 .. Len(s) : s[k] = s[l] => k = l
    <2>1. Len(s) \in Nat /\ DOMAIN s = 1 .. Len(s) /\ \A k \in 1 .. Len(s) : s[k] \in Files
        BY <1>1
    <2>2. \A k \in 1 .. Len(s) : s[k] \notin added
        BY <2>1 DEF Elements
    <2>3. \A k, l \in 1 .. Len(s) : s[k] = s[l] => k = l
        BY <1>1, <2>1 DEF Distinct
    <2>4. QED BY <2>1, <2>2, <2>3
<1>3. ~Running /\ job' = job /\ ~Running'
    BY DEF JobInv, Update, Running
<1> DEFINE base == RowsLeft(list)
<1>4. /\ list \in Seq(Files) /\ base \in Seq(Row) /\ Len(base) = Len(list) /\ Len(list) \in Nat
      /\ \A k \in 1 .. Len(list) : base[k].file = list[k] /\ base[k].status = "Pending" /\ base[k].file \in added
      /\ \A k, l \in 1 .. Len(list) : base[k].file = base[l].file => k = l
    <2>1. CASE list = <<>>
        <3>1. base = <<>> /\ Len(list) = 0 /\ list \in Seq(Files) /\ base \in Seq(Row)
            BY <2>1 DEF RowsLeft
        <3>2. QED BY <3>1
    <2>2. CASE list # <<>>
        <3>1. list = fileList /\ base = rows /\ Begun = 0
            BY <1>3, <2>2 DEF RowsLeft, Begun
        <3>2. Len(rows) = Len(fileList) /\ Len(rows) \in Nat /\ fileList \in Seq(Files) /\ rows \in Seq(Row)
            BY <3>1, Places, RowsOf DEF PageTyped
        <3>3. \A k \in 1 .. Len(fileList) : rows[k].file = fileList[k] /\ rows[k].status = "Pending"
            BY <3>1 DEF TableInv
        <3>4. QED BY <3>1, <3>2, <3>3 DEF TableInv
    <2>3. QED BY <2>1, <2>2
<1>5. /\ Pending(s) \in Seq(Row) /\ Len(Pending(s)) = Len(s)
      /\ \A k \in 1 .. Len(s) : Pending(s)[k].file = s[k] /\ Pending(s)[k].status = "Pending"
    <2>1. \A k \in 1 .. Len(s) : [file |-> s[k], status |-> "Pending"] \in Row
        BY <1>2 DEF Row
    <2>2. QED BY <1>2, <2>1 DEF Pending
<1>6. fileList' = list \o s /\ rows' = base \o Pending(s) /\ added' = added \cup Elements(s)
    BY DEF Update
<1> HIDE DEF base
<1>7. /\ fileList' \in Seq(Files) /\ rows' \in Seq(Row)
      /\ Len(fileList') = Len(list) + Len(s) /\ Len(rows') = Len(list) + Len(s)
    <2>1. list \o s \in Seq(Files) /\ Len(list \o s) = Len(list) + Len(s)
        BY <1>1, <1>4
    <2>2. base \o Pending(s) \in Seq(Row) /\ Len(base \o Pending(s)) = Len(base) + Len(Pending(s))
        <3>1. base \in Seq(Row) /\ Pending(s) \in Seq(Row)
            BY <1>4, <1>5
        <3>2. QED BY <3>1
    <2>3. QED BY <1>4, <1>5, <1>6, <2>1, <2>2
<1>8. \A k \in 1 .. Len(list) : rows'[k] = base[k] /\ fileList'[k] = list[k]
    <2>1. \A k \in 1 .. Len(list) : (list \o s)[k] = list[k]
        BY <1>1, <1>4
    <2>2. \A k \in 1 .. Len(base) : (base \o Pending(s))[k] = base[k]
        BY <1>4, <1>5
    <2>3. QED BY <1>4, <1>6, <2>1, <2>2
<1>9. \A k \in 1 .. Len(s) : rows'[Len(list) + k] = Pending(s)[k] /\ fileList'[Len(list) + k] = s[k]
    BY <1>1, <1>4, <1>5, <1>6
<1>10. ASSUME NEW k \in 1 .. Len(rows')
       PROVE  k \in 1 .. Len(list) \/ (k - Len(list) \in 1 .. Len(s) /\ Len(list) + (k - Len(list)) = k)
    BY <1>2, <1>4, <1>7
<1>11. \A k \in 1 .. Len(rows') : rows'[k].file = fileList'[k] /\ rows'[k].status = "Pending"
    <2>1. ASSUME NEW k \in 1 .. Len(list) PROVE rows'[k].file = fileList'[k] /\ rows'[k].status = "Pending"
        BY <1>4, <1>8
    <2>2. ASSUME NEW k \in 1 .. Len(s)
          PROVE  /\ rows'[Len(list) + k].file = fileList'[Len(list) + k]
                 /\ rows'[Len(list) + k].status = "Pending"
        BY <1>5, <1>9
    <2>3. ASSUME NEW k \in 1 .. Len(rows') PROVE rows'[k].file = fileList'[k] /\ rows'[k].status = "Pending"
        <3>1. CASE k \in 1 .. Len(list)
            BY <2>1, <3>1
        <3>2. CASE k - Len(list) \in 1 .. Len(s) /\ Len(list) + (k - Len(list)) = k
            BY <2>2, <3>2
        <3>3. QED BY <1>10, <3>1, <3>2
    <2>4. QED BY <2>3
<1>12. \A k \in 1 .. Len(rows') : rows'[k].file \in added'
    <2>1. \A k \in 1 .. Len(s) : s[k] \in Elements(s)
        BY <1>2 DEF Elements
    <2>2. \A k \in 1 .. Len(list) : rows'[k].file \in added'
        BY <1>4, <1>6, <1>8
    <2>3. \A k \in 1 .. Len(s) : rows'[Len(list) + k].file \in added'
        BY <1>5, <1>6, <1>9, <2>1
    <2>4. ASSUME NEW k \in 1 .. Len(rows') PROVE rows'[k].file \in added'
        <3>1. CASE k \in 1 .. Len(list)
            BY <2>2, <3>1
        <3>2. CASE k - Len(list) \in 1 .. Len(s) /\ Len(list) + (k - Len(list)) = k
            BY <2>3, <3>2
        <3>3. QED BY <1>10, <3>1, <3>2
    <2>5. QED BY <2>4
<1>13. ASSUME NEW k \in 1 .. Len(rows'), NEW l \in 1 .. Len(rows'), rows'[k].file = rows'[l].file
       PROVE  k = l
    <2>1. CASE k \in 1 .. Len(list) /\ l \in 1 .. Len(list)
        BY <1>4, <1>8, <1>13, <2>1
    <2>2. CASE k - Len(list) \in 1 .. Len(s) /\ l - Len(list) \in 1 .. Len(s)
        <3>1. Len(list) + (k - Len(list)) = k /\ Len(list) + (l - Len(list)) = l
            BY <1>4, <1>7
        <3>2. ASSUME NEW n \in 1 .. Len(s) PROVE rows'[Len(list) + n].file = s[n]
            BY <1>5, <1>9
        <3>3. rows'[k].file = s[k - Len(list)] /\ rows'[l].file = s[l - Len(list)]
            BY <2>2, <3>1, <3>2
        <3>4. k - Len(list) = l - Len(list)
            BY <1>2, <1>13, <2>2, <3>3
        <3>5. QED BY <3>1, <3>4
    <2>3. ASSUME NEW i \in 1 .. Len(list), NEW j \in 1 .. Len(rows'), j - Len(list) \in 1 .. Len(s)
          PROVE  rows'[i].file # rows'[j].file
        <3>1. Len(list) + (j - Len(list)) = j
            BY <1>4, <1>7
        <3>2. ASSUME NEW n \in 1 .. Len(s) PROVE rows'[Len(list) + n].file = s[n]
            BY <1>5, <1>9
        <3>3. rows'[j].file = s[j - Len(list)]
            BY <2>3, <3>1, <3>2
        <3>4. rows'[i].file \in added
            BY <1>4, <1>8
        <3>5. QED BY <1>2, <2>3, <3>3, <3>4
    <2>4. QED BY <1>10, <1>13, <2>1, <2>2, <2>3
<1>14. Begun' = 0
    <2>1. fileList' = <<>> => Len(fileList') = 0
        OBVIOUS
    <2>2. fileList' = <<>> => Len(rows') = 0
        BY <1>7, <2>1
    <2>3. QED BY <1>3, <2>2 DEF Begun
<1>15. TableInv'
    <2>1. \A k \in 1 .. Len(fileList') : 0 + k = k
        BY <1>2, <1>4, <1>7
    <2>2. \A k \in 1 .. 0 : FALSE
        OBVIOUS
    <2>3. Len(rows') = 0 + Len(fileList')
        BY <1>2, <1>4, <1>7
    <2>4. \A k \in 1 .. Len(fileList') :
             rows'[0 + k].file = fileList'[k] /\ rows'[0 + k].status = "Pending"
        BY <1>7, <1>11, <2>1
    <2>5. QED BY <1>12, <1>13, <1>14, <2>2, <2>3, <2>4 DEF TableInv
<1>16. JobInv'
    BY <1>3 DEF JobInv, Update
<1>17. summary'.text = "none" /\ summary' \in [text : {"none", "cancelled", "done"}, fails : Nat]
    <2>1. NoSummary.text = "none" /\ NoSummary \in [text : {"none", "cancelled", "done"}, fails : Nat]
        BY DEF NoSummary
    <2>2. fileList # <<>> => summary.text = "none"
        BY DEF CountInv
    <2>3. QED BY <2>1, <2>2 DEF PageTyped
<1>18. CountInv'
    BY <1>3, <1>17 DEF CountInv, SummaryCountsFailures
<1>19. PageTyped'
    <2>1. Elements(s) \subseteq Files
        BY <1>2 DEF Elements
    <2>2. QED BY <1>6, <1>7, <1>17, <2>1 DEF PageTyped, Update
<1>20. QED BY <1>11, <1>15, <1>16, <1>18, <1>19

\* Deleting takes out rows that wait, in the list and in the table alike.
LEMMA DeletedRows ==
    ASSUME PageOK, NEW S, DeleteSelection(S)
    PROVE  /\ fileList' \in Seq(Files) /\ rows' \in Seq(Row)
           /\ Elements(fileList') = Elements(fileList) \ S
           /\ Elements(rows') = {row \in Elements(rows) : row.file \notin S}
           /\ Len(rows') = Begun + Len(fileList')
           /\ \A k \in 1 .. Begun : rows'[k] = rows[k]
           /\ \A k \in 1 .. Len(fileList') :
                 rows'[Begun + k].file = fileList'[k] /\ rows'[Begun + k].status = "Pending"
           /\ \A k, l \in 1 .. Len(rows') : rows'[k].file = rows'[l].file => k = l
<1> USE DEF PageOK
<1> DEFINE R == {row \in Elements(rows) : row.file \in S}
<1> DEFINE F == [f \in Files |-> [file |-> f, status |-> "Pending"]]
<1> DEFINE d == [k \in 1 .. Begun |-> rows[k]]
<1>1. /\ fileList' = Without(fileList, S) /\ rows' = Without(rows, R)
      /\ S \subseteq Elements(fileList)
    BY DEF DeleteSelection
<1>2. /\ fileList \in Seq(Files) /\ rows \in Seq(Row) /\ Begun \in Nat /\ Len(rows) \in Nat
      /\ Len(fileList) \in Nat /\ Len(rows) = Begun + Len(fileList)
      /\ DOMAIN rows = 1 .. Len(rows) /\ DOMAIN fileList = 1 .. Len(fileList)
    BY RowsOf, Places DEF PageTyped
<1>3. F \in [Files -> Row] /\ \A f \in Files : F[f].file = f /\ F[f].status = "Pending"
    BY DEF Row
<1>4. d \in Seq(Row) /\ Len(d) = Begun /\ \A k \in 1 .. Begun : d[k] = rows[k]
    <2>1. \A k \in 1 .. Begun : rows[k] \in Row
        BY <1>2
    <2>2. QED BY <1>2, <2>1
<1>5. /\ Image(F, fileList) \in Seq(Row) /\ Len(Image(F, fileList)) = Len(fileList)
      /\ \A k \in 1 .. Len(fileList) : Image(F, fileList)[k] = F[fileList[k]]
    BY <1>2, <1>3 DEF Image
<1>6. \A k \in 1 .. Len(fileList) : F[fileList[k]] = rows[Begun + k]
    <2>1. ASSUME NEW k \in 1 .. Len(fileList) PROVE F[fileList[k]] = rows[Begun + k]
        <3>1. rows[Begun + k] \in Row /\ fileList[k] \in Files
            BY <1>2
        <3>2. rows[Begun + k].file = fileList[k] /\ rows[Begun + k].status = "Pending"
            BY DEF TableInv
        <3>3. QED BY <3>1, <3>2 DEF Row
    <2>2. QED BY <2>1
<1> HIDE DEF F, d
<1>7. rows = d \o Image(F, fileList)
    <2>1. /\ d \o Image(F, fileList) \in Seq(Row)
          /\ Len(d \o Image(F, fileList)) = Begun + Len(fileList)
          /\ \A k \in 1 .. Begun : (d \o Image(F, fileList))[k] = rows[k]
        BY <1>4, <1>5
    <2>2. \A k \in 1 .. Len(fileList) : (d \o Image(F, fileList))[Begun + k] = Image(F, fileList)[k]
        BY <1>2, <1>4, <1>5
    <2>3. ASSUME NEW k \in 1 .. Len(rows) PROVE (d \o Image(F, fileList))[k] = rows[k]
        <3>1. CASE k \in 1 .. Begun
            BY <2>1, <3>1
        <3>2. CASE k \notin 1 .. Begun
            <4>1. k - Begun \in 1 .. Len(fileList) /\ Begun + (k - Begun) = k
                BY <1>2, <3>2
            <4>2. QED BY <1>5, <1>6, <2>2, <4>1
        <3>3. QED BY <3>1, <3>2
    <2>4. QED BY <1>2, <2>1, <2>3, SeqEqual
<1>8. \A k \in 1 .. Len(d) : d[k] \notin R
    <2>1. ASSUME NEW k \in 1 .. Begun, rows[k].file \in S PROVE FALSE
        <3>1. PICK l \in 1 .. Len(fileList) : fileList[l] = rows[k].file
            BY <1>1, <1>2, <2>1 DEF Elements
        <3>2. rows[Begun + l].file = rows[k].file
            BY <3>1 DEF TableInv
        <3>3. k \in 1 .. Len(rows) /\ Begun + l \in 1 .. Len(rows) /\ k # Begun + l
            BY <1>2
        <3>4. QED BY <3>2, <3>3 DEF TableInv
    <2>2. QED BY <1>4, <2>1
<1>9. \A k \in 1 .. Len(fileList) : F[fileList[k]] \in R <=> fileList[k] \in S
    <2>1. ASSUME NEW k \in 1 .. Len(fileList)
          PROVE  F[fileList[k]] \in Elements(rows) /\ F[fileList[k]].file = fileList[k]
        <3>1. Begun + k \in DOMAIN rows
            BY <1>2
        <3>2. F[fileList[k]] \in Elements(rows)
            BY <1>6, <3>1 DEF Elements
        <3>3. QED BY <1>2, <1>3, <3>2
    <2>2. QED BY <2>1
<1> HIDE DEF R
<1>10. rows' = d \o Image(F, fileList')
    <2>1. PartsKept(d, F, fileList, R, S)
        BY <1>2, <1>3, <1>4, <1>8, <1>9, WithoutOfImage
    <2>2. Without(d \o Image(F, fileList), R) = d \o Image(F, Without(fileList, S))
        BY <2>1, Zenon DEF PartsKept
    <2>3. QED BY <1>1, <1>7, <2>2, Zenon
<1>11. /\ fileList' \in Seq(Files) /\ Elements(fileList') = Elements(fileList) \ S
       /\ rows' \in Seq(Row) /\ Elements(rows') = Elements(rows) \ R
    BY <1>1, <1>2, WithoutElements
<1>12. /\ Len(fileList') \in Nat /\ \A k \in 1 .. Len(fileList') : fileList'[k] \in Files
       /\ DOMAIN fileList' = 1 .. Len(fileList')
    BY <1>11
<1>13. /\ Image(F, fileList') \in Seq(Row) /\ Len(Image(F, fileList')) = Len(fileList')
       /\ \A k \in 1 .. Len(fileList') : Image(F, fileList')[k] = F[fileList'[k]]
    BY <1>3, <1>11, <1>12 DEF Image
<1>14. /\ Len(rows') = Begun + Len(fileList')
       /\ \A k \in 1 .. Begun : rows'[k] = rows[k]
       /\ \A k \in 1 .. Len(fileList') : rows'[Begun + k] = F[fileList'[k]]
    <2>1. Len(d \o Image(F, fileList')) = Begun + Len(fileList')
        BY <1>4, <1>13
    <2>2. \A k \in 1 .. Begun : (d \o Image(F, fileList'))[k] = rows[k]
        BY <1>4, <1>13
    <2>3. \A k \in 1 .. Len(fileList') : (d \o Image(F, fileList'))[Begun + k] = F[fileList'[k]]
        BY <1>2, <1>4, <1>12, <1>13
    <2>4. QED BY <1>10, <2>1, <2>2, <2>3
<1>15. Distinct(rows')
    <2>1. Distinct(rows)
        BY <1>2 DEF Distinct, TableInv
    <2>2. QED BY <1>1, <1>2, <2>1, WithoutDistinct
<1>16. ASSUME NEW k \in 1 .. Len(rows'), NEW l \in 1 .. Len(rows'), rows'[k].file = rows'[l].file
       PROVE  k = l
    <2>1. DOMAIN rows' = 1 .. Len(rows')
        BY <1>11
    <2>2. rows'[k] \in Elements(rows) /\ rows'[l] \in Elements(rows)
        BY <1>11, <2>1 DEF Elements
    <2>3. rows'[k] = rows'[l]
        BY <1>2, <1>16, <2>2 DEF Elements, TableInv
    <2>4. QED BY <1>15, <2>1, <2>3 DEF Distinct
<1>17. Elements(rows') = {row \in Elements(rows) : row.file \notin S}
    BY <1>11 DEF R
<1>18. QED
    BY <1>3, <1>11, <1>12, <1>14, <1>16, <1>17

\* Only rows that have begun can have failed.
LEMMA FailedRows ==
    ASSUME PageTyped, JobInv, TableInv
    PROVE  FilesThat("Failed") = {rows[k].file : k \in {n \in 1 .. Begun : rows[n].status = "Failed"}}
<1>1. DOMAIN rows = 1 .. Len(rows) /\ Len(rows) \in Nat /\ Len(fileList) \in Nat
    BY RowsOf
<1>2. \A k \in 1 .. Len(rows) : rows[k].status = "Failed" => k \in 1 .. Begun
    BY <1>1, Places
<1>3. \A k \in 1 .. Begun : k \in 1 .. Len(rows)
    BY <1>1, Places
<1>4. QED BY <1>1, <1>2, <1>3 DEF FilesThat

LEMMA DeleteStep ==
    ASSUME PageOK, NEW S, DeleteSelection(S)
    PROVE  PageOK'
<1> USE DEF PageOK
<1>1. /\ fileList' \in Seq(Files) /\ rows' \in Seq(Row)
      /\ Elements(rows') \subseteq Elements(rows)
      /\ Len(rows') = Begun + Len(fileList')
      /\ \A k \in 1 .. Begun : rows'[k] = rows[k]
      /\ \A k \in 1 .. Len(fileList') : rows'[Begun + k].file = fileList'[k] /\ rows'[Begun + k].status = "Pending"
      /\ \A k, l \in 1 .. Len(rows') : rows'[k].file = rows'[l].file => k = l
    BY DeletedRows
<1>2. /\ UNCHANGED <<added, uploaded, zone, cancelPendingTasksRequested, isConverting, job>>
      /\ submitButton' = (submitButton /\ fileList' # <<>>)
      /\ summary' = IF fileList' = <<>> THEN NoSummary ELSE summary
      /\ fileList # <<>>
    BY DEF DeleteSelection, Elements
<1>3. Running' = Running
    BY <1>2 DEF Running
<1>4. Begun' = Begun
    <2>1. CASE Running
        BY <1>2, <1>3, <2>1 DEF Begun
    <2>2. CASE ~Running
        <3>1. Begun = 0
            BY <1>2, <2>2 DEF Begun
        <3>2. fileList' = <<>> => Len(rows') = 0
            BY <1>1, <3>1
        <3>3. QED BY <1>3, <2>2, <3>1, <3>2 DEF Begun
    <2>3. QED BY <2>1, <2>2
<1>5. TableInv'
    <2>1. \A k \in 1 .. Len(rows') : rows'[k].file \in added'
        <3>1. DOMAIN rows' = 1 .. Len(rows') /\ DOMAIN rows = 1 .. Len(rows)
            BY <1>1, RowsOf
        <3>2. ASSUME NEW k \in 1 .. Len(rows') PROVE rows'[k].file \in added
            <4>1. rows'[k] \in Elements(rows)
                BY <1>1, <3>1 DEF Elements
            <4>2. PICK l \in 1 .. Len(rows) : rows'[k] = rows[l]
                BY <3>1, <4>1 DEF Elements
            <4>3. QED BY <4>2 DEF TableInv
        <3>3. QED BY <1>2, <3>2
    <2>2. \A k \in 1 .. Begun :
             IF Running' /\ k = Begun THEN rows'[k].file = job'.file /\ rows'[k].status = "InProgress"
                                      ELSE rows'[k].status \in Outcomes
        BY <1>1, <1>2, <1>3 DEF TableInv
    <2>3. QED BY <1>1, <1>4, <2>1, <2>2 DEF TableInv
<1>6. JobInv'
    BY <1>2, <1>3 DEF JobInv
<1>7. PageTyped'
    <2>1. NoSummary \in [text : {"none", "cancelled", "done"}, fails : Nat]
        BY DEF NoSummary
    <2>2. bar' \in BOOLEAN /\ cancelButton' \in BOOLEAN /\ submitButton' \in BOOLEAN
        BY DEF DeleteSelection, PageTyped
    <2>3. QED BY <1>1, <1>2, <2>1, <2>2 DEF PageTyped
<1>8. CountInv'
    <2>1. ~Running => summary'.text = "none"
        BY <1>2 DEF CountInv, NoSummary
    <2>2. Running => summary'.text = "none"
        BY <1>2 DEF CountInv, NoSummary
    <2>3. FilesThat("Failed")' = FilesThat("Failed")
        <3>1. FilesThat("Failed") = {rows[k].file : k \in {n \in 1 .. Begun : rows[n].status = "Failed"}}
            BY FailedRows
        <3>2. DOMAIN rows' = 1 .. Len(rows') /\ Begun \in Nat /\ Len(fileList') \in Nat
            BY <1>1, Places
        <3>3. ASSUME NEW k \in 1 .. Len(rows'), rows'[k].status = "Failed" PROVE k \in 1 .. Begun
            <4>1. CASE k > Begun
                <5>1. k - Begun \in 1 .. Len(fileList') /\ Begun + (k - Begun) = k
                    BY <1>1, <3>2, <4>1
                <5>2. QED BY <1>1, <3>3, <5>1
            <4>2. CASE ~ (k > Begun)
                BY <3>2, <4>2
            <4>3. QED BY <4>1, <4>2
        <3>4. \A k \in 1 .. Begun : k \in 1 .. Len(rows')
            BY <1>1, <3>2
        <3>5. FilesThat("Failed")' = {rows'[k].file : k \in {n \in 1 .. Begun : rows'[n].status = "Failed"}}
            BY <3>2, <3>3, <3>4 DEF FilesThat
        <3>6. {n \in 1 .. Begun : rows'[n].status = "Failed"} = {n \in 1 .. Begun : rows[n].status = "Failed"}
            BY <1>1
        <3>7. \A k \in {n \in 1 .. Begun : rows[n].status = "Failed"} : rows'[k].file = rows[k].file
            BY <1>1
        <3>8. QED BY <3>1, <3>5, <3>6, <3>7
    <2>4. QED BY <1>2, <1>3, <2>1, <2>2, <2>3 DEF CountInv, SummaryCountsFailures
<1>9. QED BY <1>5, <1>6, <1>7, <1>8

\* Steps that change neither the list, nor the table, nor what the batch has counted.
LEMMA QuietStep ==
    ASSUME PageOK, PageTyped', JobInv', Running' = Running,
           job'.idx = job.idx, job'.fails = job.fails, job'.file = job.file,
           UNCHANGED <<fileList, rows, added, summary>>
    PROVE  PageOK'
<1>1. Begun' = Begun
    BY DEF Begun
<1>2. TableInv'
    BY <1>1 DEF PageOK, TableInv
<1>3. FilesThat("Failed")' = FilesThat("Failed")
    BY DEF FilesThat
<1>4. CountInv'
    BY <1>3 DEF PageOK, CountInv, SummaryCountsFailures
<1>5. QED BY <1>2, <1>4 DEF PageOK

LEMMA CancelStep ==
    ASSUME PageOK, CancelPendingTasks
    PROVE  PageOK'
<1>1. PageTyped' /\ JobInv' /\ Running' = Running
    BY DEF PageOK, CancelPendingTasks, PageTyped, JobInv, Running
<1>2. QED BY <1>1, QuietStep DEF CancelPendingTasks

LEMMA AwaitStep ==
    ASSUME PageOK, NEW l \in {"fetch", "body", "stream", "lost"}, Running, Await(l),
           UNCHANGED pageRest, uploaded' \subseteq added'
    PROVE  PageOK'
<1>1. job' = [job EXCEPT !.step = l] /\ job \in Job
    BY DEF PageOK, PageTyped, Await
<1>2. /\ job' \in Job /\ job'.step = l
      /\ job'.idx = job.idx /\ job'.fails = job.fails /\ job'.file = job.file
    BY <1>1 DEF Job
<1>3. Running'
    BY <1>2 DEF Running
<1>4. PageTyped' /\ JobInv'
    BY <1>2, <1>3 DEF PageOK, PageTyped, JobInv, Await, pageRest
<1>5. QED BY <1>2, <1>3, <1>4, QuietStep DEF Await, pageRest

\* The next file begins, after the rows before it have their outcomes in table.
LEMMA NextFile ==
    ASSUME PageOK, fileList # <<>>, NEW table \in Seq(Row), Len(table) = Len(rows),
           \A k \in 1 .. Len(rows) : table[k].file = rows[k].file,
           \A k \in 1 .. Len(rows) : k > Begun => table[k].status = rows[k].status,
           \A k \in 1 .. Begun : table[k].status \in Outcomes,
           NEW fails \in Nat,
           fileList' = Tail(fileList), rows' = WithStatus(table, Head(fileList), "InProgress"),
           job' = [step |-> "fetch", idx |-> Begun, fails |-> fails, file |-> Head(fileList)],
           UNCHANGED added
    PROVE  /\ fileList' \in Seq(Files) /\ rows' \in Seq(Row) /\ job' \in Job /\ Head(fileList) \in Files
           /\ Running' /\ Begun' = Begun + 1 /\ TableInv'
           /\ FilesThat("Failed")' = {table[k].file : k \in {n \in 1 .. Begun : table[n].status = "Failed"}}
<1> USE DEF PageOK
<1>1. /\ Len(rows) \in Nat /\ Len(fileList) \in Nat /\ Begun \in Nat
      /\ Len(rows) = Begun + Len(fileList) /\ fileList \in Seq(Files)
    BY RowsOf, Places DEF PageTyped
<1>2. /\ Len(fileList) >= 1 /\ Head(fileList) = fileList[1] /\ Head(fileList) \in Files
      /\ fileList' \in Seq(Files) /\ Len(fileList') = Len(fileList) - 1
      /\ \A k \in 1 .. Len(fileList) - 1 : fileList'[k] = fileList[k + 1]
    BY <1>1
<1>3. /\ Begun + 1 \in 1 .. Len(rows) /\ rows[Begun + 1].file = Head(fileList)
      /\ \A k \in 1 .. Len(rows) : rows[k].file = Head(fileList) <=> k = Begun + 1
    <2>1. Begun + 1 \in 1 .. Len(rows) /\ 1 \in 1 .. Len(fileList)
        BY <1>1, <1>2
    <2>2. rows[Begun + 1].file = Head(fileList)
        BY <1>2, <2>1 DEF TableInv
    <2>3. QED BY <2>1, <2>2 DEF TableInv
<1>4. /\ rows' \in Seq(Row) /\ Len(rows') = Len(rows)
      /\ \A k \in 1 .. Len(rows) :
            /\ rows'[k].file = rows[k].file
            /\ rows'[k].status = IF k = Begun + 1 THEN "InProgress" ELSE table[k].status
    <2>1. "InProgress" \in Statuses
        BY DEF Statuses
    <2>2. /\ rows' \in Seq(Row) /\ Len(rows') = Len(table)
          /\ \A k \in 1 .. Len(table) :
                /\ rows'[k].file = table[k].file
                /\ rows'[k].status = IF table[k].file = Head(fileList) THEN "InProgress" ELSE table[k].status
        BY <2>1, WithStatusRows
    <2>3. QED BY <1>3, <2>2
<1>5. job' \in Job /\ job'.step = "fetch" /\ job'.idx = Begun /\ job'.file = Head(fileList)
    BY <1>1, <1>2 DEF Job
<1>6. Running' /\ Begun' = Begun + 1
    BY <1>5 DEF Running, Begun
<1>7. TableInv'
    <2>1. /\ Len(rows) \in Nat /\ Len(fileList) \in Nat /\ Begun \in Nat
          /\ Len(rows') = Begun + Len(fileList) /\ Len(fileList') = Len(fileList) - 1 /\ Begun' = Begun + 1
          /\ Len(rows') = Len(rows)
        <3>1. Len(fileList') = Len(fileList) - 1
            BY <1>2
        <3>2. Len(rows') = Len(rows)
            BY <1>4
        <3>3. QED BY <1>1, <1>6, <3>1, <3>2
    <2>2. Len(rows') = Begun' + Len(fileList')
        <3>1. (Begun + 1) + (Len(fileList) - 1) = Begun + Len(fileList)
            BY <2>1
        <3>2. QED BY <2>1, <3>1, Zenon
    <2>3. ASSUME NEW k \in 1 .. Len(fileList')
          PROVE  rows'[Begun' + k].file = fileList'[k] /\ rows'[Begun' + k].status = "Pending"
        <3>1. /\ k + 1 \in 1 .. Len(fileList) /\ Begun' + k = Begun + (k + 1)
              /\ Begun + (k + 1) \in 1 .. Len(rows) /\ Begun + (k + 1) > Begun
              /\ Begun + (k + 1) # Begun + 1 /\ k \in 1 .. Len(fileList) - 1
            <4>1. k \in 1 .. Len(fileList) - 1
                BY <2>1, Zenon
            <4>2. (Begun + 1) + k = Begun + (k + 1)
                BY <2>1, <4>1
            <4>3. /\ k + 1 \in 1 .. Len(fileList) /\ Begun + (k + 1) > Begun /\ Begun + (k + 1) # Begun + 1
                BY <2>1, <4>1
            <4>4. Begun + (k + 1) \in 1 .. (Begun + Len(fileList))
                BY <2>1, <4>1
            <4>5. QED BY <2>1, <4>1, <4>2, <4>3, <4>4, Zenon
        <3>2. rows[Begun + (k + 1)].file = fileList[k + 1] /\ rows[Begun + (k + 1)].status = "Pending"
            BY <3>1 DEF TableInv
        <3>3. table[Begun + (k + 1)].status = "Pending"
            BY <3>1, <3>2
        <3>4. fileList'[k] = fileList[k + 1]
            BY <1>2, <3>1
        <3>5. QED BY <1>4, <3>1, <3>2, <3>3, <3>4
    <2>4. ASSUME NEW k \in 1 .. Begun'
          PROVE  IF Running' /\ k = Begun' THEN rows'[k].file = job'.file /\ rows'[k].status = "InProgress"
                                           ELSE rows'[k].status \in Outcomes
        <3>1. CASE k = Begun'
            BY <1>3, <1>4, <1>5, <1>6, <3>1
        <3>2. CASE k # Begun'
            <4>1. k \in 1 .. Begun /\ k \in 1 .. Len(rows) /\ k # Begun + 1
                BY <2>1, <3>2
            <4>2. QED BY <1>4, <3>2, <4>1
        <3>3. QED BY <3>1, <3>2
    <2>5. \A k, l \in 1 .. Len(rows') : rows'[k].file = rows'[l].file => k = l
        BY <1>4 DEF TableInv
    <2>6. \A k \in 1 .. Len(rows') : rows'[k].file \in added'
        BY <1>4 DEF TableInv
    <2>7. QED BY <2>2, <2>3, <2>4, <2>5, <2>6 DEF TableInv
<1>8. FilesThat("Failed")' = {table[k].file : k \in {n \in 1 .. Begun : table[n].status = "Failed"}}
    <2>1. DOMAIN rows' = 1 .. Len(rows)
        BY <1>4
    <2>2. ASSUME NEW k \in 1 .. Len(rows)
          PROVE  rows'[k].status = "Failed" <=> k \in 1 .. Begun /\ table[k].status = "Failed"
        <3>1. CASE k \in 1 .. Begun
            <4>1. k # Begun + 1
                BY <1>1, <3>1
            <4>2. QED BY <1>4, <3>1, <4>1
        <3>2. CASE k \notin 1 .. Begun
            <4>1. k > Begun
                BY <1>1, <3>2
            <4>2. rows[k].status = "Pending"
                BY <4>1, Places
            <4>3. QED BY <1>4, <3>2, <4>1, <4>2
        <3>3. QED BY <3>1, <3>2
    <2>3. {n \in DOMAIN rows' : rows'[n].status = "Failed"} = {n \in 1 .. Begun : table[n].status = "Failed"}
        <3>1. \A n \in 1 .. Begun : n \in 1 .. Len(rows)
            BY <1>1
        <3>2. QED BY <2>1, <2>2, <3>1
    <2>4. \A k \in {n \in 1 .. Begun : table[n].status = "Failed"} : rows'[k].file = table[k].file
        <3>1. \A n \in 1 .. Begun : n \in 1 .. Len(rows)
            BY <1>1
        <3>2. QED BY <1>4, <3>1
    <2>5. QED BY <2>3, <2>4 DEF FilesThat
<1>9. QED BY <1>2, <1>4, <1>5, <1>6, <1>7, <1>8

LEMMA SubmitStep ==
    ASSUME PageOK, SubmitForm
    PROVE  PageOK'
<1> USE DEF PageOK
<1>1. ~Running /\ job = NoJob
    BY DEF JobInv, SubmitForm
<1>2. UNCHANGED <<added, uploaded, cancelButton, cancelPendingTasksRequested, summary>>
    BY DEF SubmitForm
<1>3. CASE fileList = <<>>
    <2>1. UNCHANGED <<fileList, rows, job>>
        BY <1>3 DEF SubmitForm
    <2>2. Running' = Running
        BY <2>1 DEF Running
    <2>3. PageTyped' /\ JobInv'
        BY <1>1, <1>2, <1>3, <2>1, <2>2 DEF SubmitForm, PageTyped, JobInv
    <2>4. QED BY <1>2, <2>1, <2>2, <2>3, QuietStep
<1>4. CASE fileList # <<>>
    <2>1. Begun = 0
        BY <1>1, <1>4 DEF Begun
    <2>2. rows \in Seq(Row)
        BY DEF PageTyped
    <2>3. /\ fileList' = Tail(fileList) /\ rows' = WithStatus(rows, Head(fileList), "InProgress")
          /\ job' = [step |-> "fetch", idx |-> Begun, fails |-> 0, file |-> Head(fileList)]
        BY <1>4, <2>1 DEF SubmitForm
    <2>4. \A k \in 1 .. Begun : FALSE
        BY <2>1
    <2>5. 0 \in Nat
        OBVIOUS
    <2>6. /\ fileList' \in Seq(Files) /\ rows' \in Seq(Row) /\ job' \in Job /\ Head(fileList) \in Files
          /\ Running' /\ TableInv'
          /\ FilesThat("Failed")' = {rows[k].file : k \in {n \in 1 .. Begun : rows[n].status = "Failed"}}
        BY <1>2, <1>4, <2>2, <2>3, <2>4, <2>5, NextFile
    <2>7. FilesThat("Failed")' = {}
        BY <2>4, <2>6
    <2>8. job'.fails = 0 /\ job'.idx = 0 /\ job'.file = Head(fileList)
        BY <2>1, <2>3
    <2>9. summary'.text = "none"
        BY <1>2, <1>4 DEF CountInv
    <2>10. CountInv'
        <3>1. Cardinality({}) = 0
            BY FS_EmptySet
        <3>2. QED BY <2>7, <2>8, <2>9, <3>1 DEF CountInv, SummaryCountsFailures
    <2>11. JobInv'
        BY <2>6, <2>8 DEF JobInv, SubmitForm
    <2>12. PageTyped'
        BY <1>2, <1>4, <2>6 DEF PageTyped, SubmitForm
    <2>13. QED BY <2>6, <2>10, <2>11, <2>12
<1>5. QED BY <1>3, <1>4

\* The row in progress gets its outcome, and the count of the failures follows.
LEMMA OutcomeRows ==
    ASSUME PageOK, Running, NEW status \in {"Succeeded", "Failed"}
    PROVE  LET table == WithStatus(rows, job.file, status)
               failed == {table[k].file : k \in {n \in 1 .. Begun : table[n].status = "Failed"}}
           IN  /\ table \in Seq(Row) /\ Len(table) = Len(rows)
               /\ \A k \in 1 .. Len(rows) :
                     /\ table[k].file = rows[k].file
                     /\ table[k].status = IF k = Begun THEN status ELSE rows[k].status
               /\ \A k \in 1 .. Begun : table[k].status \in Outcomes
               /\ NewFailCount(status) \in Nat /\ NewFailCount(status) <= Begun
               /\ NewFailCount(status) = Cardinality(failed)
<1> USE DEF PageOK
<1> DEFINE table == WithStatus(rows, job.file, status)
<1> DEFINE failed == {table[k].file : k \in {n \in 1 .. Begun : table[n].status = "Failed"}}
<1>1. /\ Len(rows) \in Nat /\ Begun \in Nat /\ Begun \in 1 .. Len(rows) /\ Begun = job.idx + 1
      /\ \A k \in 1 .. Len(rows) : rows[k].file = job.file <=> k = Begun
      /\ rows[Begun].status = "InProgress" /\ rows \in Seq(Row)
    BY RowsOf, Places DEF PageTyped
<1>2. /\ table \in Seq(Row) /\ Len(table) = Len(rows)
      /\ \A k \in 1 .. Len(rows) :
            /\ table[k].file = rows[k].file
            /\ table[k].status = IF k = Begun THEN status ELSE rows[k].status
    <2>1. status \in Statuses
        BY DEF Statuses, Outcomes
    <2>2. /\ table \in Seq(Row) /\ Len(table) = Len(rows)
          /\ \A k \in 1 .. Len(rows) :
                /\ table[k].file = rows[k].file
                /\ table[k].status = IF rows[k].file = job.file THEN status ELSE rows[k].status
        BY <1>1, <2>1, WithStatusRows
    <2>3. QED BY <1>1, <2>2
<1> HIDE DEF table
<1>3. \A k \in 1 .. Begun : k \in 1 .. Len(rows)
    BY <1>1
<1>4. \A k \in 1 .. Begun : table[k].status \in Outcomes
    <2>1. \A k \in 1 .. Begun : k # Begun => rows[k].status \in Outcomes
        BY DEF TableInv
    <2>2. QED BY <1>2, <1>3, <2>1 DEF Outcomes
<1>5. job.fails = Cardinality(FilesThat("Failed")) /\ job.fails <= job.idx /\ job.fails \in Nat /\ job.idx \in Nat
    BY DEF CountInv, PageTyped, Job
<1>6. NewFailCount(status) \in Nat /\ NewFailCount(status) <= Begun
    BY <1>1, <1>5 DEF NewFailCount
<1>7. FilesThat("Failed") = {rows[k].file : k \in {n \in 1 .. Begun : rows[n].status = "Failed"}}
    BY FailedRows
<1>8. failed = IF status = "Failed" THEN FilesThat("Failed") \cup {job.file} ELSE FilesThat("Failed")
    <2>1. \A k \in 1 .. Begun : k # Begun => (table[k].status = "Failed" <=> rows[k].status = "Failed")
        BY <1>2, <1>3
    <2>2. table[Begun].status = status /\ rows[Begun].status # "Failed" /\ table[Begun].file = job.file
        BY <1>1, <1>2
    <2>3. \A k \in 1 .. Begun : table[k].file = rows[k].file
        BY <1>2, <1>3
    <2>4. Begun \in 1 .. Begun
        BY <1>1
    <2>5. CASE status = "Failed"
        <3>1. {n \in 1 .. Begun : table[n].status = "Failed"}
                 = {n \in 1 .. Begun : rows[n].status = "Failed"} \cup {Begun}
            BY <2>1, <2>2, <2>4, <2>5
        <3>2. QED BY <1>7, <2>2, <2>3, <2>4, <2>5, <3>1
    <2>6. CASE status # "Failed"
        <3>1. {n \in 1 .. Begun : table[n].status = "Failed"} = {n \in 1 .. Begun : rows[n].status = "Failed"}
            BY <2>1, <2>2, <2>6
        <3>2. QED BY <1>7, <2>3, <2>6, <3>1
    <2>7. QED BY <2>5, <2>6
<1>9. NewFailCount(status) = Cardinality(failed)
    <2>1. \A k \in 1 .. Begun : rows[k].file \in Files
        BY <1>3, RowsOf
    <2>2. FilesThat("Failed") \subseteq Files
        BY <1>7, <2>1
    <2>3. IsFiniteSet(FilesThat("Failed"))
        BY <2>2, SelectionsAssumption, FS_Subset
    <2>4. job.file \notin FilesThat("Failed")
        BY <1>1, <1>3, <1>7
    <2>5. Cardinality(FilesThat("Failed") \cup {job.file}) = Cardinality(FilesThat("Failed")) + 1
        BY <2>3, <2>4, FS_AddElement
    <2>6. QED BY <1>5, <1>8, <2>5 DEF NewFailCount
<1>10. QED BY <1>2, <1>4, <1>6, <1>9 DEF table

LEMMA CompleteStep ==
    ASSUME PageOK, Running, NEW status \in {"Succeeded", "Failed"}, Complete(status),
           UNCHANGED pageRest, uploaded' \subseteq added'
    PROVE  PageOK'
<1> USE DEF PageOK
<1> DEFINE table == WithStatus(rows, job.file, status)
<1> DEFINE failed == {table[k].file : k \in {n \in 1 .. Begun : table[n].status = "Failed"}}
<1> DEFINE fails == NewFailCount(status)
<1>1. /\ table \in Seq(Row) /\ Len(table) = Len(rows)
      /\ \A k \in 1 .. Len(rows) :
            /\ table[k].file = rows[k].file
            /\ table[k].status = IF k = Begun THEN status ELSE rows[k].status
      /\ \A k \in 1 .. Begun : table[k].status \in Outcomes
      /\ fails \in Nat /\ fails <= Begun
      /\ fails = Cardinality(failed)
    BY OutcomeRows
<1>2. /\ Begun \in Nat /\ Begun \in 1 .. Len(rows) /\ Begun = job.idx + 1 /\ Len(rows) \in Nat
      /\ Len(rows) = Begun + Len(fileList) /\ job.idx \in Nat
    BY RowsOf, Places
<1>3. UNCHANGED <<added, submitButton, bar, isConverting>>
    BY DEF pageRest
<1>4. CASE /\ fileList # <<>> /\ ~cancelPendingTasksRequested
           /\ fileList' = Tail(fileList)
           /\ rows' = WithStatus(table, Head(fileList), "InProgress")
           /\ job' = [step |-> "fetch", idx |-> job.idx + 1, fails |-> fails, file |-> Head(fileList)]
           /\ UNCHANGED <<zone, cancelButton, cancelPendingTasksRequested, summary>>
    <2>1. \A k \in 1 .. Len(rows) : k > Begun => table[k].status = rows[k].status
        BY <1>1, <1>2
    <2>2. /\ fileList' \in Seq(Files) /\ rows' \in Seq(Row) /\ job' \in Job /\ Head(fileList) \in Files
          /\ Running' /\ Begun' = Begun + 1 /\ TableInv'
          /\ FilesThat("Failed")' = failed
        <3> HIDE DEF table, fails
        <3>1. job' = [step |-> "fetch", idx |-> Begun, fails |-> fails, file |-> Head(fileList)]
            BY <1>2, <1>4
        <3>2. QED BY <1>1, <1>3, <1>4, <2>1, <3>1, NextFile
    <2>3. job'.fails = fails /\ job'.idx = Begun /\ job'.file = Head(fileList)
        BY <1>2, <1>4
    <2> HIDE DEF table, fails, failed
    <2>4. CountInv'
        BY <1>1, <1>4, <2>2, <2>3 DEF CountInv, SummaryCountsFailures
    <2>5. JobInv'
        BY <1>3, <1>4, <2>2, <2>3 DEF JobInv
    <2>6. PageTyped'
        BY <1>3, <1>4, <2>2 DEF PageTyped
    <2>7. QED BY <2>2, <2>4, <2>5, <2>6
<1>5. CASE /\ fileList = <<>> \/ cancelPendingTasksRequested
           /\ rows' = IF cancelPendingTasksRequested THEN CancelRowsAfter(table, job.idx) ELSE table
           /\ fileList' = <<>>
           /\ summary' = IF cancelPendingTasksRequested THEN [text |-> "cancelled", fails |-> 0]
                                                        ELSE [text |-> "done", fails |-> fails]
           /\ zone' = TRUE
           /\ cancelButton' = FALSE
           /\ cancelPendingTasksRequested' = FALSE
           /\ job' = NoJob
    <2>1. /\ rows' \in Seq(Row) /\ Len(rows') = Len(rows)
          /\ \A k \in 1 .. Len(rows) : rows'[k].file = rows[k].file
          /\ \A k \in 1 .. Len(rows) :
                rows'[k].status = IF k > Begun THEN "Cancelled" ELSE table[k].status
        <3> HIDE DEF table
        <3>1. CASE cancelPendingTasksRequested
            <4>1. rows' = CancelRowsAfter(table, job.idx)
                BY <1>5, <3>1
            <4>2. /\ rows' \in Seq(Row) /\ Len(rows') = Len(table)
                  /\ \A k \in 1 .. Len(table) :
                        /\ rows'[k].file = table[k].file
                        /\ rows'[k].status = IF k > job.idx + 1 THEN "Cancelled" ELSE table[k].status
                BY <1>1, <1>2, <4>1, CancelledRows
            <4>3. QED BY <1>1, <1>2, <4>2
        <3>2. CASE ~cancelPendingTasksRequested
            <4>1. rows' = table /\ Len(fileList) = 0
                BY <1>5, <3>2
            <4>2. \A k \in 1 .. Len(rows) : ~ (k > Begun)
                BY <1>2, <4>1
            <4>3. QED BY <1>1, <4>1, <4>2
        <3>3. QED BY <3>1, <3>2
    <2> HIDE DEF table, fails
    <2>2. ~Running' /\ Begun' = Len(rows) /\ Len(fileList') = 0
        BY <1>5, <2>1 DEF Running, Begun, NoJob
    <2>3. \A k \in 1 .. Len(rows) : rows'[k].status \in Outcomes
        <3>1. \A k \in 1 .. Len(rows) : ~ (k > Begun) => k \in 1 .. Begun
            BY <1>2
        <3>2. "Cancelled" \in Outcomes
            BY DEF Outcomes
        <3>3. QED BY <1>1, <2>1, <3>1, <3>2
    <2>4. TableInv'
        <3>1. Len(rows') = Begun' + Len(fileList')
            BY <1>2, <2>1, <2>2
        <3>2. \A k \in 1 .. Len(fileList') : FALSE
            BY <2>2
        <3>3. \A k \in 1 .. Len(rows') : rows'[k].file \in added'
            BY <1>3, <2>1 DEF TableInv
        <3>4. \A k, l \in 1 .. Len(rows') : rows'[k].file = rows'[l].file => k = l
            BY <2>1 DEF TableInv
        <3>5. QED BY <2>2, <2>3, <3>1, <3>2, <3>3, <3>4 DEF TableInv
    <2>5. summary' \in [text : {"none", "cancelled", "done"}, fails : Nat]
        BY <1>1, <1>5
    <2>6. FilesThat("Failed")' = failed
        <3>1. \A k \in 1 .. Len(rows) : k > Begun => rows'[k].status # "Failed"
            BY <2>1
        <3>2. \A k \in 1 .. Len(rows) : k > Begun \/ k \in 1 .. Begun
            BY <1>2
        <3>3. \A k \in 1 .. Begun : k \in 1 .. Len(rows) /\ ~ (k > Begun)
            BY <1>2
        <3>4. {n \in 1 .. Len(rows) : rows'[n].status = "Failed"} = {n \in 1 .. Begun : table[n].status = "Failed"}
            BY <2>1, <3>1, <3>2, <3>3
        <3>5. \A k \in {n \in 1 .. Begun : table[n].status = "Failed"} : rows'[k].file = table[k].file
            BY <1>1, <2>1, <3>3
        <3>6. DOMAIN rows' = 1 .. Len(rows)
            BY <2>1
        <3>7. QED BY <3>4, <3>5, <3>6 DEF FilesThat
    <2> HIDE DEF failed
    <2>7. CountInv'
        BY <1>1, <1>5, <2>2, <2>6 DEF CountInv, SummaryCountsFailures
    <2>8. JobInv'
        BY <1>5, <2>2 DEF JobInv
    <2>9. PageTyped'
        <3>1. NoJob \in Job /\ <<>> \in Seq(Files)
            BY DEF Job, NoJob
        <3>2. QED BY <1>3, <1>5, <2>1, <2>5, <3>1 DEF PageTyped
    <2>10. QED BY <2>4, <2>7, <2>8, <2>9
<1>6. QED BY <1>4, <1>5 DEF Complete

-----------------------------------------------------------------------------
(* The steps of the feeds and the streams.                                 *)

FeedOK == FeedTyped /\ FeedInv

LEMMA PublishStep ==
    ASSUME FeedOK, NEW r \in Requests, Publish(r)
    PROVE  /\ FeedOK'
           /\ UNCHANGED <<follows, got, handed>>
           /\ \A q \in Requests : Ended(feed[q]) => feed'[q] = feed[q]
<1> USE DEF FeedOK
<1>1. PICK e \in Events : feed' = [feed EXCEPT ![r] = Append(@, [event |-> e, id |-> Len(feed[r]) + 1])]
    BY DEF Publish
<1>2. UNCHANGED <<follows, got, handed>> /\ ~Ended(feed[r])
    BY DEF Publish
<1>3. feed \in [Requests -> Seq(Note)]
    BY DEF FeedTyped
<1> DEFINE note == [event |-> e, id |-> Len(feed[r]) + 1]
<1>4. feed[r] \in Seq(Note) /\ note \in Note
    <2>1. feed[r] \in Seq(Note)
        BY <1>3
    <2>2. Len(feed[r]) + 1 \in Nat
        BY <2>1
    <2>3. QED BY <2>1, <2>2 DEF Note
<1> HIDE DEF note
<1>5. /\ feed'[r] = Append(feed[r], note)
      /\ \A q \in Requests : q # r => feed'[q] = feed[q]
      /\ feed' \in [Requests -> Seq(Note)]
    <2>1. feed' = [feed EXCEPT ![r] = Append(feed[r], note)]
        BY <1>1 DEF note
    <2>2. Append(feed[r], note) \in Seq(Note)
        BY <1>4
    <2>3. QED BY <1>3, <2>1, <2>2
<1>6. /\ Len(feed[r]) \in Nat /\ Len(feed'[r]) = Len(feed[r]) + 1
      /\ \A k \in 1 .. Len(feed[r]) : feed'[r][k] = feed[r][k]
    BY <1>4, <1>5
<1>7. \A k \in 1 .. Len(feed[r]) : feed[r][k].event = "processing_update"
    <2>1. ASSUME NEW k \in 1 .. Len(feed[r]) PROVE feed[r][k].event = "processing_update"
        <3>1. CASE k \in 1 .. Len(feed[r]) - 1
            BY <3>1 DEF FeedInv
        <3>2. CASE k = Len(feed[r])
            <4>1. feed[r] # <<>>
                BY <1>4, <2>1
            <4>2. QED BY <1>2, <3>2, <4>1 DEF Ended, Last
        <3>3. QED BY <1>6, <3>1, <3>2
    <2>2. QED BY <2>1
<1>8. \A q \in Requests : \A k \in 1 .. Len(feed'[q]) - 1 : feed'[q][k].event = "processing_update"
    <2>1. ASSUME NEW k \in 1 .. Len(feed'[r]) - 1 PROVE feed'[r][k].event = "processing_update"
        <3>1. k \in 1 .. Len(feed[r])
            BY <1>6
        <3>2. QED BY <1>6, <1>7, <3>1
    <2>2. ASSUME NEW q \in Requests, q # r, NEW k \in 1 .. Len(feed'[q]) - 1
          PROVE  feed'[q][k].event = "processing_update"
        BY <1>5, <2>2 DEF FeedInv
    <2>3. QED BY <2>1, <2>2
<1>9. ASSUME NEW s \in Requests
      PROVE  IF follows'[s] = NoRequest THEN got'[s] = <<>>
             ELSE /\ Len(got'[s]) <= Len(feed'[follows'[s]])
                  /\ \A k \in 1 .. Len(got'[s]) : got'[s][k] = feed'[follows'[s]][k]
    <2>1. follows'[s] = follows[s] /\ got'[s] = got[s]
        BY <1>2
    <2>2. CASE follows[s] = NoRequest
        BY <2>1, <2>2 DEF FeedInv
    <2>3. CASE follows[s] = r /\ follows[s] # NoRequest
        <3>1. /\ Len(got[s]) <= Len(feed[r]) /\ Len(got[s]) \in Nat
              /\ \A k \in 1 .. Len(got[s]) : got[s][k] = feed[r][k]
            BY <2>3 DEF FeedInv, FeedTyped
        <3>2. \A k \in 1 .. Len(got[s]) : k \in 1 .. Len(feed[r])
            BY <1>6, <3>1
        <3>3. Len(got[s]) <= Len(feed'[r])
            BY <1>6, <3>1
        <3>4. QED BY <1>6, <2>1, <2>3, <3>1, <3>2, <3>3
    <2>4. CASE follows[s] # r /\ follows[s] # NoRequest
        <3>1. follows[s] \in Requests
            BY <2>4 DEF FeedTyped
        <3>2. feed'[follows[s]] = feed[follows[s]]
            BY <1>5, <2>4, <3>1
        <3>3. /\ Len(got[s]) <= Len(feed[follows[s]])
              /\ \A k \in 1 .. Len(got[s]) : got[s][k] = feed[follows[s]][k]
            BY <2>4 DEF FeedInv
        <3>4. QED BY <2>1, <2>4, <3>2, <3>3
    <2>5. QED BY <2>2, <2>3, <2>4
<1>10. QED BY <1>2, <1>5, <1>8, <1>9 DEF FeedTyped, FeedInv

LEMMA FollowStep ==
    ASSUME FeedOK, NEW s \in Requests, Follow(s, s)
    PROVE  /\ FeedOK' /\ UNCHANGED <<feed, got, handed>>
           /\ follows'[s] = s /\ got[s] = <<>>
           /\ \A t \in Requests : t # s => follows'[t] = follows[t]
<1> USE DEF FeedOK
<1>1. UNCHANGED <<feed, got, handed>> /\ follows' = [follows EXCEPT ![s] = s] /\ follows[s] = NoRequest
    BY DEF Follow
<1>2. /\ follows' \in [Requests -> Requests \cup {NoRequest}] /\ follows'[s] = s
      /\ \A t \in Requests : t # s => follows'[t] = follows[t]
    BY <1>1 DEF FeedTyped
<1>3. got[s] = <<>>
    BY <1>1 DEF FeedInv
<1>4. FeedInv'
    <2>1. \A r \in Requests : \A k \in 1 .. Len(feed'[r]) - 1 : feed'[r][k].event = "processing_update"
        BY <1>1 DEF FeedInv
    <2>2. ASSUME NEW t \in Requests
          PROVE  IF follows'[t] = NoRequest THEN got'[t] = <<>>
                 ELSE /\ Len(got'[t]) <= Len(feed'[follows'[t]])
                      /\ \A k \in 1 .. Len(got'[t]) : got'[t][k] = feed'[follows'[t]][k]
        <3>1. CASE t = s
            <4>1. got'[t] = <<>> /\ feed'[s] \in Seq(Note)
                BY <1>1, <1>3, <3>1 DEF FeedTyped
            <4>2. Len(got'[t]) = 0 /\ Len(feed'[s]) \in Nat
                BY <4>1
            <4>3. Len(got'[t]) <= Len(feed'[s]) /\ \A k \in 1 .. Len(got'[t]) : FALSE
                BY <4>2
            <4>4. follows'[t] = s
                BY <1>2, <3>1
            <4>5. QED BY <4>1, <4>3, <4>4
        <3>2. CASE t # s
            BY <1>1, <1>2, <3>2 DEF FeedInv
        <3>3. QED BY <3>1, <3>2
    <2>3. QED BY <2>1, <2>2 DEF FeedInv
<1>5. QED BY <1>1, <1>2, <1>3, <1>4 DEF FeedTyped

LEMMA RepeatStep ==
    ASSUME FeedOK, NEW s \in Requests, NEW r \in Requests, follows[s] = r, r # NoRequest, Repeat(s)
    PROVE  /\ FeedOK' /\ UNCHANGED <<feed, follows, handed>>
           /\ \A t \in Requests : t # s => got'[t] = got[t]
           /\ got'[s] # <<>> /\ Last(got'[s]) \in Events
           /\ Last(got'[s]) # "processing_update" => Ended(feed'[r]) /\ Last(feed'[r]) = Last(got'[s])
<1> USE DEF FeedOK
<1>1. /\ UNCHANGED <<feed, follows, handed>> /\ Len(got[s]) < Len(feed[r])
      /\ got' = [got EXCEPT ![s] = Append(@, feed[r][Len(@) + 1])]
    BY DEF Repeat
<1> DEFINE n == Len(got[s]) + 1
<1>2. /\ got[s] \in Seq(Note) /\ Len(got[s]) \in Nat /\ feed[r] \in Seq(Note) /\ Len(feed[r]) \in Nat
      /\ n \in 1 .. Len(feed[r]) /\ feed[r][n] \in Note
    <2>1. got[s] \in Seq(Note) /\ feed[r] \in Seq(Note)
        BY DEF FeedTyped
    <2>2. Len(got[s]) \in Nat /\ Len(feed[r]) \in Nat
        BY <2>1
    <2>3. n \in 1 .. Len(feed[r])
        BY <1>1, <2>2
    <2>4. QED BY <2>1, <2>2, <2>3
<1>3. /\ got'[s] = Append(got[s], feed[r][n])
      /\ \A t \in Requests : t # s => got'[t] = got[t]
      /\ got' \in [Requests -> Seq(Note)]
    <2>1. got' = [got EXCEPT ![s] = Append(got[s], feed[r][n])]
        BY <1>1
    <2>2. Append(got[s], feed[r][n]) \in Seq(Note)
        BY <1>2
    <2>3. QED BY <2>1, <2>2 DEF FeedTyped
<1>4. /\ Len(got'[s]) = n /\ got'[s][n] = feed[r][n]
      /\ \A k \in 1 .. Len(got[s]) : got'[s][k] = got[s][k]
    BY <1>2, <1>3
<1> HIDE DEF n
<1>5. got'[s] # <<>> /\ Last(got'[s]) = feed[r][n].event /\ Last(got'[s]) \in Events
    <2>1. got'[s] # <<>>
        BY <1>2, <1>4
    <2>2. QED BY <1>2, <1>4, <2>1 DEF Last, Note
<1>6. ASSUME Last(got'[s]) # "processing_update"
      PROVE  Ended(feed[r]) /\ Last(feed[r]) = Last(got'[s])
    <2>1. n = Len(feed[r])
        <3>1. n \notin 1 .. Len(feed[r]) - 1
            BY <1>5, <1>6 DEF FeedInv
        <3>2. QED BY <1>2, <3>1
    <2>2. feed[r] # <<>>
        BY <1>2
    <2>3. QED BY <1>5, <1>6, <2>1, <2>2 DEF Ended, Last
<1>7. FeedInv'
    <2>1. \A q \in Requests : \A k \in 1 .. Len(feed'[q]) - 1 : feed'[q][k].event = "processing_update"
        BY <1>1 DEF FeedInv
    <2>2. ASSUME NEW t \in Requests
          PROVE  IF follows'[t] = NoRequest THEN got'[t] = <<>>
                 ELSE /\ Len(got'[t]) <= Len(feed'[follows'[t]])
                      /\ \A k \in 1 .. Len(got'[t]) : got'[t][k] = feed'[follows'[t]][k]
        <3>1. CASE t = s
            <4>1. \A k \in 1 .. Len(got[s]) : got[s][k] = feed[r][k]
                BY DEF FeedInv
            <4>2. \A k \in 1 .. n : k = n \/ k \in 1 .. Len(got[s])
                BY <1>2 DEF n
            <4>3. n <= Len(feed[r])
                BY <1>2
            <4>4. QED BY <1>1, <1>4, <3>1, <4>1, <4>2, <4>3
        <3>2. CASE t # s
            BY <1>1, <1>3, <3>2 DEF FeedInv
        <3>3. QED BY <3>1, <3>2
    <2>3. QED BY <2>1, <2>2 DEF FeedInv
<1>8. QED BY <1>1, <1>3, <1>5, <1>6, <1>7 DEF FeedTyped

-----------------------------------------------------------------------------
(* What the table tells of the feeds.                                      *)

Told(f) == Ended(got[f]) /\ Last(got[f]) = "processing_success"
OutcomeOf(row) ==
    /\ row.status = "Succeeded" <=> Told(row.file)
    /\ row.status = "Cancelled" => row.file \notin uploaded

LEMMA OutcomesByRow ==
    ASSUME PageTyped
    PROVE  OutcomesAreTrue <=> \A k \in 1 .. Len(rows) : OutcomeOf(rows[k])
<1>1. DOMAIN rows = 1 .. Len(rows)
    BY RowsOf
<1>2. QED BY <1>1 DEF OutcomesAreTrue, OutcomeOf, Told

\* Rows that have not ended tell nothing, so that only the others must be looked at.
EndedRowsTrue == \A k \in 1 .. Len(rows) : rows[k].status \in Outcomes => OutcomeOf(rows[k])

LEMMA EndedRowsDecide == PageOK /\ SentInv /\ EndedRowsTrue => OutcomesAreTrue
<1> SUFFICES ASSUME PageOK, SentInv, EndedRowsTrue PROVE OutcomesAreTrue
    OBVIOUS
<1> USE DEF PageOK, EndedRowsTrue
<1>1. ASSUME NEW k \in 1 .. Len(rows) PROVE OutcomeOf(rows[k])
    <2>1. rows[k].status \in Statuses
        BY RowsOf
    <2>2. CASE rows[k].status \in Outcomes
        BY <2>2
    <2>3. CASE rows[k].status = "Pending"
        <3>1. /\ k - Begun \in 1 .. Len(fileList)
              /\ rows[k].file = fileList[k - Begun]
            BY <2>3, Places
        <3>2. got[rows[k].file] = <<>>
            BY <3>1 DEF SentInv, Untouched
        <3>3. QED BY <2>3, <3>2 DEF OutcomeOf, Told, Ended
    <2>4. CASE rows[k].status = "InProgress"
        <3>1. Running /\ rows[k].file = job.file
            BY <2>4, Places
        <3>2. ~Ended(got[rows[k].file])
            BY <3>1 DEF SentInv
        <3>3. QED BY <2>4, <3>2 DEF OutcomeOf, Told
    <2>5. QED BY <2>1, <2>2, <2>3, <2>4 DEF Statuses
<1>2. QED BY <1>1, OutcomesByRow

\* The file of the batch has been added and waits no more.
LEMMA JobFileApart ==
    ASSUME PageOK, Running
    PROVE  /\ job.file \in added /\ job.file \in Files
           /\ \A k \in 1 .. Len(fileList) : fileList[k] # job.file /\ fileList[k] \in Files
<1> USE DEF PageOK
<1>1. /\ Begun \in 1 .. Len(rows) /\ rows[Begun].file = job.file
      /\ \A k \in 1 .. Len(rows) : rows[k].file = job.file <=> k = Begun
      /\ Len(rows) = Begun + Len(fileList) /\ Begun \in Nat
    BY Places
<1>2. ASSUME NEW k \in 1 .. Len(fileList) PROVE fileList[k] # job.file
    <2>1. Len(fileList) \in Nat
        BY RowsOf
    <2>2. Begun + k \in 1 .. Len(rows) /\ Begun + k # Begun
        BY <1>1, <2>1
    <2>3. rows[Begun + k].file = fileList[k]
        BY DEF TableInv
    <2>4. QED BY <1>1, <2>2, <2>3
<1>3. job.file \in added
    BY <1>1 DEF TableInv
<1>4. QED BY <1>2, <1>3, RowsOf DEF JobInv

\* Outside a batch the server is told nothing, and the list grows by files that it does
\* not know.
LEMMA UpdateSent ==
    ASSUME PageOK, PageOK', SentInv, zone, NEW s \in Selections, NEW list, Elements(s) \cap added = {},
           list \in {fileList, <<>>}, Update(list, s), UNCHANGED vars,
           \A k \in 1 .. Len(rows') : rows'[k].status = "Pending"
    PROVE  SentInv' /\ OutcomesAreTrue'
<1>1. UNCHANGED <<got, follows, uploaded>> /\ added' = added \cup Elements(s)
    BY DEF Update, vars
<1>2. ~Running /\ job' = job /\ ~Running'
    BY DEF PageOK, JobInv, Update, Running
<1>3. /\ s \in Seq(Files) /\ list \in Seq(Files) /\ fileList' = list \o s
      /\ Len(list) \in Nat /\ Len(s) \in Nat
    <2>1. s \in Seq(Files)
        BY SelectionsAssumption
    <2>2. list \in Seq(Files)
        BY EmptySeq DEF PageOK, PageTyped
    <2>3. QED BY <2>1, <2>2 DEF Update
<1>4. \A k \in 1 .. Len(list) : Untouched(list[k])
    <2>1. CASE list = fileList
        BY <2>1 DEF SentInv
    <2>2. CASE list = <<>>
        BY <2>2
    <2>3. QED BY <2>1, <2>2
<1>5. \A k \in 1 .. Len(s) : Untouched(s[k])
    <2>1. \A k \in 1 .. Len(s) : s[k] \in Files /\ s[k] \in Elements(s)
        BY <1>3 DEF Elements
    <2>2. QED BY <2>1 DEF SentInv
<1>6. ASSUME NEW k \in 1 .. Len(fileList') PROVE Untouched(fileList'[k])
    <2>1. Len(fileList') = Len(list) + Len(s)
        BY <1>3
    <2>2. CASE k \in 1 .. Len(list)
        <3>1. fileList'[k] = list[k]
            BY <1>3, <2>2
        <3>2. QED BY <1>4, <2>2, <3>1
    <2>3. CASE k \notin 1 .. Len(list)
        <3>1. k - Len(list) \in 1 .. Len(s) /\ Len(list) + (k - Len(list)) = k
            BY <1>3, <2>1, <2>3
        <3>2. fileList'[k] = s[k - Len(list)]
            BY <1>3, <2>1, <2>3
        <3>3. QED BY <1>5, <3>1, <3>2
    <2>4. QED BY <2>2, <2>3
<1>7. SentInv'
    <2>1. \A k \in 1 .. Len(fileList') : Untouched(fileList[k])'
        BY <1>1, <1>6 DEF Untouched
    <2>2. \A f \in Files \ added' : Untouched(f)'
        BY <1>1 DEF SentInv, Untouched
    <2>3. job'.step = "none"
        BY <1>2 DEF Running
    <2>4. QED BY <1>2, <2>1, <2>2, <2>3 DEF SentInv
<1>8. \A k \in 1 .. Len(rows') : rows'[k].status \notin Outcomes
    BY DEF Outcomes
<1>9. (PageOK /\ SentInv /\ EndedRowsTrue => OutcomesAreTrue)'
    BY EndedRowsDecide, PTL
<1>10. QED BY <1>7, <1>8, <1>9 DEF EndedRowsTrue

LEMMA DeleteSent ==
    ASSUME PageOK, PageOK', SentInv, OutcomesAreTrue, NEW S, DeleteSelection(S), UNCHANGED vars
    PROVE  SentInv' /\ OutcomesAreTrue'
<1>1. UNCHANGED <<got, follows, uploaded, added, job>>
    BY DEF DeleteSelection, vars
<1>2. /\ fileList' \in Seq(Files) /\ rows' \in Seq(Row)
      /\ Elements(fileList') = Elements(fileList) \ S
      /\ Elements(rows') \subseteq Elements(rows)
    BY DeletedRows
<1>3. /\ DOMAIN fileList' = 1 .. Len(fileList') /\ DOMAIN rows' = 1 .. Len(rows')
      /\ DOMAIN fileList = 1 .. Len(fileList) /\ DOMAIN rows = 1 .. Len(rows)
    BY <1>2, RowsOf DEF PageOK
<1>4. ASSUME NEW k \in 1 .. Len(fileList') PROVE Untouched(fileList'[k])
    <2>1. fileList'[k] \in Elements(fileList)
        BY <1>2, <1>3 DEF Elements
    <2>2. PICK l \in 1 .. Len(fileList) : fileList'[k] = fileList[l]
        BY <1>3, <2>1 DEF Elements
    <2>3. Untouched(fileList[l])
        BY DEF SentInv
    <2>4. QED BY <2>2, <2>3
<1>5. SentInv'
    <2>1. \A k \in 1 .. Len(fileList') : Untouched(fileList[k])'
        BY <1>1, <1>4 DEF Untouched
    <2>2. \A f \in Files \ added' : Untouched(f)'
        BY <1>1 DEF SentInv, Untouched
    <2>3. Running' = Running
        BY <1>1 DEF Running
    <2>4. QED BY <1>1, <2>1, <2>2, <2>3 DEF SentInv
<1>6. ASSUME NEW k \in 1 .. Len(rows') PROVE OutcomeOf(rows'[k])
    <2>1. rows'[k] \in Elements(rows)
        BY <1>2, <1>3 DEF Elements
    <2>2. PICK l \in 1 .. Len(rows) : rows'[k] = rows[l]
        BY <1>3, <2>1 DEF Elements
    <2>3. OutcomeOf(rows[l])
        BY OutcomesByRow DEF PageOK
    <2>4. QED BY <2>2, <2>3
<1>7. EndedRowsTrue'
    BY <1>1, <1>6 DEF EndedRowsTrue, OutcomeOf, Told
<1>8. (PageOK /\ SentInv /\ EndedRowsTrue => OutcomesAreTrue)'
    BY EndedRowsDecide, PTL
<1>9. QED BY <1>5, <1>7, <1>8

\* Cancelling only asks.
LEMMA CancelSent ==
    ASSUME SentInv, OutcomesAreTrue, CancelPendingTasks, UNCHANGED vars
    PROVE  SentInv' /\ OutcomesAreTrue'
BY DEF CancelPendingTasks, vars, SentInv, Untouched, OutcomesAreTrue, Running

\* The file of the next batch is one that waited.
LEMMA SubmitSent ==
    ASSUME PageOK, PageOK', SentInv, OutcomesAreTrue, SubmitForm, UNCHANGED vars
    PROVE  SentInv' /\ OutcomesAreTrue'
<1>1. UNCHANGED <<got, follows, uploaded, added>>
    BY DEF SubmitForm, vars
<1>2. CASE fileList = <<>>
    <2>1. UNCHANGED <<fileList, rows, job>>
        BY <1>2 DEF SubmitForm
    <2>2. QED
        BY <1>1, <2>1 DEF SentInv, Untouched, OutcomesAreTrue, Running
<1>3. CASE fileList # <<>>
    <2>1. /\ fileList' = Tail(fileList) /\ rows' = WithStatus(rows, Head(fileList), "InProgress")
          /\ job'.step = "fetch" /\ job'.file = Head(fileList)
        BY <1>3 DEF SubmitForm
    <2>2. fileList \in Seq(Files) /\ rows \in Seq(Row)
        BY DEF PageOK, PageTyped
    <2>3. /\ Len(fileList) \in Nat /\ 1 \in 1 .. Len(fileList) /\ Head(fileList) = fileList[1]
          /\ \A k \in 1 .. Len(fileList') : fileList'[k] = fileList[k + 1] /\ k + 1 \in 1 .. Len(fileList)
        BY <1>3, <2>1, <2>2
    <2>4. SentInv'
        <3>1. Untouched(job.file)'
            BY <1>1, <2>1, <2>3 DEF SentInv, Untouched
        <3>2. \A k \in 1 .. Len(fileList') : Untouched(fileList[k])'
            BY <1>1, <2>3 DEF SentInv, Untouched
        <3>3. \A f \in Files \ added' : Untouched(f)'
            BY <1>1 DEF SentInv, Untouched
        <3>4. QED BY <2>1, <3>1, <3>2, <3>3 DEF SentInv, Untouched, Ended
    <2>5. EndedRowsTrue'
        <3>1. "InProgress" \in Statuses /\ "InProgress" \notin Outcomes
            BY DEF Statuses, Outcomes
        <3>2. /\ Len(rows') = Len(rows)
              /\ \A k \in 1 .. Len(rows) :
                    /\ rows'[k].file = rows[k].file
                    /\ rows'[k].status = IF rows[k].file = Head(fileList) THEN "InProgress" ELSE rows[k].status
            BY <2>1, <2>2, <3>1, WithStatusRows
        <3>3. \A k \in 1 .. Len(rows) : OutcomeOf(rows[k])
            BY OutcomesByRow DEF PageOK
        <3>4. ASSUME NEW k \in 1 .. Len(rows'), rows'[k].status \in Outcomes
              PROVE  OutcomeOf(rows[k])'
            <4>1. rows'[k].file = rows[k].file /\ rows'[k].status = rows[k].status
                BY <3>1, <3>2, <3>4
            <4>2. OutcomeOf(rows[k])
                BY <3>2, <3>3
            <4>3. QED BY <1>1, <4>1, <4>2 DEF OutcomeOf, Told
        <3>5. QED BY <3>4 DEF EndedRowsTrue
    <2>6. (PageOK /\ SentInv /\ EndedRowsTrue => OutcomesAreTrue)'
        BY EndedRowsDecide, PTL
    <2>7. QED BY <2>4, <2>5, <2>6
<1>4. QED BY <1>2, <1>3

\* A step of the batch touches only its own file.
OnlyJobFile ==
    /\ UNCHANGED added
    /\ \A f \in Files \ {job.file} :
          got'[f] = got[f] /\ follows'[f] = follows[f] /\ (f \in uploaded' <=> f \in uploaded)

LEMMA OthersUntouched ==
    ASSUME PageOK, Running, SentInv, OnlyJobFile
    PROVE  /\ \A f \in Files \ added' : Untouched(f)'
           /\ \A k \in 1 .. Len(fileList) : got'[fileList[k]] = <<>> /\ follows'[fileList[k]] = NoRequest
                                            /\ fileList[k] \notin uploaded'
<1>1. /\ job.file \in added
      /\ \A k \in 1 .. Len(fileList) : fileList[k] # job.file /\ fileList[k] \in Files
    BY JobFileApart
<1>2. \A k \in 1 .. Len(fileList) : Untouched(fileList[k])
    BY DEF SentInv
<1>3. \A f \in Files \ added : Untouched(f)
    BY DEF SentInv
<1>4. QED BY <1>1, <1>2, <1>3 DEF Untouched, OnlyJobFile

LEMMA AwaitSent ==
    ASSUME PageOK, PageOK', SentInv, OutcomesAreTrue, Running, OnlyJobFile,
           NEW l \in {"fetch", "body", "stream", "lost"}, Await(l),
           ~Ended(got'[job.file]),
           l \in {"fetch", "body"} => got'[job.file] = <<>> /\ follows'[job.file] = NoRequest,
           l = "stream" => follows'[job.file] = job.file
    PROVE  SentInv' /\ OutcomesAreTrue'
<1>1. job' = [job EXCEPT !.step = l] /\ job \in Job
    BY DEF PageOK, PageTyped, Await
<1>2. job'.step = l /\ job'.file = job.file
    BY <1>1 DEF Job
<1>3. fileList' = fileList /\ rows' = rows
    BY DEF Await
<1>4. SentInv'
    <2>1. \A k \in 1 .. Len(fileList') : Untouched(fileList[k])'
        BY <1>3, OthersUntouched DEF Untouched
    <2>2. \A f \in Files \ added' : Untouched(f)'
        BY OthersUntouched
    <2>3. QED BY <1>2, <2>1, <2>2 DEF SentInv
<1>5. EndedRowsTrue'
    <2>1. ASSUME NEW k \in 1 .. Len(rows), rows[k].status \in Outcomes PROVE OutcomeOf(rows[k])'
        <3>1. rows[k].file \in Files /\ rows[k].file # job.file
            <4>1. rows[k].status # "InProgress"
                BY <2>1 DEF Outcomes
            <4>2. QED BY <4>1, Places, RowsOf DEF PageOK
        <3>2. OutcomeOf(rows[k])
            BY OutcomesByRow DEF PageOK
        <3>3. QED BY <1>3, <3>1, <3>2 DEF OutcomeOf, Told, OnlyJobFile
    <2>2. QED BY <1>3, <2>1 DEF EndedRowsTrue
<1>6. (PageOK /\ SentInv /\ EndedRowsTrue => OutcomesAreTrue)'
    BY EndedRowsDecide, PTL
<1>7. QED BY <1>4, <1>5, <1>6

LEMMA CompleteRows ==
    ASSUME PageOK, Running, NEW status \in {"Succeeded", "Failed"}, Complete(status)
    PROVE  /\ Len(rows') = Len(rows)
           /\ \A k \in 1 .. Len(rows) :
                 /\ rows'[k].file = rows[k].file
                 /\ k < Begun => rows'[k].status = rows[k].status
                 /\ k = Begun => rows'[k].status = status
                 /\ k > Begun => rows'[k].status \in {"Pending", "InProgress", "Cancelled"}
<1> DEFINE table == WithStatus(rows, job.file, status)
<1>1. /\ table \in Seq(Row) /\ Len(table) = Len(rows)
      /\ \A k \in 1 .. Len(rows) :
            /\ table[k].file = rows[k].file
            /\ table[k].status = IF k = Begun THEN status ELSE rows[k].status
    BY OutcomeRows
<1>2. /\ Begun \in Nat /\ Begun = job.idx + 1 /\ job.idx \in Nat /\ Begun \in 1 .. Len(rows)
      /\ \A k \in 1 .. Len(rows) : rows[k].status = "Pending" <=> k > Begun
      /\ Len(rows) \in Nat
    BY Places, RowsOf DEF PageOK
<1>3. \A k \in 1 .. Len(rows) :
         /\ k < Begun => table[k].status = rows[k].status
         /\ k = Begun => table[k].status = status
         /\ k > Begun => table[k].status = "Pending"
    BY <1>1, <1>2
<1> HIDE DEF table
<1>4. CASE fileList # <<>> /\ rows' = WithStatus(table, Head(fileList), "InProgress")
    <2>1. "InProgress" \in Statuses
        BY DEF Statuses
    <2>2. /\ Len(rows') = Len(table)
          /\ \A k \in 1 .. Len(table) :
                /\ rows'[k].file = table[k].file
                /\ rows'[k].status = IF table[k].file = Head(fileList) THEN "InProgress" ELSE table[k].status
        BY <1>1, <1>4, <2>1, WithStatusRows
    <2>3. ASSUME NEW k \in 1 .. Len(rows), k <= Begun PROVE table[k].file # Head(fileList)
        <3>1. fileList \in Seq(Files)
            BY DEF PageOK, PageTyped
        <3>2. 1 \in 1 .. Len(fileList) /\ Head(fileList) = fileList[1] /\ Len(fileList) \in Nat
            BY <1>4, <3>1
        <3>3. rows[Begun + 1].file = Head(fileList)
            BY <3>2 DEF PageOK, TableInv
        <3>4. Len(rows) = Begun + Len(fileList)
            BY Places DEF PageOK
        <3>5. Begun + 1 \in 1 .. Len(rows) /\ k # Begun + 1
            BY <1>2, <2>3, <3>2, <3>4
        <3>6. QED BY <1>1, <3>3, <3>5 DEF PageOK, TableInv
    <2>4. ASSUME NEW k \in 1 .. Len(rows), k <= Begun PROVE rows'[k].status = table[k].status
        BY <1>1, <2>2, <2>3, <2>4
    <2>5. \A k \in 1 .. Len(rows) : rows'[k].status \in {"InProgress", table[k].status}
        BY <1>1, <2>2
    <2>6. ASSUME NEW k \in 1 .. Len(rows)
          PROVE  /\ k < Begun => rows'[k].status = rows[k].status
                 /\ k = Begun => rows'[k].status = status
                 /\ k > Begun => rows'[k].status \in {"Pending", "InProgress", "Cancelled"}
        <3>1. CASE k < Begun
            <4>1. k <= Begun /\ k # Begun /\ ~ (k > Begun)
                BY <1>2, <3>1
            <4>2. QED BY <1>3, <2>4, <3>1, <4>1
        <3>2. CASE k = Begun
            <4>1. k <= Begun /\ ~ (k < Begun) /\ ~ (k > Begun)
                BY <1>2, <3>2
            <4>2. QED BY <1>3, <2>4, <3>2, <4>1
        <3>3. CASE k > Begun
            <4>1. ~ (k < Begun) /\ k # Begun
                BY <1>2, <3>3
            <4>2. QED BY <1>3, <2>5, <3>3, <4>1
        <3>4. QED BY <1>2, <3>1, <3>2, <3>3
    <2>7. QED BY <1>1, <2>2, <2>6
<1>5. CASE rows' = CancelRowsAfter(table, job.idx)
    <2>1. /\ Len(rows') = Len(table)
          /\ \A k \in 1 .. Len(table) :
                /\ rows'[k].file = table[k].file
                /\ rows'[k].status = IF k > job.idx + 1 THEN "Cancelled" ELSE table[k].status
        BY <1>1, <1>2, <1>5, CancelledRows
    <2>2. \A k \in 1 .. Len(rows) : rows'[k].status = IF k > Begun THEN "Cancelled" ELSE table[k].status
        BY <1>1, <1>2, <2>1
    <2>3. \A k \in 1 .. Len(rows) : ~ (k < Begun /\ k > Begun) /\ ~ (k = Begun /\ k > Begun)
        BY <1>2
    <2>4. QED BY <1>1, <1>3, <2>1, <2>2, <2>3
<1>6. CASE rows' = table
    BY <1>1, <1>3, <1>6
<1>7. \/ fileList # <<>> /\ rows' = WithStatus(table, Head(fileList), "InProgress")
      \/ rows' = CancelRowsAfter(table, job.idx)
      \/ rows' = table
    BY DEF Complete, table
<1>8. QED BY <1>4, <1>5, <1>6, <1>7

LEMMA CompleteSent ==
    ASSUME PageOK, PageOK', SentInv, OutcomesAreTrue, Running, OnlyJobFile,
           NEW status \in {"Succeeded", "Failed"}, Complete(status),
           NEW f, f = job.file, status = "Succeeded" <=> Ended(got'[f]) /\ Last(got'[f]) = "processing_success"
    PROVE  SentInv' /\ OutcomesAreTrue'
<1>1. /\ \A g \in Files \ added' : Untouched(g)'
      /\ \A k \in 1 .. Len(fileList) : got'[fileList[k]] = <<>> /\ follows'[fileList[k]] = NoRequest
                                       /\ fileList[k] \notin uploaded'
    BY OthersUntouched
<1>2. SentInv'
    <2>1. CASE fileList' = <<>> /\ job' = NoJob
        <3>1. job'.step = "none" /\ Len(fileList') = 0
            BY <2>1 DEF NoJob
        <3>2. \A k \in 1 .. Len(fileList') : FALSE
            BY <3>1
        <3>3. QED BY <1>1, <3>1, <3>2 DEF SentInv, Running
    <2>2. CASE /\ fileList # <<>> /\ fileList' = Tail(fileList)
               /\ job'.step = "fetch" /\ job'.file = Head(fileList)
        <3>1. fileList \in Seq(Files)
            BY DEF PageOK, PageTyped
        <3>2. /\ Len(fileList) \in Nat /\ 1 \in 1 .. Len(fileList) /\ Head(fileList) = fileList[1]
              /\ \A k \in 1 .. Len(fileList') : fileList'[k] = fileList[k + 1] /\ k + 1 \in 1 .. Len(fileList)
            BY <2>2, <3>1
        <3>3. \A k \in 1 .. Len(fileList') : Untouched(fileList[k])'
            BY <1>1, <3>2 DEF Untouched
        <3>4. got'[job'.file] = <<>> /\ follows'[job'.file] = NoRequest
            BY <1>1, <2>2, <3>2
        <3>5. QED BY <1>1, <2>2, <3>3, <3>4 DEF SentInv, Ended
    <2>3. QED BY <2>1, <2>2 DEF Complete
<1>3. EndedRowsTrue'
    <2>1. /\ Len(rows') = Len(rows)
          /\ \A k \in 1 .. Len(rows) :
                /\ rows'[k].file = rows[k].file
                /\ k < Begun => rows'[k].status = rows[k].status
                /\ k = Begun => rows'[k].status = status
                /\ k > Begun => rows'[k].status \in {"Pending", "InProgress", "Cancelled"}
        BY CompleteRows
    <2>2. /\ Begun \in Nat
          /\ \A k \in 1 .. Len(rows) : rows[k].file = job.file <=> k = Begun
          /\ \A k \in 1 .. Len(rows) : k > Begun => /\ k - Begun \in 1 .. Len(fileList)
                                                   /\ rows[k].file = fileList[k - Begun]
        BY Places DEF PageOK
    <2>3. ASSUME NEW k \in 1 .. Len(rows), rows'[k].status \in Outcomes PROVE OutcomeOf(rows[k])'
        <3>1. CASE k < Begun
            <4>1. rows[k].file \in Files \ {job.file}
                BY <2>2, <3>1, RowsOf DEF PageOK
            <4>2. OutcomeOf(rows[k])
                BY OutcomesByRow DEF PageOK
            <4>3. QED BY <2>1, <3>1, <4>1, <4>2 DEF OutcomeOf, Told, OnlyJobFile
        <3>2. CASE k = Begun
            <4>1. rows'[k].file = f /\ rows'[k].status = status
                BY <2>1, <2>2, <3>2
            <4>2. QED BY <4>1 DEF OutcomeOf, Told
        <3>3. CASE k > Begun
            <4>1. rows'[k].status = "Cancelled"
                BY <2>1, <2>3, <3>3 DEF Outcomes
            <4>2. rows'[k].file = fileList[k - Begun] /\ k - Begun \in 1 .. Len(fileList)
                BY <2>1, <2>2, <3>3
            <4>3. got'[rows'[k].file] = <<>> /\ rows'[k].file \notin uploaded'
                BY <1>1, <4>2
            <4>4. QED BY <4>1, <4>3 DEF OutcomeOf, Told, Ended
        <3>4. QED BY <2>2, <3>1, <3>2, <3>3
    <2>4. QED BY <2>1, <2>3 DEF EndedRowsTrue
<1>4. (PageOK /\ SentInv /\ EndedRowsTrue => OutcomesAreTrue)'
    BY EndedRowsDecide, PTL
<1>5. QED BY <1>2, <1>3, <1>4

-----------------------------------------------------------------------------
(* The steps of the page and of the server.                                *)

SentOK == SentInv /\ OutcomesAreTrue
ClientOK == ClientTypeOK /\ ClientInv

LEMMA FilesAreRequests ==
    /\ Files \subseteq Requests /\ Clients \subseteq Requests /\ Files \cap Clients = {}
    /\ NoRequest \notin Requests
BY RequestsAssumption

\* What the clients have been told stays while somebody else goes on.
LEMMA ClientsKept ==
    ASSUME ClientOK, UNCHANGED clientVars,
           \A k \in Clients : /\ follows'[k] = follows[k] /\ handed'[k] = handed[k]
                              /\ Ended(feed[k]) => feed'[k] = feed[k]
    PROVE  ClientOK'
<1>1. UNCHANGED <<step, fetched, saved>>
    BY DEF clientVars
<1>2. ClientTypeOK'
    BY <1>1 DEF ClientOK, ClientTypeOK
<1>3. ASSUME NEW k \in Clients PROVE ClientFollows(k)'
    BY <1>1 DEF ClientOK, ClientInv, ClientFollows, Answer
<1>4. QED BY <1>2, <1>3 DEF ClientOK, ClientInv

\* And so does the page.
LEMMA PageKept ==
    ASSUME PageOK, SentOK, UNCHANGED pageVars,
           \A f \in Files : got'[f] = got[f] /\ follows'[f] = follows[f]
    PROVE  PageOK' /\ SentOK'
<1>1. UNCHANGED <<fileList, rows, added, uploaded, zone, submitButton, bar, cancelButton,
                  cancelPendingTasksRequested, isConverting, job, summary>>
    BY DEF pageVars
<1>2. Running' = Running
    BY <1>1 DEF Running
<1>3. PageTyped' /\ JobInv'
    BY <1>1, <1>2 DEF PageOK, PageTyped, JobInv
<1>4. PageOK'
    BY <1>1, <1>2, <1>3, QuietStep
<1>5. \A k \in 1 .. Len(fileList) : fileList[k] \in Files
    BY RowsOf DEF PageOK
<1>6. Running => job.file \in Files
    BY DEF PageOK, JobInv
<1>7. SentInv'
    <2>1. \A f \in Files : Untouched(f) => Untouched(f)'
        BY <1>1 DEF Untouched
    <2>2. \A k \in 1 .. Len(fileList') : Untouched(fileList[k])'
        BY <1>1, <1>5, <2>1 DEF SentOK, SentInv
    <2>3. \A f \in Files \ added' : Untouched(f)'
        BY <1>1, <2>1 DEF SentOK, SentInv
    <2>4. job.step \in {"fetch", "body", "stream"} => Running
        BY DEF Running
    <2>5. Running' => ~Ended(got'[job'.file])
        BY <1>1, <1>2, <1>6 DEF SentOK, SentInv
    <2>6. job'.step \in {"fetch", "body"} => got'[job'.file] = <<>> /\ follows'[job'.file] = NoRequest
        BY <1>1, <1>6, <2>4 DEF SentOK, SentInv
    <2>7. job'.step = "stream" => follows'[job'.file] = job'.file
        BY <1>1, <1>6, <2>4 DEF SentOK, SentInv
    <2>8. QED BY <2>2, <2>3, <2>5, <2>6, <2>7 DEF SentInv
<1>8. OutcomesAreTrue'
    <2>1. \A k \in DOMAIN rows : rows[k].file \in Files
        BY RowsOf DEF PageOK
    <2>2. QED BY <1>1, <2>1 DEF SentOK, OutcomesAreTrue
<1>9. QED BY <1>4, <1>7, <1>8 DEF SentOK

LEMMA UserSteps ==
    ASSUME PageOK, SentOK, UserStep
    PROVE  PageOK' /\ SentOK'
<1> USE DEF SentOK
<1>1. UNCHANGED vars
    BY DEF UserStep
<1>2. isConverting \in BOOLEAN /\ FALSE \in BOOLEAN
    BY DEF PageOK, PageTyped
<1>3. ASSUME NEW s \in Selections, Choose(s) PROVE PageOK' /\ SentOK'
    <2>1. /\ zone /\ Elements(s) \cap added = {} /\ Update(fileList, s)
          /\ summary' \in {NoSummary, summary} /\ (fileList # <<>> \/ summary' = NoSummary)
          /\ isConverting' \in BOOLEAN
        BY <1>2, <1>3 DEF Choose
    <2>2. PageOK' /\ \A k \in 1 .. Len(rows') : rows'[k].status = "Pending"
        BY <2>1, UpdateStep
    <2>3. QED BY <1>1, <2>1, <2>2, UpdateSent
<1>4. ASSUME NEW s \in Selections, Drop(s) PROVE PageOK' /\ SentOK'
    <2> DEFINE list == IF isConverting THEN <<>> ELSE fileList
    <2>1. /\ zone /\ Elements(s) \cap added = {} /\ Update(list, s) /\ list \in {fileList, <<>>}
          /\ summary' \in {NoSummary, summary} /\ (fileList # <<>> \/ summary' = NoSummary)
          /\ isConverting' \in BOOLEAN
        BY <1>2, <1>4 DEF Drop
    <2> HIDE DEF list
    <2>2. PageOK' /\ \A k \in 1 .. Len(rows') : rows'[k].status = "Pending"
        BY <2>1, UpdateStep
    <2>3. QED BY <1>1, <2>1, <2>2, UpdateSent
<1>5. ASSUME NEW S, DeleteSelection(S) PROVE PageOK' /\ SentOK'
    BY <1>1, <1>5, DeleteStep, DeleteSent
<1>6. CASE CancelPendingTasks
    BY <1>1, <1>6, CancelStep, CancelSent
<1>7. CASE SubmitForm
    BY <1>1, <1>7, SubmitStep, SubmitSent
<1>8. QED BY <1>3, <1>4, <1>5, <1>6, <1>7 DEF UserStep

LEMMA AnswerSteps ==
    ASSUME FeedOK, PageOK, SentOK, AnswerStep \/ BodyLost \/ StreamBreaks
    PROVE  /\ FeedOK' /\ PageOK' /\ SentOK'
           /\ UNCHANGED <<feed, handed>>
           /\ \A k \in Clients : follows'[k] = follows[k] /\ got'[k] = got[k]
<1> USE DEF SentOK
<1> DEFINE f == job.file
<1>1. Running
    BY DEF AnswerStep, Accepted, Refused, BodyArrives, BodyLost, Hear, StreamBreaks, Running
<1>2. f \in Files /\ f \in added /\ f \in Requests /\ f \notin Clients /\ f # NoRequest
    BY <1>1, JobFileApart, FilesAreRequests
<1>3. uploaded \subseteq added
    BY DEF PageOK, PageTyped
<1>4. ~Ended(got[f])
    BY <1>1 DEF SentInv
<1> HIDE DEF f
<1>5. ASSUME UNCHANGED vars PROVE FeedOK' /\ UNCHANGED <<feed, follows, got, handed>>
    BY <1>5 DEF vars, FeedOK, FeedTyped, FeedInv
<1>6. CASE Accepted
    <2>1. /\ job.step = "fetch" /\ uploaded' = uploaded \cup {f} /\ Await("body")
          /\ UNCHANGED pageRest /\ UNCHANGED vars
        BY <1>6 DEF Accepted, f
    <2>2. FeedOK' /\ UNCHANGED <<feed, follows, got, handed>>
        BY <1>5, <2>1
    <2>3. uploaded' \subseteq added'
        BY <1>2, <1>3, <2>1 DEF pageRest
    <2>4. PageOK'
        BY <1>1, <2>1, <2>3, AwaitStep
    <2>5. OnlyJobFile
        BY <2>1, <2>2 DEF OnlyJobFile, pageRest, f
    <2>6. got'[f] = <<>> /\ follows'[f] = NoRequest
        BY <2>1, <2>2 DEF SentInv, f
    <2>7. SentInv' /\ OutcomesAreTrue'
        BY <1>1, <2>1, <2>4, <2>5, <2>6, AwaitSent DEF Ended, f
    <2>8. QED BY <2>2, <2>4, <2>7
<1>7. ASSUME Complete("Failed"), UNCHANGED uploaded, UNCHANGED pageRest, UNCHANGED vars
      PROVE  FeedOK' /\ PageOK' /\ SentOK' /\ UNCHANGED <<feed, follows, got, handed>>
    <2>1. FeedOK' /\ UNCHANGED <<feed, follows, got, handed>>
        BY <1>5, <1>7
    <2>2. uploaded' \subseteq added'
        BY <1>3, <1>7 DEF pageRest
    <2>3. PageOK'
        BY <1>1, <1>7, <2>2, CompleteStep
    <2>4. OnlyJobFile
        BY <1>7, <2>1 DEF OnlyJobFile, pageRest
    <2>5. ~Ended(got'[f])
        BY <1>4, <2>1
    <2>6. SentInv' /\ OutcomesAreTrue'
        BY <1>1, <1>7, <2>3, <2>4, <2>5, CompleteSent DEF f
    <2>7. QED BY <2>1, <2>3, <2>6
<1>8. CASE Refused
    BY <1>7, <1>8 DEF Refused
<1>9. CASE StreamBreaks
    BY <1>7, <1>9 DEF StreamBreaks
<1>10. CASE BodyArrives
    <2>1. /\ job.step = "body" /\ Follow(f, f) /\ Await("stream")
          /\ UNCHANGED uploaded /\ UNCHANGED pageRest
        BY <1>10 DEF BodyArrives, f
    <2>2. /\ FeedOK' /\ UNCHANGED <<feed, got, handed>> /\ follows'[f] = f
          /\ \A t \in Requests : t # f => follows'[t] = follows[t]
        BY <1>2, <2>1, FollowStep
    <2>3. PageOK'
        BY <1>1, <1>3, <2>1, AwaitStep DEF pageRest
    <2>4. OnlyJobFile
        BY <2>1, <2>2, FilesAreRequests DEF OnlyJobFile, pageRest, f
    <2>5. SentInv' /\ OutcomesAreTrue'
        BY <1>1, <1>4, <2>1, <2>2, <2>3, <2>4, AwaitSent DEF f
    <2>6. QED BY <1>2, <2>2, <2>3, <2>5, FilesAreRequests
<1>11. CASE BodyLost
    <2>1. job.step = "body" /\ Await("lost") /\ UNCHANGED uploaded /\ UNCHANGED pageRest /\ UNCHANGED vars
        BY <1>11 DEF BodyLost
    <2>2. FeedOK' /\ UNCHANGED <<feed, follows, got, handed>>
        BY <1>5, <2>1
    <2>3. PageOK'
        BY <1>1, <1>3, <2>1, AwaitStep DEF pageRest
    <2>4. OnlyJobFile
        BY <2>1, <2>2 DEF OnlyJobFile, pageRest
    <2>5. SentInv' /\ OutcomesAreTrue'
        BY <1>1, <1>4, <2>1, <2>2, <2>3, <2>4, AwaitSent DEF f
    <2>6. QED BY <2>2, <2>3, <2>5
<1>12. CASE Hear
    <2> DEFINE e == got'[f][Len(got'[f])].event
    <2>1. /\ job.step = "stream" /\ Repeat(f) /\ UNCHANGED uploaded /\ UNCHANGED pageRest
          /\ CASE e = "processing_success" -> Complete("Succeeded")
               [] FailureHeard(e) -> Complete("Failed")
               [] OTHER -> Await("stream")
        BY <1>12 DEF Hear, f
    <2>2. follows[f] = f
        BY <2>1 DEF SentInv, f
    <2>3. /\ FeedOK' /\ UNCHANGED <<feed, follows, handed>>
          /\ \A t \in Requests : t # f => got'[t] = got[t]
          /\ got'[f] # <<>> /\ Last(got'[f]) \in Events
        BY <1>2, <2>1, <2>2, RepeatStep
    <2>4. e = Last(got'[f])
        BY DEF Last
    <2> HIDE DEF e
    <2>5. uploaded' \subseteq added'
        BY <1>3, <2>1 DEF pageRest
    <2>6. OnlyJobFile
        BY <2>1, <2>3, FilesAreRequests DEF OnlyJobFile, pageRest, f
    <2>7. ASSUME NEW status \in {"Succeeded", "Failed"}, Complete(status),
                 status = "Succeeded" <=> e = "processing_success", e # "processing_update"
          PROVE  PageOK' /\ SentOK'
        <3>1. PageOK'
            BY <1>1, <2>1, <2>5, <2>7, CompleteStep
        <3>2. status = "Succeeded" <=> Ended(got'[f]) /\ Last(got'[f]) = "processing_success"
            BY <2>3, <2>4, <2>7 DEF Ended
        <3>3. SentInv' /\ OutcomesAreTrue'
            BY <1>1, <2>6, <2>7, <3>1, <3>2, CompleteSent DEF f
        <3>4. QED BY <3>1, <3>3
    <2>8. CASE e = "processing_success"
        <3>1. Complete("Succeeded")
            BY <2>1, <2>8 DEF FailureHeard
        <3>2. PageOK' /\ SentOK'
            BY <2>7, <2>8, <3>1
        <3>3. QED BY <1>2, <2>3, <3>2, FilesAreRequests
    <2>9. CASE e = "processing_failure"
        <3>1. Complete("Failed")
            BY <2>1, <2>9 DEF FailureHeard
        <3>2. PageOK' /\ SentOK'
            BY <2>7, <2>9, <3>1
        <3>3. QED BY <1>2, <2>3, <3>2, FilesAreRequests
    <2>10. CASE e = "processing_update"
        <3>1. Await("stream")
            BY <2>1, <2>10 DEF FailureHeard
        <3>2. PageOK'
            BY <1>1, <2>1, <2>5, <3>1, AwaitStep
        <3>3. ~Ended(got'[f]) /\ follows'[f] = f
            BY <2>2, <2>3, <2>4, <2>10 DEF Ended
        <3>4. SentInv' /\ OutcomesAreTrue'
            BY <1>1, <2>6, <3>1, <3>2, <3>3, AwaitSent DEF f
        <3>5. QED BY <1>2, <2>3, <3>2, <3>4, FilesAreRequests
    <2>11. QED BY <2>3, <2>4, <2>8, <2>9, <2>10 DEF Events
<1>13. QED BY <1>6, <1>8, <1>9, <1>10, <1>11, <1>12 DEF AnswerStep, Refused, StreamBreaks

-----------------------------------------------------------------------------
(* The steps of the command line clients.                                  *)

\* One client moves; the others have what they had.
LEMMA OneClientMoves ==
    ASSUME ClientOK, NEW k \in Clients, ClientTypeOK', ClientFollows(k)', UNCHANGED feed,
           \A l \in Clients \ {k} : /\ step'[l] = step[l] /\ fetched'[l] = fetched[l] /\ saved'[l] = saved[l]
                                    /\ follows'[l] = follows[l] /\ handed'[l] = handed[l]
    PROVE  ClientOK'
<1>1. ASSUME NEW l \in Clients PROVE ClientFollows(l)'
    <2>1. CASE l = k
        BY <2>1
    <2>2. CASE l # k
        BY <2>2 DEF ClientOK, ClientInv, ClientFollows, Answer
    <2>3. QED BY <2>1, <2>2
<1>2. QED BY <1>1 DEF ClientOK, ClientInv

LEMMA ClientGoing ==
    ASSUME ClientTypeOK, NEW k \in Clients, NEW l \in ClientSteps, ClientGoes(k, l)
    PROVE  /\ step' \in [Clients -> ClientSteps] /\ step'[k] = l
           /\ \A j \in Clients \ {k} : step'[j] = step[j]
BY DEF ClientTypeOK, ClientGoes

LEMMA ClientMoves ==
    ASSUME FeedOK, ClientOK, NEW k \in Clients, ClientStep(k) \/ GiveUp(k)
    PROVE  /\ FeedOK' /\ ClientOK'
           /\ \A f \in Files : got'[f] = got[f] /\ follows'[f] = follows[f]
<1>1. k \in Requests /\ k \notin Files /\ k # NoRequest /\ \A f \in Files : f \in Requests /\ f # k
    BY FilesAreRequests
<1>2. /\ ClientTypeOK /\ ClientFollows(k)
      /\ step \in [Clients -> ClientSteps]
      /\ fetched \in [Clients -> Bodies] /\ saved \in [Clients -> Bodies \cup {"part"}]
    BY DEF ClientOK, ClientInv, ClientTypeOK
<1>3. ASSUME UNCHANGED vars
      PROVE  FeedOK' /\ UNCHANGED <<feed, follows, got, handed>>
    BY <1>3 DEF vars, FeedOK, FeedTyped, FeedInv
<1>4. \A l \in {"start", "follow", "listen", "download", "save", "exit_ok", "exit_err"} : l \in ClientSteps
    BY DEF ClientSteps
<1>5. ASSUME UNCHANGED vars, UNCHANGED <<fetched, saved>>, ClientGoes(k, "exit_err")
      PROVE  FeedOK' /\ ClientOK' /\ UNCHANGED <<feed, follows, got, handed>>
    <2>1. FeedOK' /\ UNCHANGED <<feed, follows, got, handed>>
        BY <1>3, <1>5
    <2>2. /\ step' \in [Clients -> ClientSteps] /\ step'[k] = "exit_err"
          /\ \A j \in Clients \ {k} : step'[j] = step[j]
        BY <1>2, <1>4, <1>5, ClientGoing
    <2>3. ClientTypeOK' /\ ClientFollows(k)'
        BY <1>2, <1>5, <2>2 DEF ClientTypeOK, ClientFollows
    <2>4. QED BY <1>5, <2>1, <2>2, <2>3, OneClientMoves
<1>6. CASE GiveUp(k)
    BY <1>5, <1>6 DEF GiveUp
<1>7. CASE Submit(k)
    <2>1. step[k] = "start" /\ UNCHANGED <<fetched, saved>> /\ UNCHANGED vars
        BY <1>7 DEF Submit
    <2>2. CASE ClientGoes(k, "exit_err")
        BY <1>5, <2>1, <2>2
    <2>3. CASE ClientGoes(k, "follow")
        <3>1. FeedOK' /\ UNCHANGED <<feed, follows, got, handed>>
            BY <1>3, <2>1
        <3>2. /\ step' \in [Clients -> ClientSteps] /\ step'[k] = "follow"
              /\ \A j \in Clients \ {k} : step'[j] = step[j]
            BY <1>2, <1>4, <2>3, ClientGoing
        <3>3. ClientTypeOK' /\ ClientFollows(k)'
            BY <1>2, <2>1, <3>1, <3>2 DEF ClientTypeOK, ClientFollows
        <3>4. QED BY <2>1, <3>1, <3>2, <3>3, OneClientMoves
    <2>4. QED BY <1>7, <2>2, <2>3 DEF Submit
<1>8. CASE OpenEvents(k)
    <2>1. step[k] = "follow" /\ Follow(k, k) /\ ClientGoes(k, "listen") /\ UNCHANGED <<fetched, saved>>
        BY <1>8 DEF OpenEvents
    <2>2. /\ FeedOK' /\ UNCHANGED <<feed, got, handed>> /\ follows'[k] = k
          /\ \A t \in Requests : t # k => follows'[t] = follows[t]
        BY <1>1, <2>1, FollowStep
    <2>3. /\ step' \in [Clients -> ClientSteps] /\ step'[k] = "listen"
          /\ \A j \in Clients \ {k} : step'[j] = step[j]
        BY <1>2, <1>4, <2>1, ClientGoing
    <2>4. ClientTypeOK' /\ ClientFollows(k)'
        BY <1>2, <2>1, <2>2, <2>3 DEF ClientTypeOK, ClientFollows
    <2>5. ClientOK'
        BY <2>1, <2>2, <2>3, <2>4, FilesAreRequests, OneClientMoves
    <2>6. QED BY <1>1, <2>2, <2>5
<1>9. CASE ProcessNotification(k)
    <2> DEFINE e == got'[k][Len(got'[k])].event
    <2> DEFINE l == CASE Downloadable(e) -> "download"
                      [] GivenUp(e) -> "exit_err"
                      [] OTHER -> "listen"
    <2>1. step[k] = "listen" /\ Repeat(k) /\ ClientGoes(k, l) /\ UNCHANGED <<fetched, saved>>
        BY <1>9 DEF ProcessNotification
    <2>2. follows[k] = k
        BY <1>2, <2>1 DEF ClientFollows
    <2>3. /\ FeedOK' /\ UNCHANGED <<feed, follows, handed>>
          /\ \A t \in Requests : t # k => got'[t] = got[t]
          /\ Last(got'[k]) # "processing_update" => Ended(feed'[k]) /\ Last(feed'[k]) = Last(got'[k])
        BY <1>1, <2>1, <2>2, RepeatStep
    <2>4. e = Last(got'[k])
        BY DEF Last
    <2> HIDE DEF e
    <2>5. /\ l \in {"download", "exit_err", "listen"}
          /\ l = "download" => e = "processing_success"
        BY DEF Downloadable, GivenUp
    <2> HIDE DEF l
    <2>6. l \in ClientSteps
        BY <1>4, <2>5
    <2>7. /\ step' \in [Clients -> ClientSteps] /\ step'[k] = l
          /\ \A j \in Clients \ {k} : step'[j] = step[j]
        BY <1>2, <2>1, <2>6, ClientGoing
    <2>8. l = "download" => Ended(feed'[k]) /\ Last(feed'[k]) = "processing_success"
        BY <2>3, <2>4, <2>5
    <2>9. ClientTypeOK' /\ ClientFollows(k)'
        BY <1>2, <2>1, <2>2, <2>3, <2>5, <2>7, <2>8 DEF ClientTypeOK, ClientFollows
    <2>10. ClientOK'
        BY <2>1, <2>3, <2>7, <2>9, OneClientMoves
    <2>11. QED BY <1>1, <2>3, <2>10
<1>10. CASE Download(k)
    <2>1. step[k] = "download" /\ ClientGoes(k, "save") /\ UNCHANGED saved
        BY <1>10 DEF Download
    <2>2. /\ step' \in [Clients -> ClientSteps] /\ step'[k] = "save"
          /\ \A j \in Clients \ {k} : step'[j] = step[j]
        BY <1>2, <1>4, <2>1, ClientGoing
    <2>3. handed[k] = NoRequest /\ Ended(feed[k]) /\ Last(feed[k]) = "processing_success"
        BY <1>2, <2>1 DEF ClientFollows
    <2>4. CASE HandOver(k, k) /\ fetched' = [fetched EXCEPT ![k] = "document"]
        <3>1. handed' = [handed EXCEPT ![k] = k] /\ UNCHANGED <<feed, follows, got>>
            BY <2>4 DEF HandOver
        <3>2. /\ handed' \in [Clients -> Requests \cup {NoRequest}] /\ handed'[k] = k
              /\ \A j \in Clients \ {k} : handed'[j] = handed[j]
            BY <1>1, <3>1 DEF FeedOK, FeedTyped
        <3>3. FeedOK'
            BY <3>1, <3>2 DEF FeedOK, FeedTyped, FeedInv
        <3>4. ClientTypeOK' /\ ClientFollows(k)'
            BY <1>2, <2>1, <2>2, <2>3, <2>4, <3>1, <3>2 DEF ClientTypeOK, ClientFollows, Bodies, Answer
        <3>5. \A j \in Clients \ {k} : fetched'[j] = fetched[j]
            BY <1>2, <2>4
        <3>6. ClientOK'
            BY <2>1, <2>2, <3>1, <3>2, <3>4, <3>5, OneClientMoves
        <3>7. QED BY <3>1, <3>3, <3>6
    <2>5. CASE UNCHANGED vars /\ fetched' = [fetched EXCEPT ![k] = "problem"]
        <3>1. FeedOK' /\ UNCHANGED <<feed, follows, got, handed>>
            BY <1>3, <2>5
        <3>2. ClientTypeOK' /\ ClientFollows(k)'
            BY <1>1, <1>2, <2>1, <2>2, <2>3, <2>5, <3>1 DEF ClientTypeOK, ClientFollows, Bodies, Answer
        <3>3. \A j \in Clients \ {k} : fetched'[j] = fetched[j]
            BY <1>2, <2>5
        <3>4. QED BY <2>1, <2>2, <3>1, <3>2, <3>3, OneClientMoves
    <2>6. QED BY <1>10, <2>4, <2>5 DEF Download
<1>11. CASE SaveOutput(k)
    <2>1. step[k] = "save" /\ UNCHANGED fetched /\ UNCHANGED vars
        BY <1>11 DEF SaveOutput
    <2>2. FeedOK' /\ UNCHANGED <<feed, follows, got, handed>>
        BY <1>3, <2>1
    <2>3. PICK l \in {"exit_ok", "exit_err"} :
             /\ ClientGoes(k, l)
             /\ \/ l = "exit_ok" /\ saved' = [saved EXCEPT ![k] = fetched[k]]
                \/ l = "exit_err" /\ saved' = [saved EXCEPT ![k] = "part"]
        BY <1>11 DEF SaveOutput
    <2>4. /\ step' \in [Clients -> ClientSteps] /\ step'[k] = l
          /\ \A j \in Clients \ {k} : step'[j] = step[j]
        BY <1>2, <1>4, <2>3, ClientGoing
    <2>5. /\ saved' \in [Clients -> Bodies \cup {"part"}]
          /\ l = "exit_ok" => saved'[k] = fetched[k]
          /\ \A j \in Clients \ {k} : saved'[j] = saved[j]
        BY <1>2, <2>3
    <2>6. ClientTypeOK' /\ ClientFollows(k)'
        BY <1>2, <2>1, <2>2, <2>3, <2>4, <2>5 DEF ClientTypeOK, ClientFollows, Answer
    <2>7. QED BY <2>1, <2>2, <2>4, <2>5, <2>6, OneClientMoves
<1>12. QED BY <1>6, <1>7, <1>8, <1>9, <1>10, <1>11 DEF ClientStep

-----------------------------------------------------------------------------
(* The theorems.                                                           *)

IInv == FeedOK /\ PageOK /\ SentOK /\ ClientOK

LEMMA InitInv == WebInit => IInv
<1> SUFFICES ASSUME WebInit PROVE IInv
    OBVIOUS
<1> USE RequestsAssumption
<1>1. /\ feed = [r \in Requests |-> <<>>] /\ follows = [s \in Requests |-> NoRequest]
      /\ got = [s \in Requests |-> <<>>] /\ handed = [d \in Clients |-> NoRequest]
    BY DEF WebInit, Init
<1>2. FeedTyped
    <2>1. <<>> \in Seq(Note)
        BY EmptySeq
    <2>2. QED BY <1>1, <2>1 DEF FeedTyped
<1>3. FeedInv
    BY <1>1 DEF FeedInv
<1>4. /\ fileList = <<>> /\ rows = <<>> /\ added = {} /\ uploaded = {} /\ job = NoJob /\ summary = NoSummary
      /\ Len(rows) = 0 /\ Len(fileList) = 0 /\ job.step = "none" /\ summary.text = "none"
    BY DEF WebInit, PageInit, NoJob, NoSummary
<1>5. ~Running /\ Begun = 0
    BY <1>4 DEF Running, Begun
<1>6. PageTyped
    <2>1. NoJob \in Job /\ NoSummary \in [text : {"none", "cancelled", "done"}, fails : Nat]
        BY DEF Job, NoJob, NoSummary
    <2>2. <<>> \in Seq(Files) /\ <<>> \in Seq(Row)
        BY EmptySeq
    <2>3. QED BY <1>4, <2>1, <2>2 DEF PageTyped, WebInit, PageInit
<1>7. \A k \in 1 .. 0 : FALSE
    OBVIOUS
<1>8. JobInv /\ TableInv
    BY <1>4, <1>5, <1>7 DEF JobInv, TableInv
<1>9. CountInv
    BY <1>4, <1>5 DEF CountInv, SummaryCountsFailures
<1>10. SentInv
    <2>1. Files \subseteq Requests
        BY FilesAreRequests
    <2>2. \A f \in Files : Untouched(f)
        BY <1>1, <1>4, <2>1 DEF Untouched
    <2>3. QED BY <1>4, <1>5, <1>7, <2>2 DEF SentInv
<1>11. OutcomesAreTrue
    <2>1. \A k \in DOMAIN rows : FALSE
        BY <1>4
    <2>2. QED BY <2>1 DEF OutcomesAreTrue
<1>12. ClientTypeOK /\ ClientInv
    <2>1. Clients \subseteq Requests
        BY FilesAreRequests
    <2>2. QED
        BY <1>1, <2>1 DEF WebInit, ClientInit, ClientTypeOK, ClientSteps, Bodies, ClientInv, ClientFollows
<1>13. QED BY <1>2, <1>3, <1>6, <1>8, <1>9, <1>10, <1>11, <1>12 DEF IInv, FeedOK, PageOK, SentOK, ClientOK

LEMMA StepInv == IInv /\ [WebNext]_allVars => IInv'
<1> SUFFICES ASSUME IInv, [WebNext]_allVars PROVE IInv'
    OBVIOUS
<1> USE DEF IInv
<1>1. ASSUME UNCHANGED vars PROVE FeedOK' /\ UNCHANGED <<feed, follows, got, handed>>
    BY <1>1 DEF vars, FeedOK, FeedTyped, FeedInv
<1>2. CASE PageNext /\ UNCHANGED clientVars
    <2>1. CASE UserStep
        <3>1. UNCHANGED vars
            BY <2>1 DEF UserStep
        <3>2. FeedOK' /\ UNCHANGED <<feed, follows, got, handed>>
            BY <1>1, <3>1
        <3>3. QED BY <1>2, <2>1, <3>2, UserSteps, ClientsKept
    <2>2. CASE AnswerStep \/ BodyLost \/ StreamBreaks
        BY <1>2, <2>2, AnswerSteps, ClientsKept
    <2>3. QED BY <1>2, <2>1, <2>2 DEF PageNext
<1>3. CASE ClientNext /\ UNCHANGED pageVars
    <2>1. PICK k \in Clients : ClientStep(k) \/ GiveUp(k)
        BY <1>3 DEF ClientNext
    <2>2. /\ FeedOK' /\ ClientOK'
          /\ \A f \in Files : got'[f] = got[f] /\ follows'[f] = follows[f]
        BY <2>1, ClientMoves
    <2>3. QED BY <1>3, <2>2, PageKept
<1>4. ASSUME NEW r \in Requests, Serve(r) PROVE IInv'
    <2>1. Publish(r) /\ UNCHANGED pageVars /\ UNCHANGED clientVars
        BY <1>4 DEF Serve
    <2>2. /\ FeedOK' /\ UNCHANGED <<follows, got, handed>>
          /\ \A q \in Requests : Ended(feed[q]) => feed'[q] = feed[q]
        BY <2>1, PublishStep
    <2>3. PageOK' /\ SentOK'
        BY <2>1, <2>2, PageKept
    <2>4. ClientOK'
        BY <2>1, <2>2, FilesAreRequests, ClientsKept
    <2>5. QED BY <2>2, <2>3, <2>4
<1>5. CASE UNCHANGED allVars
    <2>1. UNCHANGED vars /\ UNCHANGED pageVars /\ UNCHANGED clientVars
        BY <1>5 DEF allVars
    <2>2. FeedOK' /\ UNCHANGED <<feed, follows, got, handed>>
        BY <1>1, <2>1
    <2>3. QED BY <2>1, <2>2, PageKept, ClientsKept
<1>6. QED BY <1>2, <1>3, <1>4, <1>5 DEF WebNext

LEMMA InvAlways == WebSpec => []IInv
BY InitInv, StepInv, PTL DEF WebSpec

\* A batch has at most as many files as there are.
LEMMA TypeFollows == IInv => TypeOK
<1> SUFFICES ASSUME IInv PROVE TypeOK
    OBVIOUS
<1> USE DEF IInv, PageOK
<1>1. job \in Job /\ Cardinality(Files) \in Nat
    BY SelectionsAssumption, FS_CardinalityType DEF PageTyped
<1>2. job.idx \in 0 .. Cardinality(Files) /\ job.fails \in 0 .. job.idx
    <2>1. CASE Running
        <3>1. /\ Begun \in 1 .. Len(rows) /\ Begun = job.idx + 1 /\ job.idx \in Nat /\ Len(rows) \in Nat
              /\ job.fails \in Nat /\ job.fails <= job.idx
            BY <1>1, <2>1, Places, RowsOf DEF CountInv, Job
        <3> DEFINE place == [k \in 1 .. Len(rows) |-> rows[k].file]
        <3>2. place \in Injection(1 .. Len(rows), Files)
            <4>1. place \in [1 .. Len(rows) -> Files]
                BY RowsOf
            <4>2. \A k, l \in 1 .. Len(rows) : place[k] = place[l] => k = l
                BY DEF TableInv
            <4> HIDE DEF place
            <4>3. QED BY <4>1, <4>2 DEF Injection, IsInjective
        <3> HIDE DEF place
        <3>3. Cardinality(1 .. Len(rows)) <= Cardinality(Files)
            BY <3>2, SelectionsAssumption, FS_Injection
        <3>4. Cardinality(1 .. Len(rows)) = Len(rows)
            <4>1. 1 \in Int /\ Len(rows) \in Int /\ ~ (1 > Len(rows)) /\ Len(rows) - 1 + 1 = Len(rows)
                BY <3>1
            <4>2. Cardinality(1 .. Len(rows)) = IF 1 > Len(rows) THEN 0 ELSE Len(rows) - 1 + 1
                BY <4>1, FS_Interval, Zenon
            <4>3. QED BY <4>1, <4>2
        <3>5. QED BY <1>1, <3>1, <3>3, <3>4
    <2>2. CASE ~Running
        <3>1. job.idx = 0 /\ job.fails = 0
            BY <2>2 DEF JobInv, NoJob
        <3>2. QED BY <1>1, <3>1
    <2>3. QED BY <2>1, <2>2
<1>3. \A k \in DOMAIN rows : rows[k].file \in Files /\ rows[k].status \in Outcomes \cup {"Pending", "InProgress"}
    BY RowsOf DEF Statuses
<1>4. QED
    BY <1>1, <1>2, <1>3 DEF TypeOK, PageTypeOK, PageTyped, Job, ClientOK

\* Every variable keeps its type, and the failures that a batch hands on are at most
\* the files that it has finished (index.html, main.rs of the client).
THEOREM WebTypes == WebSpec => []TypeOK
BY InvAlways, TypeFollows, PTL

\* The rows that are pending are those of the files that wait, and the row in progress
\* is that of the file that is submitted (updateFileList, deleteSelection, onComplete).
THEOREM WebTable == WebSpec => []RowsTellTheList
<1>1. IInv => RowsTellTheList
    BY TableAgrees DEF IInv, PageOK
<1>2. QED BY InvAlways, <1>1, PTL

\* "Succeeded" is shown exactly when the server has announced it of that file and the
\* page has heard it, and "Cancelled" only for files that were never sent.
THEOREM WebOutcomes == WebSpec => []OutcomesAreTrue
<1>1. IInv => OutcomesAreTrue
    BY DEF IInv, SentOK
<1>2. QED BY InvAlways, <1>1, PTL

\* The count that one submitOneFile hands to the next is the number of failed rows when
\* the summary tells it.
THEOREM WebSummary == WebSpec => []SummaryCountsFailures
<1>1. IInv => SummaryCountsFailures
    BY DEF IInv, PageOK, CountInv
<1>2. QED BY InvAlways, <1>1, PTL

\* Status 0 of the command line client means that this very conversion has succeeded,
\* and that the answer to the download is at the output path.
THEOREM WebClientSaves == WebSpec => []ClientSavesAnswer
<1>1. IInv => ClientSavesAnswer
    BY DEF IInv, ClientOK, ClientInv, ClientFollows, Answer, ClientSavesAnswer
<1>2. QED BY InvAlways, <1>1, PTL

=============================================================================
