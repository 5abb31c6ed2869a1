------------------------------ MODULE GuiProofs ------------------------------
(***************************************************************************)
(* Theorems of Gui, for any files, any number of batches and any number of *)
(* progress events: the handshake between the worker thread and the event  *)
(* loop; the type of the state; and, if no file is listed twice, what the  *)
(* rows show: the ticked ones are the selected ones, progress is shown for *)
(* its own file, and after a batch each row tells how its file fared.      *)
(***************************************************************************)
EXTENDS Gui, ListTheorems

-----------------------------------------------------------------------------
(* The inductive invariant.                                                *)

Reports == {"start", "progress"}
Results == {"success", "failure"}
Batching == {"top", "converting", "waiting", "end"}

\* Both ends of the channel from the worker are sequences of events.
ChannelType ==
    /\ \E S : events \in Seq(S) /\ outbox \in Seq(S)
    /\ Len(outbox) <= 1
    /\ acks \in Nat /\ batches \in Nat

\* No event tells of a conversion's end.
OnlyReports(s) == \A i \in 1 .. Len(s) : s[i].type \in Reports
\* The last event is the result of the conversion, and the only one.
EndsInResult(s) ==
    /\ s # <<>>
    /\ s[Len(s)].type \in Results
    /\ \A i \in 1 .. Len(s) - 1 : s[i].type \in Reports
Quiet == events = <<>> /\ outbox = <<>>

\* The result that the worker waits for has yet to be put in the channel, or is its
\* last event, or was shown (and acknowledged, unless the row was gone).
Awaited ==
    \/ acks = 0 /\ OnlyReports(events) /\ EndsInResult(outbox)
    \/ acks = 0 /\ outbox = <<>> /\ EndsInResult(events)
    \/ acks <= 1 /\ Quiet

\* What may be on its way between the threads at each place of the worker.
HandshakeInv ==
    /\ pc \in {"none", "finished"} \cup Batching
    /\ pc \in {"none", "top", "end"} => acks = 0 /\ Quiet
    /\ pc = "converting" => acks = 0 /\ OnlyReports(events) /\ OnlyReports(outbox)
    /\ pc = "waiting" => Awaited
    /\ pc = "finished" =>
        /\ acks = 0 /\ outbox = <<>>
        /\ events # <<>> => Len(events) = 1 /\ events[1].type = "ended"

\* No batch can be started while the worker, or its last event, is on its way.
FrozenInv ==
    /\ batches = 0 => pc = "none"
    /\ pc \in Batching \/ (pc = "finished" /\ events # <<>>) => ~convertible /\ ~droppable

Inv == ChannelType /\ HandshakeInv /\ FrozenInv

-----------------------------------------------------------------------------
(* The user's callbacks touch neither channel, and start a batch only when *)
(* all is quiet.                                                           *)

LEMMA ListStep ==
    ASSUME Inv, Select \/ Delete \/ (\E f \in Files : Drop(f)) \/ Cancel
    PROVE  Inv'
<1>1. UNCHANGED <<pc, events, outbox, acks, batches, droppable>>
    BY DEF Select, Delete, Drop, Cancel, SelectionChanged, workerVars, chanVars, histVars
<1>2. convertible' => convertible \/ droppable
    BY DEF Select, Delete, Drop, Cancel, SelectionChanged
<1>3. ChannelType' /\ HandshakeInv'
    BY <1>1 DEF Inv, ChannelType, HandshakeInv, Awaited, Quiet, OnlyReports, EndsInResult
<1>4. FrozenInv'
    BY <1>1, <1>2 DEF Inv, FrozenInv
<1>5. QED BY <1>3, <1>4 DEF Inv

LEMMA StartStep ==
    ASSUME Inv, StartBatch
    PROVE  Inv'
<1>1. pc \notin Batching /\ events = <<>> /\ outbox = <<>> /\ acks = 0
    <2>1. pc \notin Batching /\ (pc = "finished" => events = <<>>)
        BY DEF Inv, FrozenInv, StartBatch, Autoconvert, Batching
    <2>2. QED BY <2>1 DEF Inv, HandshakeInv, Quiet
<1>2. /\ pc' = "top" /\ convertible' = FALSE /\ droppable' = FALSE
      /\ batches' = batches + 1 /\ UNCHANGED <<events, outbox, acks>>
    BY DEF StartBatch, chanVars
<1>3. ChannelType'
    BY <1>2 DEF Inv, ChannelType
<1>4. HandshakeInv'
    BY <1>1, <1>2 DEF HandshakeInv, Quiet, Batching
<1>5. FrozenInv'
    BY <1>2 DEF FrozenInv, Inv, ChannelType
<1>6. QED BY <1>3, <1>4, <1>5 DEF Inv

-----------------------------------------------------------------------------
(* The worker.                                                             *)

\* An event that waits for its wake-up keeps the channel well typed.
LEMMA SendingType ==
    ASSUME ChannelType, NEW e, Sending(e), UNCHANGED batches
    PROVE  ChannelType'
<1>1. PICK S : events \in Seq(S)
    BY DEF ChannelType
<1>2. events' \in Seq(S \cup {e}) /\ outbox' \in Seq(S \cup {e}) /\ Len(outbox') = 1
    BY <1>1 DEF Sending
<1>3. QED BY <1>2 DEF ChannelType, Sending

\* The controls stay as they are while the worker moves.
LEMMA WorkerFreezes ==
    ASSUME Inv, pc \in Batching, UNCHANGED <<convertible, droppable, batches>>
    PROVE  FrozenInv'
BY DEF Inv, FrozenInv, Batching, ChannelType

LEMMA FlushStep ==
    ASSUME Inv, Flush
    PROVE  Inv'
<1>1. /\ outbox # <<>> /\ outbox' = <<>> /\ events' = events \o outbox
      /\ UNCHANGED <<pc, acks, batches, convertible, droppable>>
    BY DEF Flush, workerVars, uiVars, histVars
<1>2. PICK S : events \in Seq(S) /\ outbox \in Seq(S)
    BY DEF Inv, ChannelType
<1>3. events' \in Seq(S) /\ outbox' \in Seq(S) /\ Len(outbox) = 1 /\ Len(events) \in Nat
    <2>1. Len(outbox) \in Nat \ {0} /\ Len(events) \in Nat
        BY <1>1, <1>2, EmptySeq, LenProperties
    <2>2. events' \in Seq(S) /\ outbox' \in Seq(S)
        BY <1>1, <1>2, ConcatProperties, EmptySeq
    <2>3. Len(outbox) <= 1
        BY DEF Inv, ChannelType
    <2>4. \A n \in Nat \ {0} : n <= 1 => n = 1
        OBVIOUS
    <2>5. Len(outbox) = 1
        BY <2>1, <2>3, <2>4, Zenon
    <2>6. QED BY <2>1, <2>2, <2>5, Zenon
<1>4. ChannelType'
    BY <1>1, <1>3 DEF Inv, ChannelType
<1>5. /\ Len(events') = Len(events) + 1
      /\ events'[Len(events) + 1] = outbox[1]
      /\ \A i \in 1 .. Len(events) : events'[i] = events[i]
    <2>1. /\ Len(events') = Len(events) + Len(outbox)
          /\ \A i \in 1 .. Len(events) + Len(outbox) :
                events'[i] = IF i <= Len(events) THEN events[i] ELSE outbox[i - Len(events)]
        BY <1>1, <1>2, ConcatProperties
    <2>2. QED BY <2>1, <1>3
<1>6. pc \in {"converting", "waiting"}
    BY <1>1 DEF Inv, HandshakeInv, Quiet, Batching
<1>7. CASE pc = "converting"
    <2>1. acks = 0 /\ OnlyReports(events) /\ OnlyReports(outbox)
        BY <1>7 DEF Inv, HandshakeInv
    <2>2. OnlyReports(events') /\ OnlyReports(outbox')
        BY <2>1, <1>1, <1>2, <1>3, <1>5 DEF OnlyReports
    <2>3. QED
        BY <2>1, <2>2, <1>1, <1>4, <1>7, WorkerFreezes DEF Inv, HandshakeInv, Batching
<1>8. CASE pc = "waiting"
    <2>1. acks = 0 /\ OnlyReports(events) /\ EndsInResult(outbox)
        BY <1>1, <1>8 DEF Inv, HandshakeInv, Awaited, Quiet
    <2>2. events' # <<>>
        BY <1>1, <1>2, <1>5
    <2>3. EndsInResult(events')
        BY <2>1, <2>2, <1>2, <1>3, <1>5 DEF OnlyReports, EndsInResult
    <2>4. Awaited'
        BY <2>1, <2>3, <1>1 DEF Awaited
    <2>5. QED
        BY <2>4, <1>1, <1>4, <1>8, WorkerFreezes DEF Inv, HandshakeInv, Batching
<1>9. QED BY <1>6, <1>7, <1>8

LEMMA TaskStep ==
    ASSUME Inv, StartTask \/ Progress \/ \E ok \in BOOLEAN : FinishTask(ok)
    PROVE  Inv'
<1>1. PICK e : Sending(e)
    BY DEF StartTask, Progress, FinishTask
<1>2. /\ pc \in {"top", "converting"}
      /\ UNCHANGED <<convertible, droppable, batches>>
    BY DEF StartTask, Progress, FinishTask, uiVars, histVars
<1>3. acks = 0 /\ OnlyReports(events)
    <2>1. CASE pc = "top"
        BY <2>1 DEF Inv, HandshakeInv, Quiet, OnlyReports
    <2>2. CASE pc = "converting"
        BY <2>2 DEF Inv, HandshakeInv
    <2>3. QED BY <1>2, <2>1, <2>2
<1>4. ChannelType'
    BY <1>1, <1>2, SendingType DEF Inv
<1>5. UNCHANGED <<events, acks>>
    BY <1>1 DEF Sending
<1>6. OnlyReports(events')
    BY <1>3, <1>5 DEF OnlyReports
<1>7. CASE StartTask \/ Progress
    <2>1. PICK f : outbox' = <<f>> /\ f.type \in Reports
        BY <1>7 DEF StartTask, Progress, Sending, Reports
    <2>2. OnlyReports(outbox')
        BY <2>1 DEF OnlyReports
    <2>3. pc' = "converting"
        BY <1>7 DEF StartTask, Progress
    <2>4. QED
        BY <2>2, <2>3, <1>2, <1>3, <1>4, <1>5, <1>6, WorkerFreezes DEF Inv, HandshakeInv, Batching
<1>8. CASE \E ok \in BOOLEAN : FinishTask(ok)
    <2>1. PICK f : outbox' = <<f>> /\ f.type \in Results
        BY <1>8 DEF FinishTask, Sending, Results
    <2>2. EndsInResult(outbox')
        BY <2>1 DEF EndsInResult
    <2>3. pc' = "waiting"
        BY <1>8 DEF FinishTask
    <2>4. Awaited'
        BY <2>2, <1>3, <1>5, <1>6 DEF Awaited
    <2>5. QED
        BY <2>3, <2>4, <1>2, <1>4, WorkerFreezes DEF Inv, HandshakeInv, Batching
<1>9. QED BY <1>7, <1>8

\* Between two tasks, and at the end of a batch, nothing is on its way.
LEMMA QuietStep ==
    ASSUME Inv, StopBatch \/ NextTask
    PROVE  Inv'
<1>1. /\ pc \in {"top", "waiting"} /\ pc' \in {"top", "end"}
      /\ UNCHANGED <<events, outbox, batches, convertible, droppable>>
    BY DEF StopBatch, NextTask, Acknowledged, uiVars, chanVars, histVars
<1>2. Quiet /\ acks' = 0
    <2>1. CASE StopBatch
        BY <2>1 DEF StopBatch, Inv, HandshakeInv, chanVars
    <2>2. CASE NextTask
        <3>1. pc = "waiting" /\ acks > 0 /\ acks \in Nat
            BY <2>2 DEF NextTask, Acknowledged, Inv, ChannelType
        <3>2. Quiet /\ acks = 1
            BY <3>1 DEF Inv, HandshakeInv, Awaited
        <3>3. QED BY <2>2, <3>2 DEF NextTask
    <2>3. QED BY <2>1, <2>2
<1>3. ChannelType' /\ Quiet'
    BY <1>1, <1>2 DEF Inv, ChannelType, Quiet
<1>4. QED
    BY <1>1, <1>2, <1>3, WorkerFreezes DEF Inv, HandshakeInv, Batching

LEMMA EndStep ==
    ASSUME Inv, EndBatch
    PROVE  Inv'
<1>1. /\ pc = "end" /\ pc' = "finished" /\ events' = Append(events, EndedEvent)
      /\ UNCHANGED <<outbox, acks, batches, convertible, droppable>>
    BY DEF EndBatch, SentUnderLock, uiVars, histVars
<1>2. acks = 0 /\ events = <<>> /\ outbox = <<>>
    BY <1>1 DEF Inv, HandshakeInv, Quiet
<1>3. events' = <<EndedEvent>> /\ EndedEvent.type = "ended"
    BY <1>1, <1>2 DEF EndedEvent
<1>4. ChannelType'
    <2>1. events' \in Seq({EndedEvent}) /\ outbox' \in Seq({EndedEvent})
        BY <1>1, <1>2, <1>3
    <2>2. QED BY <2>1, <1>1 DEF Inv, ChannelType
<1>5. QED
    BY <1>1, <1>2, <1>3, <1>4, WorkerFreezes DEF Inv, HandshakeInv, Batching

LEMMA SpinStep ==
    ASSUME Inv, Spin
    PROVE  Inv'
<1>1. UNCHANGED <<pc, events, outbox, acks, batches, convertible, droppable>>
    BY DEF Spin, uiVars, workerVars, histVars
<1>2. QED
    BY <1>1 DEF Inv, ChannelType, HandshakeInv, FrozenInv, Awaited, Quiet, OnlyReports, EndsInResult

-----------------------------------------------------------------------------
(* The event loop.                                                         *)

LEMMA TakeStep ==
    ASSUME Inv, TakeEvent
    PROVE  Inv'
<1> DEFINE e == Head(events)
<1>1. events # <<>> /\ events' = Tail(events) /\ UNCHANGED <<pc, outbox, batches>>
    BY DEF TakeEvent, workerVars, histVars
<1>2. PICK S : events \in Seq(S) /\ outbox \in Seq(S)
    BY DEF Inv, ChannelType
<1>3. /\ e = events[1] /\ Len(events) \in Nat \ {0}
      /\ events' \in Seq(S) /\ Len(events') = Len(events) - 1
      /\ \A i \in 1 .. Len(events') : events'[i] = events[i + 1]
    BY <1>1, <1>2
<1>4. /\ UNCHANGED convertible
      /\ e.type \in Reports => UNCHANGED <<acks, droppable>>
      /\ e.type \in Results => acks' \in {acks, acks + 1} /\ UNCHANGED droppable
      /\ e.type = "ended" => UNCHANGED acks
      /\ acks' \in {acks, acks + 1}
    BY DEF TakeEvent, ShowStart, ShowProgress, ShowResult, ShowEnded, uiVars, Reports, Results
<1>5. ChannelType'
    BY <1>1, <1>2, <1>3, <1>4 DEF Inv, ChannelType
<1>6. CASE pc = "converting"
    <2>1. acks = 0 /\ OnlyReports(events) /\ OnlyReports(outbox) /\ e.type \in Reports
        BY <1>6, <1>3 DEF Inv, HandshakeInv, OnlyReports
    <2>2. OnlyReports(events') /\ OnlyReports(outbox')
        BY <2>1, <1>1, <1>3 DEF OnlyReports
    <2>3. QED
        BY <2>1, <2>2, <1>1, <1>4, <1>5, <1>6, WorkerFreezes DEF Inv, HandshakeInv, Batching
<1>7. CASE pc = "waiting"
    <2>1. CASE acks = 0 /\ OnlyReports(events) /\ EndsInResult(outbox)
        <3>1. e.type \in Reports /\ OnlyReports(events')
            BY <2>1, <1>3 DEF OnlyReports
        <3>2. Awaited' /\ UNCHANGED droppable
            BY <3>1, <2>1, <1>1, <1>4 DEF Awaited
        <3>3. QED
            BY <3>2, <1>1, <1>4, <1>5, <1>7, WorkerFreezes DEF Inv, HandshakeInv, Batching
    <2>2. CASE acks = 0 /\ outbox = <<>> /\ EndsInResult(events) /\ Len(events) = 1
        <3>1. e.type \in Results /\ events' = <<>>
            BY <2>2, <1>2, <1>3 DEF EndsInResult
        <3>2. Awaited' /\ UNCHANGED droppable
            BY <3>1, <2>2, <1>1, <1>4 DEF Awaited, Quiet
        <3>3. QED
            BY <3>2, <1>1, <1>4, <1>5, <1>7, WorkerFreezes DEF Inv, HandshakeInv, Batching
    <2>3. CASE acks = 0 /\ outbox = <<>> /\ EndsInResult(events) /\ Len(events) # 1
        <3>1. e.type \in Reports /\ events' # <<>>
            BY <2>3, <1>2, <1>3 DEF EndsInResult
        <3>2. events'[Len(events')] = events[Len(events)]
            BY <2>3, <1>3
        <3>3. \A i \in 1 .. Len(events') - 1 : events'[i].type \in Reports
            BY <2>3, <1>3 DEF EndsInResult
        <3>4. EndsInResult(events')
            BY <3>1, <3>2, <3>3, <2>3 DEF EndsInResult
        <3>5. Awaited' /\ UNCHANGED droppable
            BY <3>1, <3>4, <2>3, <1>1, <1>4 DEF Awaited
        <3>6. QED
            BY <3>5, <1>1, <1>4, <1>5, <1>7, WorkerFreezes DEF Inv, HandshakeInv, Batching
    <2>4. QED BY <1>1, <1>7, <2>1, <2>2, <2>3 DEF Inv, HandshakeInv, Awaited, Quiet
<1>8. CASE pc = "finished"
    <2>1. acks = 0 /\ outbox = <<>> /\ Len(events) = 1 /\ e.type = "ended"
        BY <1>1, <1>3, <1>8 DEF Inv, HandshakeInv
    <2>2. events' = <<>>
        BY <2>1, <1>2, <1>3
    <2>3. QED
        BY <2>1, <2>2, <1>1, <1>4, <1>5, <1>8
        DEF Inv, HandshakeInv, FrozenInv, Batching
<1>9. QED BY <1>1, <1>6, <1>7, <1>8 DEF Inv, HandshakeInv, Quiet, Batching

LEMMA WakeStep ==
    ASSUME Inv, WakeForNothing
    PROVE  Inv'
<1>1. UNCHANGED <<pc, events, outbox, acks, batches, convertible, droppable>>
    BY DEF WakeForNothing, uiVars, workerVars, histVars
<1>2. QED
    BY <1>1 DEF Inv, ChannelType, HandshakeInv, FrozenInv, Awaited, Quiet, OnlyReports, EndsInResult

-----------------------------------------------------------------------------
LEMMA InvAlways == Spec => []Inv
<1>1. Init => Inv
    <2>1. ASSUME Init PROVE ChannelType
        <3>1. events \in Seq({}) /\ outbox \in Seq({})
            BY <2>1 DEF Init
        <3>2. QED BY <2>1, <3>1 DEF Init, ChannelType
    <2>2. QED BY <2>1 DEF Init, Inv, HandshakeInv, FrozenInv, Quiet, Batching
<1>2. Inv /\ [Next]_vars => Inv'
    <2>1. ASSUME Inv, UNCHANGED vars PROVE Inv'
        BY <2>1 DEF vars, uiVars, workerVars, chanVars, histVars, Inv, ChannelType, HandshakeInv,
            FrozenInv, Awaited, Quiet, OnlyReports, EndsInResult
    <2>2. ASSUME Inv, Next PROVE Inv'
        BY <2>2, ListStep, StartStep, FlushStep, TaskStep, QuietStep, EndStep, SpinStep, TakeStep,
            WakeStep DEF Next, WorkerStep, LoopStep, UserStep
    <2>3. QED BY <2>1, <2>2
<1>3. QED BY <1>1, <1>2, PTL DEF Spec

\* No acknowledgement is left over for a later file or a later batch: the worker
\* never takes the answer to one result for another's, though it only polls for
\* any message, and whatever the user deletes, cancels or drops meanwhile.
THEOREM AcksMatchResults == Spec => []OneAckPerResult
<1>1. Inv => OneAckPerResult
    <2>1. ASSUME Inv, acks # 0 PROVE pc = "waiting" /\ acks <= 1 /\ events = <<>>
        BY <2>1 DEF Inv, HandshakeInv, Awaited, Quiet, Batching
    <2>2. QED BY <2>1 DEF OneAckPerResult, Inv, ChannelType
<1>2. QED BY <1>1, InvAlways, PTL

-----------------------------------------------------------------------------
(* The type of the state: deleting rows, one selected index after another. *)

\* Where the worker is, and what it has counted.
WorkerInv ==
    /\ pc \in {"converting", "waiting"} => idx < Len(tasks)
    /\ current_row_idx = IF pc \in {"none", "finished"} THEN 0 ELSE idx
    /\ counts.completed = idx + IF pc = "waiting" THEN 1 ELSE 0
    /\ counts.completed <= Len(tasks)
    /\ counts.failed <= counts.completed

TypeInv == TypeOK /\ WorkerInv

DistinctFiles(list) == \A k, l \in DOMAIN list : list[k].file = list[l].file => k = l


-----------------------------------------------------------------------------
(* Deleting rows.                                                          *)

LEMMA RemoveAtFacts ==
    ASSUME NEW X, NEW s \in Seq(X), NEW k \in 1 .. Len(s)
    PROVE  /\ RemoveAt(s, k) \in Seq(X) /\ Len(RemoveAt(s, k)) = Len(s) - 1
           /\ \A l \in 1 .. Len(s) - 1 : RemoveAt(s, k)[l] = IF l < k THEN s[l] ELSE s[l + 1]
<1> DEFINE a == SubSeq(s, 1, k - 1)
<1> DEFINE b == SubSeq(s, k + 1, Len(s))
<1>1. Len(s) \in Nat /\ k \in Nat /\ k >= 1 /\ k <= Len(s)
    OBVIOUS
<1>2. a \in Seq(X) /\ Len(a) = k - 1 /\ \A l \in 1 .. k - 1 : a[l] = s[l]
    BY <1>1
<1>3. b \in Seq(X) /\ Len(b) = Len(s) - k /\ \A l \in 1 .. Len(s) - k : b[l] = s[k + l]
    BY <1>1
<1> HIDE DEF a, b
<1>4. a \o b \in Seq(X) /\ Len(a \o b) = Len(s) - 1
      /\ \A l \in 1 .. Len(s) - 1 : (a \o b)[l] = IF l <= k - 1 THEN a[l] ELSE b[l - (k - 1)]
    BY <1>1, <1>2, <1>3
<1>5. RemoveAt(s, k) = a \o b
    BY Zenon DEF RemoveAt, a, b
<1>6. ASSUME NEW l \in 1 .. Len(s) - 1 PROVE (a \o b)[l] = IF l < k THEN s[l] ELSE s[l + 1]
    <2>1. CASE l < k
        <3>1. l <= k - 1 /\ l \in 1 .. k - 1
            BY <1>1, <2>1
        <3>2. QED BY <1>2, <1>4, <2>1, <3>1
    <2>2. CASE l >= k
        <3>1. /\ ~ (l <= k - 1) /\ l - (k - 1) \in 1 .. Len(s) - k /\ k + (l - (k - 1)) = l + 1
              /\ ~ (l < k)
            BY <1>1, <2>2
        <3>2. QED BY <1>3, <1>4, <2>2, <3>1
    <2>3. l < k \/ l >= k
        BY <1>1
    <2>4. QED BY <2>1, <2>2, <2>3
<1>7. QED BY <1>4, <1>5, <1>6

\* One of the first n elements is the greatest of them.
HasGreatest(s, n) == \E k \in 1 .. n : \A l \in 1 .. n : s[l] <= s[k]

LEMMA GreaterOfTwo ==
    ASSUME NEW s \in Seq(Nat), NEW n \in 1 .. Len(s) - 1, HasGreatest(s, n)
    PROVE  HasGreatest(s, n + 1)
<1>1. Len(s) \in Nat /\ n + 1 \in 1 .. Len(s) /\ 1 .. n \subseteq 1 .. n + 1 /\ n + 1 \in 1 .. n + 1
      /\ \A l \in 1 .. n + 1 : l = n + 1 \/ l \in 1 .. n
    OBVIOUS
<1>2. PICK k \in 1 .. n : \A l \in 1 .. n : s[l] <= s[k]
    BY DEF HasGreatest
<1>3. \A l \in 1 .. n + 1 : s[l] \in Nat
    BY <1>1
<1>4. CASE s[n + 1] <= s[k]
    <2>1. \A l \in 1 .. n + 1 : s[l] <= s[k]
        BY <1>1, <1>2, <1>4
    <2>2. QED BY <1>1, <2>1 DEF HasGreatest
<1>5. CASE s[k] <= s[n + 1]
    <2>1. ASSUME NEW l \in 1 .. n + 1 PROVE s[l] <= s[n + 1]
        <3>1. CASE l = n + 1
            BY <1>3, <3>1
        <3>2. CASE l \in 1 .. n
            <4>1. s[l] <= s[k] /\ s[l] \in Nat /\ s[k] \in Nat /\ s[n + 1] \in Nat
                BY <1>1, <1>2, <1>3, <3>2
            <4>2. QED BY <1>5, <4>1
        <3>3. QED BY <1>1, <3>1, <3>2
    <2>2. QED BY <1>1, <2>1 DEF HasGreatest
<1>6. s[n + 1] \in Nat /\ s[k] \in Nat
    BY <1>1, <1>3
<1>7. QED BY <1>4, <1>5, <1>6

\* A list of numbers has a greatest one.
LEMMA GreatestExists ==
    ASSUME NEW s \in Seq(Nat), s # <<>>
    PROVE  Greatest(s) \in DOMAIN s /\ \A l \in DOMAIN s : s[l] <= s[Greatest(s)]
<1> DEFINE N == Len(s)
<1> DEFINE P == {n \in 0 .. N : n # 0 => HasGreatest(s, n)}
<1>1. DOMAIN s = 1 .. N /\ N \in Nat /\ N # 0
    OBVIOUS
<1>2. 0 \in P
    BY <1>1
<1>3. ASSUME NEW n \in 0 .. N - 1, n \in P PROVE n + 1 \in P
    <2>1. n + 1 \in 0 .. N /\ (n # 0 => n \in 1 .. N - 1)
        BY <1>1
    <2>2. HasGreatest(s, n + 1)
        <3>1. CASE n = 0
            <4>1. s[1] \in Nat /\ 1 .. n + 1 = {1}
                BY <1>1, <3>1
            <4>2. s[1] <= s[1]
                BY <4>1
            <4>3. QED BY <4>1, <4>2, Zenon DEF HasGreatest
        <3>2. CASE n # 0
            BY <1>3, <2>1, <3>2, GreaterOfTwo
        <3>3. QED BY <3>1, <3>2
    <2>3. QED BY <2>1, <2>2
<1>4. 0 .. N \subseteq P
    <2> HIDE DEF P, N
    <2>1. QED BY <1>1, <1>2, <1>3, BoundedInduction
<1>5. HasGreatest(s, N)
    <2>1. N \in P
        <3> HIDE DEF P
        <3>1. QED BY <1>1, <1>4
    <2>2. QED BY <1>1, <2>1
<1>6. \E k \in DOMAIN s : \A l \in DOMAIN s : s[l] <= s[k]
    BY <1>1, <1>5, Zenon DEF HasGreatest
<1>7. QED BY <1>6, Zenon DEF Greatest

\* The rows after some of the indices were popped.
Popped == [rows : Seq(Row), left : Seq(Nat), ok : BOOLEAN]

\* What is ticked is selected.
TickedSelected == \A k \in 1 .. Len(rows) : rows[k].checked => k - 1 \in Elements(selected)

\* No row is selected twice, and what is selected is ticked.
Ticked == {rows[k] : k \in Checked}
SelectedOnce == Distinct(selected) /\ \A k \in 1 .. Len(selected) : rows[selected[k] + 1].checked

\* So far only ticked rows were removed, and the indices that are left are still those
\* of ticked rows.
Exact(p) ==
    /\ p.ok /\ Distinct(p.left)
    /\ \A q \in 1 .. Len(p.left) : p.left[q] < Len(p.rows) /\ p.rows[p.left[q] + 1].checked
    /\ Without(p.rows, Ticked) = Without(rows, Ticked)

\* No row that is left is ticked unless its index is still to be popped, and every
\* row is one that was in the list, once.
PopInv(p, n) ==
    /\ p \in Popped
    /\ p.ok => Len(p.left) = Len(selected) - n
    /\ p.ok /\ TickedSelected => \A k \in 1 .. Len(p.rows) : p.rows[k].checked => k - 1 \in Elements(p.left)
    /\ Elements(p.rows) \subseteq Elements(rows)
    /\ DistinctFiles(rows) => DistinctFiles(p.rows)
    /\ SelectedOnce => Exact(p)

LEMMA RemoveRowKeeps ==
    ASSUME TypeOKList, NEW p, NEW n \in Nat, n < Len(selected), Len(selected) \in Nat, PopInv(p, n),
           p.ok => p.left # <<>>
    PROVE  PopInv(RemoveRow(p), n + 1)
<1>1. p \in Popped /\ p.rows \in Seq(Row) /\ p.left \in Seq(Nat) /\ p.ok \in BOOLEAN
    BY DEF PopInv, Popped
<1> DEFINE k == Greatest(p.left)
<1> DEFINE i == p.left[k]
<1>2. CASE ~ (p.ok /\ i < Len(p.rows))
    <2>1. RemoveRow(p) = [p EXCEPT !.ok = FALSE]
        BY <1>2, Zenon DEF RemoveRow
    <2>2. /\ RemoveRow(p) \in Popped /\ RemoveRow(p).rows = p.rows /\ ~RemoveRow(p).ok
        BY <1>1, <2>1 DEF Popped
    <2>3. ~SelectedOnce
        <3>1. SUFFICES ASSUME SelectedOnce PROVE FALSE
            OBVIOUS
        <3>2. Exact(p) /\ p.left # <<>>
            BY <3>1 DEF PopInv, Exact
        <3>3. k \in 1 .. Len(p.left)
            <4>1. k \in DOMAIN p.left
                BY <1>1, <3>2, GreatestExists
            <4>2. QED BY <1>1, <4>1
        <3> HIDE DEF k
        <3>4. QED BY <1>2, <3>2, <3>3 DEF Exact
    <2>4. QED BY <2>2, <2>3 DEF PopInv
<1>3. CASE p.ok /\ i < Len(p.rows)
    <2>1. RemoveRow(p) = [p EXCEPT !.rows = RemoveAt(@, i + 1), !.left = RemoveAt(@, k)]
        BY <1>3, Zenon DEF RemoveRow
    <2>2. k \in 1 .. Len(p.left) /\ i \in Nat /\ \A l \in 1 .. Len(p.left) : p.left[l] <= i
        <3>1. k \in DOMAIN p.left /\ \A l \in DOMAIN p.left : p.left[l] <= i
            BY <1>1, <1>3, GreatestExists
        <3>2. QED BY <1>1, <3>1
    <2>3. i + 1 \in 1 .. Len(p.rows) /\ Len(p.rows) \in Nat /\ Len(p.left) \in Nat
        BY <1>1, <1>3, <2>2
    <2> DEFINE r == RemoveAt(p.rows, i + 1)
    <2> DEFINE l == RemoveAt(p.left, k)
    <2>4. /\ r \in Seq(Row) /\ Len(r) = Len(p.rows) - 1
          /\ \A m \in 1 .. Len(p.rows) - 1 : r[m] = IF m < i + 1 THEN p.rows[m] ELSE p.rows[m + 1]
        BY <1>1, <2>3, RemoveAtFacts
    <2>5. /\ l \in Seq(Nat) /\ Len(l) = Len(p.left) - 1
          /\ \A m \in 1 .. Len(p.left) - 1 : l[m] = IF m < k THEN p.left[m] ELSE p.left[m + 1]
        BY <1>1, <2>2, RemoveAtFacts
    <2>6. RemoveRow(p) = [rows |-> r, left |-> l, ok |-> TRUE]
        BY <1>1, <1>3, <2>1 DEF Popped
    <2> HIDE DEF r, l, i, k
    <2>7. RemoveRow(p).rows = r /\ RemoveRow(p).left = l /\ RemoveRow(p).ok = TRUE /\ RemoveRow(p) \in Popped
        BY <2>4, <2>5, <2>6 DEF Popped
    <2>8. Len(l) = Len(selected) - (n + 1)
        <3>1. Len(p.left) = Len(selected) - n
            BY <1>3 DEF PopInv
        <3>2. QED BY <2>5, <3>1
    <2>9. \A m \in 1 .. Len(r) : \E o \in 1 .. Len(p.rows) : r[m] = p.rows[o]
        BY <2>3, <2>4
    <2>10. Elements(r) \subseteq Elements(rows)
        <3>1. DOMAIN r = 1 .. Len(r) /\ DOMAIN p.rows = 1 .. Len(p.rows)
            BY <1>1, <2>4
        <3>2. Elements(r) \subseteq Elements(p.rows)
            BY <2>9, <3>1 DEF Elements
        <3>3. QED BY <3>2 DEF PopInv
    <2>11. ASSUME DistinctFiles(rows) PROVE DistinctFiles(r)
        <3>1. \A a, b \in 1 .. Len(p.rows) : p.rows[a].file = p.rows[b].file => a = b
            BY <1>1, <2>11 DEF PopInv, DistinctFiles
        <3>2. ASSUME NEW a \in 1 .. Len(r), NEW b \in 1 .. Len(r), r[a].file = r[b].file PROVE a = b
            <4> DEFINE at(m) == IF m < i + 1 THEN m ELSE m + 1
            <4>1. at(a) \in 1 .. Len(p.rows) /\ at(b) \in 1 .. Len(p.rows)
                BY <2>3, <2>4
            <4>2. r[a] = p.rows[at(a)] /\ r[b] = p.rows[at(b)]
                BY <2>3, <2>4
            <4>3. at(a) = at(b)
                BY <3>1, <3>2, <4>1, <4>2
            <4>4. QED BY <2>2, <2>3, <4>3
        <3>3. QED BY <2>4, <3>2 DEF DistinctFiles
    <2>12. ASSUME TickedSelected, NEW m \in 1 .. Len(r), r[m].checked PROVE m - 1 \in Elements(l)
        <3>1. \A o \in 1 .. Len(p.rows) : p.rows[o].checked => \E q \in 1 .. Len(p.left) : p.left[q] = o - 1
            <4>1. DOMAIN p.left = 1 .. Len(p.left)
                BY <1>1
            <4>2. \A o \in 1 .. Len(p.rows) : p.rows[o].checked => o - 1 \in Elements(p.left)
                BY <1>3, <2>12 DEF PopInv
            <4>3. QED BY <4>1, <4>2, Zenon DEF Elements
        <3>2. \A o \in 1 .. Len(p.rows) : p.rows[o].checked => o - 1 <= i
            BY <2>2, <3>1
        <3>3. m < i + 1
            <4>1. CASE ~ (m < i + 1)
                <5>1. m + 1 \in 1 .. Len(p.rows) /\ p.rows[m + 1].checked
                    BY <2>3, <2>4, <2>12, <4>1
                <5>2. (m + 1) - 1 <= i
                    BY <3>2, <5>1
                <5>3. QED BY <2>2, <4>1, <5>2
            <4>2. QED BY <4>1
        <3>4. m \in 1 .. Len(p.rows) /\ p.rows[m].checked
            BY <2>3, <2>4, <2>12, <3>3
        <3>5. PICK q \in 1 .. Len(p.left) : p.left[q] = m - 1
            BY <3>1, <3>4
        <3>6. q # k
            BY <2>2, <3>3, <3>5 DEF i
        <3>7. \E o \in 1 .. Len(l) : l[o] = p.left[q]
            <4>1. CASE q < k
                <5>1. q \in 1 .. Len(p.left) - 1
                    BY <2>2, <2>3, <4>1
                <5>2. QED BY <2>5, <4>1, <5>1
            <4>2. CASE q > k
                <5>1. q - 1 \in 1 .. Len(p.left) - 1 /\ ~ (q - 1 < k) /\ (q - 1) + 1 = q
                    BY <2>2, <2>3, <4>2
                <5>2. QED BY <2>5, <5>1
            <4>3. QED BY <2>2, <3>6, <4>1, <4>2
        <3>8. DOMAIN l = 1 .. Len(l)
            BY <2>5
        <3>9. QED BY <3>5, <3>7, <3>8 DEF Elements
    <2>13. ASSUME SelectedOnce PROVE Exact(RemoveRow(p))
        <3>1. Exact(p)
            BY <2>13 DEF PopInv
        <3>2. \A q \in 1 .. Len(p.left) : p.left[q] < Len(p.rows) /\ p.rows[p.left[q] + 1].checked
            BY <3>1 DEF Exact
        <3>3. \A a, b \in 1 .. Len(p.left) : p.left[a] = p.left[b] => a = b
            BY <1>1, <3>1 DEF Exact, Distinct
        <3> DEFINE at(m) == IF m < k THEN m ELSE m + 1
        <3>4. \A m \in 1 .. Len(l) : at(m) \in 1 .. Len(p.left) /\ at(m) # k /\ l[m] = p.left[at(m)]
            BY <2>2, <2>3, <2>5
        <3>5. Distinct(l)
            <4>1. \A a, b \in 1 .. Len(l) : at(a) = at(b) => a = b
                BY <2>2, <2>3, <2>5
            <4>2. \A a, b \in 1 .. Len(l) : l[a] = l[b] => a = b
                <5> HIDE DEF at
                <5>1. QED BY <3>3, <3>4, <4>1
            <4>3. QED BY <2>5, <4>2 DEF Distinct
        <3> HIDE DEF at
        <3>6. ASSUME NEW m \in 1 .. Len(l) PROVE l[m] < Len(r) /\ r[l[m] + 1].checked
            <4>1. l[m] \in Nat /\ l[m] # i /\ l[m] <= i /\ p.rows[l[m] + 1].checked
                <5>1. at(m) \in 1 .. Len(p.left) /\ at(m) # k /\ l[m] = p.left[at(m)] /\ p.left[k] = i
                    BY <3>4 DEF i
                <5>2. p.left[at(m)] # p.left[k] /\ p.left[at(m)] <= i /\ p.rows[p.left[at(m)] + 1].checked
                    BY <2>2, <3>2, <3>3, <5>1
                <5>3. p.left[at(m)] \in Nat
                    BY <1>1, <5>1
                <5>4. QED BY <5>1, <5>2, <5>3
            <4>2. l[m] < i /\ l[m] < Len(p.rows) - 1 /\ l[m] + 1 \in 1 .. Len(p.rows) - 1 /\ l[m] + 1 < i + 1
                BY <2>2, <2>3, <4>1
            <4>3. r[l[m] + 1] = p.rows[l[m] + 1]
                BY <2>4, <4>2
            <4>4. QED BY <2>4, <4>1, <4>2, <4>3
        <3>7. p.rows[i + 1] \in Ticked
            <4>1. p.rows[i + 1].checked
                BY <2>2, <3>2 DEF i
            <4>2. p.rows[i + 1] \in Elements(rows)
                <5>1. p.rows[i + 1] \in Elements(p.rows)
                    BY <1>1, <2>3 DEF Elements
                <5>2. QED BY <5>1 DEF PopInv
            <4>3. QED BY <4>1, <4>2 DEF Elements, Ticked, Checked
        <3>8. Without(r, Ticked) = Without(p.rows, Ticked)
            <4>1. OneLess(r, p.rows, i + 1)
                BY <2>4 DEF OneLess
            <4>2. QED BY <1>1, <2>3, <2>4, <3>7, <4>1, WithoutOneLess
        <3>9. QED BY <2>7, <3>1, <3>5, <3>6, <3>8 DEF Exact
    <2>14. QED BY <2>7, <2>8, <2>10, <2>11, <2>12, <2>13 DEF PopInv
<1>4. QED BY <1>2, <1>3

\* The function that Deleted defines by recursion.
FirstPop == [rows |-> rows, left |-> selected, ok |-> TRUE]
Popping(h) == h = [n \in 0 .. Len(selected) |-> IF n = 0 THEN FirstPop ELSE RemoveRow(h[n - 1])]

\* An index that was selected is an index of a row.
LEMMA SelectedTyped ==
    ASSUME TypeOKList
    PROVE  /\ rows \in Seq(Row) /\ Len(rows) \in Nat /\ DOMAIN rows = 1 .. Len(rows)
           /\ selected \in Seq(Nat) /\ Len(selected) \in Nat /\ DOMAIN selected = 1 .. Len(selected)
           /\ \A k \in 1 .. Len(selected) : selected[k] \in 0 .. Len(rows) - 1
<1>1. rows \in Seq(Row) /\ selected \in Seq(0 .. Len(rows) - 1)
    BY DEF TypeOKList
<1>2. Len(rows) \in Nat /\ DOMAIN rows = 1 .. Len(rows)
    BY <1>1
<1>3. Len(selected) \in Nat /\ DOMAIN selected = 1 .. Len(selected)
      /\ \A k \in 1 .. Len(selected) : selected[k] \in 0 .. Len(rows) - 1
    BY <1>1
<1>4. selected \in Seq(Nat)
    BY <1>1, <1>2
<1>5. QED BY <1>1, <1>2, <1>3, <1>4

LEMMA FirstPopKept ==
    ASSUME TypeOKList
    PROVE  PopInv(FirstPop, 0)
<1>1. FirstPop \in Popped
    BY SelectedTyped DEF FirstPop, Popped
<1>2. /\ FirstPop.rows = rows /\ FirstPop.left = selected /\ FirstPop.ok = TRUE
      /\ Len(selected) = Len(selected) - 0
    BY SelectedTyped DEF FirstPop
<1>3. SelectedOnce => Exact(FirstPop)
    <2>1. \A q \in 1 .. Len(selected) : selected[q] < Len(rows)
        BY SelectedTyped
    <2>2. QED BY <1>2, <2>1 DEF SelectedOnce, Exact
<1>4. QED BY <1>1, <1>2, <1>3 DEF PopInv, TickedSelected

\* An empty list is never popped.
LEMMA LeftToPop ==
    ASSUME TypeOKList, NEW n \in 0 .. Len(selected) - 1, NEW p, PopInv(p, n), p.ok
    PROVE  p.left # <<>>
<1>1. Len(p.left) = Len(selected) - n /\ Len(selected) \in Nat
    BY SelectedTyped DEF PopInv
<1>2. Len(p.left) # 0
    BY <1>1
<1>3. QED BY <1>2

Guarded(p) == IF p.ok /\ p.left = <<>> THEN p ELSE RemoveRow(p)

LEMMA GuardedType ==
    ASSUME NEW p \in Popped
    PROVE  Guarded(p) \in Popped
<1>1. p.rows \in Seq(Row) /\ p.left \in Seq(Nat) /\ p.ok \in BOOLEAN
    BY DEF Popped
<1>2. CASE p.ok /\ p.left = <<>>
    BY <1>2 DEF Guarded
<1>3. CASE ~p.ok
    <2>1. RemoveRow(p) = [p EXCEPT !.ok = FALSE]
        BY <1>3, Zenon DEF RemoveRow
    <2>2. QED BY <1>1, <1>3, <2>1 DEF Guarded, Popped
<1>4. CASE p.ok /\ p.left # <<>>
    <2> DEFINE k == Greatest(p.left)
    <2> DEFINE i == p.left[k]
    <2>1. k \in 1 .. Len(p.left) /\ i \in Nat
        BY <1>1, <1>4, GreatestExists
    <2>2. CASE ~ (i < Len(p.rows))
        <3>1. RemoveRow(p) = [p EXCEPT !.ok = FALSE]
            BY <2>2, Zenon DEF RemoveRow
        <3>2. QED BY <1>1, <1>4, <3>1 DEF Guarded, Popped
    <2>3. CASE i < Len(p.rows)
        <3>1. RemoveRow(p) = [p EXCEPT !.rows = RemoveAt(@, i + 1), !.left = RemoveAt(@, k)]
            BY <1>4, <2>3, Zenon DEF RemoveRow
        <3>2. i + 1 \in 1 .. Len(p.rows)
            BY <1>1, <2>1, <2>3
        <3>3. RemoveAt(p.rows, i + 1) \in Seq(Row) /\ RemoveAt(p.left, k) \in Seq(Nat)
            BY <1>1, <2>1, <3>2, RemoveAtFacts
        <3> HIDE DEF i, k
        <3>4. QED BY <1>1, <1>4, <3>1, <3>3 DEF Guarded, Popped
    <2>4. QED BY <2>2, <2>3
<1>5. QED BY <1>1, <1>2, <1>3, <1>4

LEMMA PoppingExists ==
    ASSUME TypeOKList
    PROVE  \E h : Popping(h) /\ \A n \in 0 .. Len(selected) : PopInv(h[n], n)
<1> DEFINE N == Len(selected)
<1> DEFINE g == [x \in Popped \X (1 .. N) |-> Guarded(x[1])]
<1>1. N \in Nat /\ FirstPop \in Popped /\ PopInv(FirstPop, 0)
    BY SelectedTyped, FirstPopKept DEF PopInv
<1>2. g \in [Popped \X (1 .. N) -> Popped]
    BY GuardedType
<1>3. PICK h \in [0 .. N -> Popped] : IsRecursion(h, N, FirstPop, g)
    <2> HIDE DEF g, N
    <2>1. QED BY <1>1, <1>2, RecursionExists
<1>4. ASSUME NEW n \in 1 .. N PROVE h[n] = Guarded(h[n - 1])
    <2>1. n - 1 \in 0 .. N /\ h[n - 1] \in Popped
        BY <1>1, <1>3
    <2>2. h[n] = g[<<h[n - 1], n>>]
        <3> HIDE DEF g
        <3>1. QED BY <1>3 DEF IsRecursion
    <2>3. <<h[n - 1], n>> \in Popped \X (1 .. N)
        BY <2>1
    <2>4. g[<<h[n - 1], n>>] = Guarded(h[n - 1])
        BY <2>3
    <2>5. QED BY <2>2, <2>4
<1>5. h[0] = FirstPop
    BY <1>3 DEF IsRecursion
<1> HIDE DEF g
<1> DEFINE P == {n \in 0 .. N : PopInv(h[n], n)}
<1>6. 0 \in P
    BY <1>1, <1>5
<1>7. ASSUME NEW n \in 0 .. N - 1, n \in P PROVE n + 1 \in P /\ h[n + 1] = RemoveRow(h[n])
    <2>1. n + 1 \in 1 .. N /\ n + 1 \in 0 .. N /\ (n + 1) - 1 = n /\ n \in Nat /\ n < N
        BY <1>1
    <2>2. PopInv(h[n], n)
        BY <1>7
    <2>3. h[n].ok => h[n].left # <<>>
        BY <2>2, LeftToPop
    <2>4. h[n + 1] = Guarded(h[n])
        BY <1>4, <2>1
    <2>5. h[n + 1] = RemoveRow(h[n])
        BY <2>3, <2>4, Zenon DEF Guarded
    <2>6. PopInv(h[n + 1], n + 1)
        BY <1>1, <2>1, <2>2, <2>3, <2>5, RemoveRowKeeps
    <2>7. QED BY <2>1, <2>5, <2>6
<1>8. 0 .. N \subseteq P
    <2> HIDE DEF P, N
    <2>1. QED BY <1>1, <1>6, <1>7, BoundedInduction
<1> DEFINE e == [n \in 0 .. N |-> IF n = 0 THEN FirstPop ELSE RemoveRow(h[n - 1])]
<1>9. ASSUME NEW n \in 0 .. N PROVE h[n] = e[n]
    <2>1. CASE n = 0
        BY <1>5, <2>1
    <2>2. CASE n # 0
        <3>1. n - 1 \in 0 .. N - 1 /\ n - 1 \in 0 .. N /\ (n - 1) + 1 = n
            BY <1>1, <2>2
        <3>2. n - 1 \in P
            <4> HIDE DEF P
            <4>1. QED BY <1>8, <3>1
        <3>3. h[n] = RemoveRow(h[n - 1])
            <4> HIDE DEF P
            <4>1. QED BY <1>7, <3>1, <3>2
        <3>4. QED BY <2>2, <3>3
    <2>3. QED BY <2>1, <2>2
<1>10. h = [n \in 0 .. N |-> h[n]] /\ e = [n \in 0 .. N |-> e[n]]
    BY <1>3
<1>11. h = e
    <2> HIDE DEF e, P
    <2>1. QED BY <1>9, <1>10
<1>12. Popping(h)
    BY <1>11, Zenon DEF Popping
<1>13. \A n \in 0 .. N : PopInv(h[n], n)
    BY <1>8
<1>14. QED BY <1>12, <1>13

\* What is left of the list after a deletion that does not panic has no ticked row;
\* whether it panics or not, no row is new and none comes twice. If no row is selected
\* twice it does not panic, and removes exactly the ticked rows.
LEMMA DeletedFacts ==
    ASSUME TypeOKList
    PROVE  /\ Deleted.rows \in Seq(Row) /\ Deleted.ok \in BOOLEAN
           /\ Elements(Deleted.rows) \subseteq Elements(rows)
           /\ DistinctFiles(rows) => DistinctFiles(Deleted.rows)
           /\ Deleted.ok /\ TickedSelected => \A k \in 1 .. Len(Deleted.rows) : ~Deleted.rows[k].checked
           /\ TickedSelected /\ SelectedOnce => Deleted.ok /\ Deleted.rows = Without(rows, Ticked)
<1> DEFINE N == Len(selected)
<1> DEFINE h == CHOOSE x : Popping(x)
<1>1. N \in Nat
    BY SelectedTyped
<1>2. Popping(h)
    <2>1. \E x : Popping(x)
        BY PoppingExists
    <2>2. QED BY <2>1, Zenon
<1>3. Deleted = h[N]
    BY Zenon DEF Deleted, Popping, FirstPop
<1> HIDE DEF h
<1>4. PICK k : Popping(k) /\ \A n \in 0 .. N : PopInv(k[n], n)
    BY PoppingExists
<1>5. ASSUME NEW f, Popping(f)
      PROVE  f[0] = FirstPop /\ \A n \in 0 .. N - 1 : f[n + 1] = RemoveRow(f[n])
    <2>1. \A n \in 0 .. N : f[n] = IF n = 0 THEN FirstPop ELSE RemoveRow(f[n - 1])
        BY <1>5, Zenon DEF Popping
    <2>2. 0 \in 0 .. N /\ \A n \in 0 .. N - 1 : n + 1 \in 0 .. N /\ n + 1 # 0 /\ (n + 1) - 1 = n
        BY <1>1
    <2>3. f[0] = FirstPop
        BY <2>1, <2>2
    <2>4. ASSUME NEW n \in 0 .. N - 1 PROVE f[n + 1] = RemoveRow(f[n])
        <3>1. n + 1 \in 0 .. N /\ n + 1 # 0 /\ (n + 1) - 1 = n
            BY <2>2
        <3>2. f[n + 1] = RemoveRow(f[(n + 1) - 1])
            BY <2>1, <3>1, Zenon
        <3>3. QED BY <3>1, <3>2
    <2>5. QED BY <2>3, <2>4
<1> DEFINE P == {n \in 0 .. N : h[n] = k[n]}
<1>6. 0 \in P
    BY <1>1, <1>2, <1>4, <1>5
<1>7. ASSUME NEW n \in 0 .. N - 1, n \in P PROVE n + 1 \in P
    <2>1. h[n + 1] = RemoveRow(h[n]) /\ k[n + 1] = RemoveRow(k[n]) /\ h[n] = k[n]
        BY <1>2, <1>4, <1>5, <1>7
    <2>2. n + 1 \in 0 .. N
        BY <1>1
    <2>3. QED BY <2>1, <2>2
<1>8. 0 .. N \subseteq P
    <2> HIDE DEF P, N
    <2>1. QED BY <1>1, <1>6, <1>7, BoundedInduction
<1>9. PopInv(Deleted, N)
    <2>1. N \in 0 .. N
        BY <1>1
    <2>2. h[N] = k[N]
        BY <1>8, <2>1
    <2>3. QED BY <1>3, <1>4, <2>1, <2>2
<1>10. Deleted.left \in Seq(Nat) /\ Deleted.rows \in Seq(Row) /\ Deleted.ok \in BOOLEAN
    BY <1>9 DEF PopInv, Popped
<1>11. ASSUME Deleted.ok, TickedSelected PROVE \A m \in 1 .. Len(Deleted.rows) : ~Deleted.rows[m].checked
    <2>1. Len(Deleted.left) = 0
        BY <1>1, <1>9, <1>11 DEF PopInv
    <2>2. Elements(Deleted.left) = {}
        BY <1>10, <2>1 DEF Elements
    <2>3. QED BY <1>9, <1>11, <2>2 DEF PopInv
<1>12. ASSUME TickedSelected, SelectedOnce PROVE Deleted.ok /\ Deleted.rows = Without(rows, Ticked)
    <2>1. Exact(Deleted)
        BY <1>9, <1>12 DEF PopInv
    <2>2. \A m \in 1 .. Len(Deleted.rows) : ~Deleted.rows[m].checked
        BY <1>11, <1>12, <2>1 DEF Exact
    <2>3. \A m \in 1 .. Len(Deleted.rows) : Deleted.rows[m] \notin Ticked
        BY <2>2 DEF Ticked, Checked
    <2>4. Without(Deleted.rows, Ticked) = Deleted.rows
        BY <1>10, <2>3, WithoutNone
    <2>5. QED BY <2>1, <2>4 DEF Exact
<1>13. QED BY <1>9, <1>10, <1>11, <1>12 DEF PopInv

-----------------------------------------------------------------------------
(* The state is well typed.                                                *)

FlagsTyped ==
    /\ is_converting \in BOOLEAN /\ convertible \in BOOLEAN /\ droppable \in BOOLEAN
    /\ selectable \in BOOLEAN /\ overall \in BOOLEAN /\ cancellable \in BOOLEAN
    /\ stop_requested \in BOOLEAN /\ awake \in BOOLEAN /\ asked \in BOOLEAN /\ disturbed \in BOOLEAN
QueueTyped ==
    /\ events \in Seq(Event) /\ outbox \in Seq(Event) /\ Len(outbox) <= 1
    /\ acks \in Nat /\ batches \in Nat /\ reported \in Nat
WorkTyped ==
    /\ current_row_idx \in Nat
    /\ summary \in [text : {"none", "log", "cancelled", "some_failed", "all_failed"},
                    color : {"black", "cancelled", "succeeded", "failed"}]
    /\ pc \in {"none", "top", "converting", "waiting", "end", "finished"}
    /\ tasks \in Seq(Files)
    /\ idx \in 0 .. Len(tasks)
    /\ counts \in [completed : Nat, failed : Nat]
    /\ outcome \in [Files -> {"none", "ok", "error"}]

LEMMA TypeParts == TypeOK <=> TypeOKList /\ FlagsTyped /\ QueueTyped /\ WorkTyped
BY DEF TypeOK, FlagsTyped, QueueTyped, WorkTyped

Typed == TypeOKList /\ FlagsTyped /\ QueueTyped /\ WorkTyped /\ WorkerInv

LEMMA TypedIsTypeInv == TypeInv <=> Typed
BY TypeParts DEF TypeInv, Typed

\* A list with other rows in the same places.
LEMMA SameLength ==
    ASSUME TypeOKList, rows' \in Seq(Row), Len(rows') = Len(rows), UNCHANGED selected, panicked' \in BOOLEAN
    PROVE  TypeOKList'
BY DEF TypeOKList

LEMMA RowIndexTyped ==
    ASSUME TypeOKList, NEW i \in DOMAIN rows
    PROVE  /\ RowIndex(rows[i].file) \in 0 .. Len(rows) - 1
           /\ rows[RowIndex(rows[i].file) + 1].file = rows[i].file
<1> DEFINE f == rows[i].file
<1> DEFINE S == {k \in DOMAIN rows : rows[k].file = f}
<1>1. DOMAIN rows = 1 .. Len(rows) /\ Len(rows) \in Nat
    BY SelectedTyped
<1>2. S \subseteq Nat /\ S # {}
    BY <1>1
<1>3. PICK k \in S : \A l \in S : k <= l
    <2> HIDE DEF S
    <2>1. QED BY <1>2, LeastNat
<1>4. rows[k].file = f /\ k \in DOMAIN rows /\ \A j \in 1 .. k - 1 : rows[j].file # f
    BY <1>1, <1>3
<1>5. \E l \in DOMAIN rows : rows[l].file = f /\ \A j \in 1 .. l - 1 : rows[j].file # f
    BY <1>4
<1> DEFINE c == CHOOSE l \in DOMAIN rows : rows[l].file = f /\ \A j \in 1 .. l - 1 : rows[j].file # f
<1>6. c \in DOMAIN rows /\ rows[c].file = f
    BY <1>5, Zenon
<1>7. RowIndex(f) = c - 1
    BY Zenon DEF RowIndex
<1> HIDE DEF c, f
<1>8. c - 1 \in 0 .. Len(rows) - 1 /\ (c - 1) + 1 = c
    BY <1>1, <1>6
<1>9. RowIndex(f) \in 0 .. Len(rows) - 1 /\ rows[RowIndex(f) + 1].file = f
    BY <1>6, <1>7, <1>8
<1>10. QED BY <1>9 DEF f

\* The user changes the selection.
LEMMA SelectTyped ==
    ASSUME TypeOKList, \/ \E i \in DOMAIN rows : ClickRow(i)
                       \/ SelectAll
                       \/ DeselectAll
    PROVE  /\ TypeOKList' /\ Len(rows') = Len(rows)
<1>1. /\ rows \in Seq(Row) /\ Len(rows) \in Nat /\ DOMAIN rows = 1 .. Len(rows)
      /\ selected \in Seq(0 .. Len(rows) - 1) /\ panicked \in BOOLEAN
      /\ \A k \in 1 .. Len(rows) : rows[k] \in Row
    BY SelectedTyped DEF TypeOKList
<1>2. ASSUME NEW i \in DOMAIN rows, ClickRow(i) PROVE TypeOKList' /\ Len(rows') = Len(rows)
    <2> DEFINE x == RowIndex(rows[i].file)
    <2>1. x \in 0 .. Len(rows) - 1
        BY <1>2, RowIndexTyped
    <2>2. /\ rows' = [rows EXCEPT ![i].checked = ~rows[i].checked]
          /\ selected' \in {Append(selected, x), Without(selected, {x})}
          /\ UNCHANGED panicked
        BY <1>2, Zenon DEF ClickRow
    <2>3. rows' \in Seq(Row) /\ Len(rows') = Len(rows)
        <3>1. [rows[i] EXCEPT !.checked = ~rows[i].checked] \in Row
            BY <1>1, <1>2 DEF Row
        <3>2. rows' = [rows EXCEPT ![i] = [rows[i] EXCEPT !.checked = ~rows[i].checked]]
            BY <2>2
        <3>3. QED BY <1>1, <1>2, <3>1, <3>2
    <2> HIDE DEF x
    <2>4. selected' \in Seq(0 .. Len(rows) - 1)
        <3>1. Append(selected, x) \in Seq(0 .. Len(rows) - 1)
            BY <1>1, <2>1
        <3>2. Without(selected, {x}) \in Seq(0 .. Len(rows) - 1)
            BY <1>1, WithoutElements
        <3>3. QED BY <2>2, <3>1, <3>2
    <2>5. QED BY <1>1, <2>2, <2>3, <2>4 DEF TypeOKList
<1>3. ASSUME NEW b \in BOOLEAN PROVE Toggled(b) \in Seq(Row) /\ Len(Toggled(b)) = Len(rows)
    <2>1. \A k \in 1 .. Len(rows) : [rows[k] EXCEPT !.checked = b] \in Row
        BY <1>1 DEF Row
    <2>2. \A k \in 1 .. Len(rows) : (IF rows[k].active THEN [rows[k] EXCEPT !.checked = b] ELSE rows[k]) \in Row
        BY <1>1, <2>1
    <2>3. QED BY <1>1, <2>2 DEF Toggled
<1>4. CASE SelectAll
    <2>1. rows' = Toggled(TRUE) /\ selected' = selected \o RowIndices /\ UNCHANGED panicked
        BY <1>4 DEF SelectAll
    <2>2. RowIndices \in Seq(0 .. Len(rows) - 1)
        BY <1>1 DEF RowIndices
    <2>3. selected' \in Seq(0 .. Len(rows) - 1)
        BY <1>1, <2>1, <2>2
    <2>4. QED BY <1>1, <1>3, <2>1, <2>3 DEF TypeOKList
<1>5. CASE DeselectAll
    <2>1. rows' = Toggled(FALSE) /\ selected' = <<>> /\ UNCHANGED panicked
        BY <1>5 DEF DeselectAll
    <2>2. rows' \in Seq(Row) /\ Len(rows') = Len(rows)
        BY <1>3, <2>1
    <2>3. selected' \in Seq(0 .. Len(rows') - 1) /\ panicked' \in BOOLEAN
        BY <1>1, <2>1
    <2>4. QED BY <2>2, <2>3 DEF TypeOKList
<1>6. QED BY <1>2, <1>4, <1>5

LEMMA UserTyped ==
    ASSUME Typed, Select \/ Delete \/ (\E f \in Files : Drop(f)) \/ Cancel
    PROVE  Typed'
<1>1. /\ UNCHANGED <<pc, tasks, idx, counts, reported, outbox, events, acks, awake, outcome, batches,
                     current_row_idx>>
      /\ UNCHANGED summary \/ summary' = NoSummary
    BY DEF Select, Delete, Drop, Cancel, workerVars, chanVars, histVars
<1>2. QueueTyped' /\ WorkerInv'
    BY <1>1 DEF Typed, QueueTyped, WorkerInv
<1>3. WorkTyped'
    BY <1>1 DEF Typed, WorkTyped, NoSummary
<1>4. FlagsTyped'
    <2>1. CASE Select
        BY <2>1 DEF Select, SelectionChanged, chanVars, histVars, Typed, FlagsTyped
    <2>2. CASE Delete
        BY <2>2 DEF Delete, SelectionChanged, chanVars, histVars, Typed, FlagsTyped
    <2>3. CASE \E f \in Files : Drop(f)
        BY <2>3 DEF Drop, chanVars, histVars, Typed, FlagsTyped
    <2>4. CASE Cancel
        BY <2>4 DEF Cancel, chanVars, histVars, Typed, FlagsTyped
    <2>5. QED BY <2>1, <2>2, <2>3, <2>4
<1>5. TypeOKList'
    <2>1. CASE Select
        BY <2>1, SelectTyped DEF Select, Typed
    <2>2. CASE Delete
        <3>1. rows' = Deleted.rows /\ panicked' = ~Deleted.ok /\ selected' = <<>>
            BY <2>2 DEF Delete, DeleteSelection
        <3>2. Deleted.rows \in Seq(Row) /\ Deleted.ok \in BOOLEAN
            BY DeletedFacts DEF Typed
        <3>3. QED BY <3>1, <3>2 DEF TypeOKList
    <2>3. CASE \E f \in Files : Drop(f)
        <3>1. PICK f \in Files : Drop(f)
            BY <2>3
        <3>2. NewRow(f) \in Row
            BY DEF NewRow, Row, Status
        <3>3. rows \in Seq(Row) /\ selected \in Seq(0 .. Len(rows) - 1) /\ panicked \in BOOLEAN
            BY DEF Typed, TypeOKList
        <3>4. CASE is_converting
            <4>1. rows' = <<NewRow(f)>> /\ selected' = <<>> /\ panicked' = panicked
                BY <3>1, <3>4 DEF Drop
            <4>2. QED BY <3>2, <3>3, <4>1 DEF TypeOKList
        <3>5. CASE ~is_converting
            <4>1. rows' = Append(rows, NewRow(f)) /\ selected' = selected /\ panicked' = panicked
                BY <3>1, <3>5 DEF Drop
            <4>2. Len(rows) \in Nat /\ Len(rows') = Len(rows) + 1 /\ rows' \in Seq(Row)
                BY <3>2, <3>3, <4>1
            <4>3. selected \in Seq(0 .. Len(rows') - 1)
                <5>1. DOMAIN selected = 1 .. Len(selected) /\ Len(selected) \in Nat
                      /\ \A k \in 1 .. Len(selected) : selected[k] \in 0 .. Len(rows) - 1
                    BY SelectedTyped DEF Typed
                <5>2. \A k \in 1 .. Len(selected) : selected'[k] \in 0 .. Len(rows') - 1
                    BY <4>1, <4>2, <5>1
                <5>3. selected' = [k \in 1 .. Len(selected) |-> selected'[k]]
                    BY <3>3, <4>1, <5>1
                <5>4. selected' \in Seq(0 .. Len(rows') - 1)
                    BY <5>1, <5>2, <5>3
                <5>5. QED BY <4>1, <5>4
            <4>4. QED BY <3>3, <4>1, <4>2, <4>3 DEF TypeOKList
        <3>6. QED BY <3>4, <3>5
    <2>4. CASE Cancel
        BY <2>4 DEF Cancel, listVars, Typed, TypeOKList
    <2>5. QED BY <2>1, <2>2, <2>3, <2>4
<1>6. QED BY <1>2, <1>3, <1>4, <1>5 DEF Typed

LEMMA StartTyped ==
    ASSUME Typed, Inv, StartBatch
    PROVE  Typed'
<1>1. rows \in Seq(Row) /\ DOMAIN rows = 1 .. Len(rows) /\ Len(rows) \in Nat
      /\ \A k \in 1 .. Len(rows) : rows[k] \in Row /\ rows[k].file \in Files
    <2>1. rows \in Seq(Row)
        BY DEF Typed, TypeOKList
    <2>2. DOMAIN rows = 1 .. Len(rows) /\ Len(rows) \in Nat /\ \A k \in 1 .. Len(rows) : rows[k] \in Row
        BY <2>1
    <2>3. \A r \in Row : r.file \in Files
        BY DEF Row
    <2>4. QED BY <2>1, <2>2, <2>3
<1>2. rows' = [k \in DOMAIN rows |-> [rows[k] EXCEPT !.active = FALSE]] /\ UNCHANGED <<selected, panicked>>
      /\ tasks' = [k \in DOMAIN rows |-> rows[k].file]
    BY DEF StartBatch
<1>3. rows' \in Seq(Row) /\ Len(rows') = Len(rows)
    <2>1. \A k \in 1 .. Len(rows) : [rows[k] EXCEPT !.active = FALSE] \in Row
        BY <1>1 DEF Row
    <2>2. QED BY <1>1, <1>2, <2>1
<1>4. tasks' \in Seq(Files) /\ Len(tasks') = Len(rows)
    BY <1>1, <1>2
<1>5. /\ pc' = "top" /\ idx' = 0 /\ reported' = 0 /\ counts' = [completed |-> 0, failed |-> 0]
      /\ outcome' = [f \in Files |-> "none"] /\ batches' = batches + 1
      /\ UNCHANGED <<outbox, events, acks, awake, current_row_idx, summary, stop_requested>>
    BY DEF StartBatch, chanVars
<1>6. TypeOKList'
    BY <1>2, <1>3, SameLength DEF Typed, TypeOKList
<1>7. QueueTyped'
    BY <1>5 DEF Typed, QueueTyped
<1>8. WorkTyped'
    BY <1>1, <1>4, <1>5 DEF Typed, WorkTyped
<1>9. FlagsTyped'
    BY <1>5 DEF StartBatch, Typed, FlagsTyped
<1>10. current_row_idx = 0
    <2>1. pc \notin Batching
        BY DEF Inv, FrozenInv, StartBatch, Autoconvert, Batching
    <2>2. pc \in {"none", "finished"}
        BY <2>1 DEF Typed, WorkTyped, Batching
    <2>3. QED BY <2>2 DEF Typed, WorkerInv
<1>11. WorkerInv'
    BY <1>1, <1>4, <1>5, <1>10 DEF WorkerInv
<1>12. QED BY <1>6, <1>7, <1>8, <1>9, <1>11 DEF Typed

\* The worker moves.
LEMMA SendTyped ==
    ASSUME QueueTyped, NEW e \in Event, Sending(e), UNCHANGED batches, reported' \in Nat
    PROVE  QueueTyped'
BY DEF QueueTyped, Sending

LEMMA TaskTyped ==
    ASSUME WorkTyped, idx < Len(tasks)
    PROVE  tasks[idx + 1] \in Files /\ idx \in Nat /\ idx + 1 \in 1 .. Len(tasks)
<1>1. tasks \in Seq(Files) /\ idx \in 0 .. Len(tasks) /\ Len(tasks) \in Nat
    BY DEF WorkTyped
<1>2. idx + 1 \in 1 .. Len(tasks) /\ idx \in Nat
    BY <1>1
<1>3. QED BY <1>1, <1>2

LEMMA WorkerTyped ==
    ASSUME Typed, Inv, WorkerStep \/ Spin
    PROVE  Typed'
<1>1. UNCHANGED <<listVars, uiVars, summary, tasks, batches, asked, disturbed>>
    BY DEF WorkerStep, Spin, Flush, StartTask, StopBatch, Progress, FinishTask, NextTask, EndBatch,
        workerVars, histVars
<1>2. TypeOKList'
    BY <1>1 DEF Typed, TypeOKList, listVars
<1>3. stop_requested' \in BOOLEAN /\ awake' \in BOOLEAN
    BY DEF WorkerStep, Spin, Flush, StartTask, StopBatch, Progress, FinishTask, NextTask, EndBatch,
        SentUnderLock, Sending, chanVars, Typed, FlagsTyped
<1>4. FlagsTyped'
    BY <1>1, <1>3 DEF Typed, FlagsTyped, uiVars
<1>5. CASE Flush \/ Spin
    <2>1. /\ UNCHANGED <<current_row_idx, workerVars, histVars, acks>>
          /\ events' \in Seq(Event) /\ outbox' \in Seq(Event) /\ Len(outbox') <= 1
        <3>1. events \in Seq(Event) /\ outbox \in Seq(Event) /\ Len(outbox) <= 1
            BY DEF Typed, QueueTyped
        <3>2. CASE Flush
            <4>1. events' = events \o outbox /\ outbox' = <<>>
                  /\ UNCHANGED <<current_row_idx, workerVars, histVars, acks>>
                BY <3>2 DEF Flush
            <4>2. events' \in Seq(Event) /\ outbox' \in Seq(Event) /\ Len(outbox') <= 1
                BY <3>1, <4>1
            <4>3. QED BY <4>1, <4>2
        <3>3. CASE Spin
            BY <3>1, <3>3 DEF Spin
        <3>4. QED BY <1>5, <3>2, <3>3
    <2>2. QED
        BY <1>1, <1>2, <1>4, <2>1
        DEF Typed, WorkTyped, WorkerInv, QueueTyped, workerVars, histVars
<1>6. CASE StartTask
    <2>1. /\ pc' = "converting" /\ reported' = 0 /\ pc = "top" /\ idx < Len(tasks)
          /\ UNCHANGED <<current_row_idx, idx, counts, outcome>>
        BY <1>6 DEF StartTask, histVars
    <2> DEFINE e == [type |-> "start", row |-> idx, file |-> tasks[idx + 1]]
    <2>2. e \in Event
        BY <2>1, TaskTyped DEF Typed, Event
    <2>3. Sending(e) /\ reported' \in Nat
        BY <1>6, <2>1 DEF StartTask
    <2> HIDE DEF e
    <2>4. QueueTyped'
        BY <1>1, <2>2, <2>3, SendTyped DEF Typed
    <2>5. QED
        BY <1>1, <1>2, <1>4, <2>1, <2>4 DEF Typed, WorkTyped, WorkerInv
<1>7. CASE Progress
    <2>1. /\ pc' = "converting" /\ pc = "converting" /\ reported' = reported + 1
          /\ UNCHANGED <<current_row_idx, idx, counts, outcome>>
        BY <1>7 DEF Progress, histVars
    <2>2. idx < Len(tasks) /\ reported' \in Nat
        BY <2>1 DEF Typed, WorkerInv, QueueTyped
    <2> DEFINE e == [type |-> "progress", row |-> 0, file |-> tasks[idx + 1]]
    <2>3. e \in Event
        BY <2>2, TaskTyped DEF Typed, Event
    <2>4. Sending(e)
        BY <1>7 DEF Progress
    <2> HIDE DEF e
    <2>5. QueueTyped'
        BY <1>1, <2>2, <2>3, <2>4, SendTyped DEF Typed
    <2>6. QED
        BY <1>1, <1>2, <1>4, <2>1, <2>5 DEF Typed, WorkTyped, WorkerInv
<1>8. ASSUME NEW ok \in BOOLEAN, FinishTask(ok) PROVE Typed'
    <2>1. /\ pc' = "waiting" /\ pc = "converting"
          /\ counts' = [completed |-> counts.completed + 1,
                        failed |-> IF ok THEN counts.failed ELSE counts.failed + 1]
          /\ outcome' = [outcome EXCEPT ![tasks[idx + 1]] = IF ok THEN "ok" ELSE "error"]
          /\ UNCHANGED <<current_row_idx, idx, reported>>
        BY <1>8 DEF FinishTask
    <2>2. idx < Len(tasks) /\ reported' \in Nat /\ counts.completed = idx /\ counts.failed <= idx
          /\ counts.failed \in Nat /\ idx \in Nat /\ Len(tasks) \in Nat /\ current_row_idx = idx
        BY <2>1 DEF Typed, WorkerInv, QueueTyped, WorkTyped
    <2> DEFINE e == [type |-> IF ok THEN "success" ELSE "failure", row |-> idx,
                     file |-> tasks[idx + 1]]
    <2>3. e \in Event
        BY <2>2, TaskTyped DEF Typed, Event
    <2>4. Sending(e)
        BY <1>8 DEF FinishTask
    <2> HIDE DEF e
    <2>5. QueueTyped'
        BY <1>1, <2>2, <2>3, <2>4, SendTyped DEF Typed
    <2>6. counts' \in [completed : Nat, failed : Nat] /\ counts'.completed = idx + 1
          /\ counts'.failed \in {counts.failed, counts.failed + 1}
        BY <2>1, <2>2
    <2>7. outcome' \in [Files -> {"none", "ok", "error"}]
        BY <2>1 DEF Typed, WorkTyped
    <2>8. WorkTyped'
        BY <1>1, <2>1, <2>6, <2>7 DEF Typed, WorkTyped
    <2>9. WorkerInv'
        BY <1>1, <2>1, <2>2, <2>6 DEF WorkerInv
    <2>10. QED BY <1>2, <1>4, <2>5, <2>8, <2>9 DEF Typed
<1>9. CASE StopBatch
    <2>1. /\ pc = "top" /\ pc' = "end"
          /\ UNCHANGED <<current_row_idx, idx, counts, outcome, reported, chanVars>>
        BY <1>9 DEF StopBatch, histVars
    <2>2. QED
        BY <1>1, <1>2, <1>4, <2>1 DEF Typed, WorkTyped, WorkerInv, QueueTyped, chanVars
<1>10. CASE NextTask
    <2>1. /\ pc = "waiting" /\ idx' = idx + 1 /\ current_row_idx' = idx + 1 /\ pc' \in {"top", "end"}
          /\ acks' = IF acks = 0 THEN 0 ELSE acks - 1
          /\ UNCHANGED <<counts, outcome, reported, outbox, events>>
        BY <1>10 DEF NextTask, Acknowledged, histVars
    <2>2. idx < Len(tasks) /\ counts.completed = idx + 1 /\ idx \in Nat /\ Len(tasks) \in Nat
          /\ counts.failed <= counts.completed
        BY <2>1 DEF Typed, WorkerInv, WorkTyped
    <2>3. QueueTyped'
        BY <1>1, <2>1 DEF Typed, QueueTyped
    <2>4. WorkTyped'
        BY <1>1, <2>1, <2>2 DEF Typed, WorkTyped
    <2>5. WorkerInv'
        BY <1>1, <2>1, <2>2 DEF WorkerInv
    <2>6. QED BY <1>2, <1>4, <2>3, <2>4, <2>5 DEF Typed
<1>11. CASE EndBatch
    <2>1. /\ pc = "end" /\ pc' = "finished" /\ current_row_idx' = 0
          /\ events' = Append(events, EndedEvent)
          /\ UNCHANGED <<idx, counts, outcome, reported, outbox, acks>>
        BY <1>11 DEF EndBatch, SentUnderLock, histVars
    <2>2. EndedEvent \in Event
        BY DEF EndedEvent, Event
    <2>3. QueueTyped'
        BY <1>1, <2>1, <2>2 DEF Typed, QueueTyped
    <2>4. QED
        BY <1>1, <1>2, <1>4, <2>1, <2>3 DEF Typed, WorkTyped, WorkerInv
<1>12. QED BY <1>5, <1>6, <1>7, <1>8, <1>9, <1>10, <1>11 DEF WorkerStep

\* The event loop shows an event.
LEMMA WithRowTyped ==
    ASSUME TypeOKList, NEW i \in Nat, NEW s \in Status, WithRow(i, s)
    PROVE  TypeOKList' /\ Len(rows') = Len(rows)
<1>1. rows \in Seq(Row) /\ Len(rows) \in Nat /\ DOMAIN rows = 1 .. Len(rows)
      /\ \A k \in 1 .. Len(rows) : rows[k] \in Row
    BY DEF TypeOKList
<1>2. rows' = (IF i < Len(rows) THEN [rows EXCEPT ![i + 1].status = s] ELSE rows)
      /\ panicked' \in BOOLEAN /\ UNCHANGED selected
    BY DEF WithRow
<1>3. rows' \in Seq(Row) /\ Len(rows') = Len(rows)
    <2>1. CASE i < Len(rows)
        <3>1. i + 1 \in 1 .. Len(rows)
            BY <1>1, <2>1
        <3>2. [rows[i + 1] EXCEPT !.status = s] \in Row
            BY <1>1, <3>1 DEF Row
        <3>3. rows' = [rows EXCEPT ![i + 1] = [rows[i + 1] EXCEPT !.status = s]]
            BY <1>2, <2>1
        <3>4. QED BY <1>1, <3>1, <3>2, <3>3
    <2>2. CASE ~(i < Len(rows))
        BY <1>1, <1>2, <2>2
    <2>3. QED BY <2>1, <2>2
<1>4. QED BY <1>2, <1>3, SameLength

\* What the last event of a batch leaves of the rows.
LEMMA EndedRows ==
    ASSUME TypeOKList, NEW e, ShowEnded(e)
    PROVE  rows' \in Seq(Row) /\ Len(rows') = Len(rows)
<1>1. rows \in Seq(Row) /\ Len(rows) \in Nat /\ DOMAIN rows = 1 .. Len(rows)
      /\ \A k \in 1 .. Len(rows) : rows[k] \in Row
    BY DEF TypeOKList
<1>2. CASE counts.completed = Len(tasks)
    BY <1>1, <1>2 DEF ShowEnded
<1>3. CASE counts.completed # Len(tasks)
    <2> DEFINE r(i) == IF i >= CancelledFrom THEN [rows[i] EXCEPT !.status = "cancelled"] ELSE rows[i]
    <2>1. \A i \in 1 .. Len(rows) : r(i) \in Row
        BY <1>1 DEF Row, Status
    <2>2. rows' = [i \in 1 .. Len(rows) |-> r(i)]
        BY <1>1, <1>3 DEF ShowEnded
    <2> HIDE DEF r
    <2>3. QED BY <1>1, <2>1, <2>2
<1>4. QED BY <1>2, <1>3

LEMMA LoopTyped ==
    ASSUME Typed, Inv, LoopStep
    PROVE  Typed'
<1>1. /\ UNCHANGED <<stop_requested, current_row_idx, workerVars, outbox, histVars>>
      /\ awake' \in BOOLEAN
    BY DEF LoopStep, TakeEvent, WakeForNothing
<1>2. CASE WakeForNothing
    BY <1>1, <1>2
    DEF WakeForNothing, Typed, TypeOKList, FlagsTyped, WorkTyped, QueueTyped, WorkerInv, listVars,
        uiVars, workerVars, histVars
<1>3. CASE TakeEvent
    <2> DEFINE e == Head(events)
    <2>1. events # <<>> /\ events' = Tail(events)
          /\ (ShowStart(e) \/ ShowProgress(e) \/ ShowResult(e) \/ ShowEnded(e))
        BY <1>3 DEF TakeEvent
    <2>2. events \in Seq(Event) /\ e \in Event /\ events' \in Seq(Event)
        BY <2>1 DEF Typed, QueueTyped
    <2> HIDE DEF e
    <2>3. e.row \in Nat
        BY <2>2 DEF Event
    <2>4. TypeOKList'
        <3>1. CASE ShowStart(e)
            BY <2>3, <3>1, WithRowTyped DEF ShowStart, Status, Typed
        <3>2. CASE ShowProgress(e)
            BY <3>2 DEF ShowProgress, Typed, TypeOKList
        <3>3. CASE ShowResult(e)
            <4>1. PICK s \in Status : WithRow(e.row, s)
                BY <3>3 DEF ShowResult, Status
            <4>2. QED BY <2>3, <4>1, WithRowTyped DEF Typed
        <3>4. CASE ShowEnded(e)
            <4>1. rows' \in Seq(Row) /\ Len(rows') = Len(rows)
                BY <3>4, EndedRows DEF Typed
            <4>2. QED BY <3>4, <4>1, SameLength DEF ShowEnded, Typed, TypeOKList
        <3>5. QED BY <2>1, <3>1, <3>2, <3>3, <3>4
    <2>5. acks' \in {acks, acks + 1}
        BY <2>1 DEF ShowStart, ShowProgress, ShowResult, ShowEnded
    <2>6. summary' \in [text : {"none", "log", "cancelled", "some_failed", "all_failed"},
                        color : {"black", "cancelled", "succeeded", "failed"}]
        <3>1. summary \in [text : {"none", "log", "cancelled", "some_failed", "all_failed"},
                           color : {"black", "cancelled", "succeeded", "failed"}]
            BY DEF Typed, WorkTyped
        <3>2. CASE ShowStart(e) \/ ShowResult(e)
            BY <3>1, <3>2 DEF ShowStart, ShowResult
        <3>3. CASE ShowProgress(e)
            BY <3>1, <3>3 DEF ShowProgress
        <3>4. CASE ShowEnded(e)
            BY <3>4 DEF ShowEnded
        <3>5. QED BY <2>1, <3>2, <3>3, <3>4
    <2>7. UNCHANGED <<is_converting, convertible, selectable, overall>>
          /\ droppable' \in BOOLEAN /\ cancellable' \in BOOLEAN
        BY <2>1 DEF ShowStart, ShowProgress, ShowResult, ShowEnded, uiVars, Typed, FlagsTyped
    <2>8. FlagsTyped'
        BY <1>1, <2>7 DEF Typed, FlagsTyped, histVars
    <2>9. QueueTyped'
        BY <1>1, <2>2, <2>5 DEF Typed, QueueTyped, workerVars, histVars
    <2>10. WorkTyped' /\ WorkerInv'
        BY <1>1, <2>6 DEF Typed, WorkTyped, WorkerInv, workerVars, histVars
    <2>11. QED BY <2>4, <2>8, <2>9, <2>10 DEF Typed
<1>4. QED BY <1>2, <1>3 DEF LoopStep

LEMMA InitTyped == Init => Typed
<1> SUFFICES ASSUME Init PROVE Typed
    OBVIOUS
<1>1. StartFiles \in Seq(Files) /\ Len(StartFiles) \in Nat /\ DOMAIN StartFiles = 1 .. Len(StartFiles)
      /\ \A k \in 1 .. Len(StartFiles) : StartFiles[k] \in Files
    BY GuiAssumption
<1>2. \A f \in Files : NewRow(f) \in Row
    BY DEF NewRow, Row, Status
<1>3. rows = [i \in 1 .. Len(StartFiles) |-> NewRow(StartFiles[i])]
    BY <1>1 DEF Init
<1>4. rows \in Seq(Row) /\ Len(rows) \in Nat
    BY <1>1, <1>2, <1>3
<1>5. selected \in Seq(0 .. Len(rows) - 1) /\ panicked \in BOOLEAN
    <2>1. selected = <<>> /\ panicked = FALSE
        BY DEF Init
    <2>2. \A S : <<>> \in Seq(S)
        OBVIOUS
    <2>3. QED BY <2>1, <2>2
<1>6. FlagsTyped
    BY DEF Init, FlagsTyped
<1>7. QueueTyped
    BY DEF Init, QueueTyped
<1>8. WorkTyped /\ WorkerInv
    BY DEF Init, WorkTyped, WorkerInv, NoSummary
<1>9. QED BY <1>4, <1>5, <1>6, <1>7, <1>8 DEF Typed, TypeOKList

LEMMA TypedStep ==
    ASSUME Typed, Inv, [Next]_vars
    PROVE  Typed'
<1>1. CASE UNCHANGED vars
    BY <1>1 DEF vars, listVars, uiVars, workerVars, chanVars, histVars, Typed, TypeOKList, FlagsTyped,
        QueueTyped, WorkTyped, WorkerInv
<1>2. CASE Next
    BY <1>2, UserTyped, StartTyped, WorkerTyped, LoopTyped DEF Next, UserStep
<1>3. QED BY <1>1, <1>2

LEMMA TypedAlways == Spec => []Typed
BY InitTyped, TypedStep, InvAlways, PTL DEF Spec

\* Through any sequence of drops, clicks, deletions and batches the state has its
\* type: the indices of selected_indices are those of rows, and the worker's index,
\* its two counts and the shared row index agree.
THEOREM StateIsTyped == Spec => [](TypeOK /\ WorkerInv)
BY TypedAlways, TypedIsTypeInv, PTL DEF TypeInv

-----------------------------------------------------------------------------
(* A batch goes on.                                                        *)

\* What is owed to the worker, to the loop and to the user, while the program runs.
OwedInv ==
    Alive =>
        /\ pc = "finished" /\ events # <<>> => awake
        /\ pc = "waiting" /\ Quiet => acks = 1
        /\ pc \in {"none", "finished"} /\ events = <<>> => droppable

LEMMA UserOwes ==
    ASSUME OwedInv, UserStep
    PROVE  OwedInv'
<1>1. Alive
    BY DEF UserStep, Select, Delete, Drop, StartBatch, Cancel
<1>2. CASE StartBatch
    <2>1. pc' = "top"
        BY <1>2 DEF StartBatch
    <2>2. QED BY <2>1 DEF OwedInv
<1>3. CASE Select \/ Delete \/ (\E f \in Files : Drop(f)) \/ Cancel
    <2>1. UNCHANGED <<pc, events, outbox, acks, awake, droppable>>
        BY <1>3 DEF Select, Delete, Drop, Cancel, SelectionChanged, workerVars, chanVars
    <2>2. QED BY <1>1, <2>1 DEF OwedInv, Quiet
<1>4. QED BY <1>2, <1>3 DEF UserStep

LEMMA WorkerOwes ==
    ASSUME Inv, OwedInv, WorkerStep \/ Spin
    PROVE  OwedInv'
<1>1. UNCHANGED <<panicked, droppable>>
    BY DEF WorkerStep, Flush, StartTask, StopBatch, Progress, FinishTask, NextTask, EndBatch, Spin,
           listVars, uiVars
<1>2. \E S : events \in Seq(S) /\ outbox \in Seq(S)
    BY DEF Inv, ChannelType
<1>3. CASE Flush
    <2>1. outbox # <<>> /\ events' = events \o outbox /\ pc' = pc
        BY <1>3 DEF Flush, workerVars
    <2>2. pc \in {"converting", "waiting"}
        BY <2>1 DEF Inv, HandshakeInv, Quiet, Batching
    <2>3. events' # <<>>
        BY <1>2, <2>1
    <2>4. QED BY <2>1, <2>2, <2>3 DEF OwedInv, Quiet
<1>4. CASE StartTask \/ StopBatch \/ Progress \/ NextTask
    <2>1. pc' \in {"converting", "top", "end"}
        BY <1>4 DEF StartTask, StopBatch, Progress, NextTask
    <2>2. QED BY <2>1 DEF OwedInv
<1>5. ASSUME NEW ok \in BOOLEAN, FinishTask(ok) PROVE OwedInv'
    <2>1. pc' = "waiting" /\ outbox' # <<>>
        BY <1>5 DEF FinishTask, Sending
    <2>2. QED BY <2>1 DEF OwedInv, Quiet
<1>6. CASE EndBatch
    <2>1. pc' = "finished" /\ awake' /\ events' = Append(events, EndedEvent)
        BY <1>6 DEF EndBatch, SentUnderLock
    <2>2. events' # <<>>
        BY <1>2, <2>1
    <2>3. QED BY <2>1, <2>2 DEF OwedInv
<1>7. CASE Spin
    <2>1. pc = "waiting" /\ UNCHANGED <<pc, events, outbox, acks>>
        BY <1>7 DEF Spin, workerVars
    <2>2. QED BY <1>1, <2>1 DEF OwedInv, Quiet, Alive
<1>8. QED BY <1>3, <1>4, <1>5, <1>6, <1>7 DEF WorkerStep

LEMMA LoopOwes ==
    ASSUME Typed, Inv, OwedInv, LoopStep
    PROVE  OwedInv'
<1>1. CASE WakeForNothing
    <2>1. events = <<>> /\ UNCHANGED <<panicked, droppable, pc, events, outbox, acks>>
        BY <1>1 DEF WakeForNothing, listVars, uiVars, workerVars
    <2>2. QED BY <2>1 DEF OwedInv, Quiet, Alive
<1>2. CASE TakeEvent
    <2> DEFINE e == Head(events)
    <2>1. /\ events # <<>> /\ events' = Tail(events) /\ awake'
          /\ UNCHANGED <<pc, outbox>>
          /\ ShowStart(e) \/ ShowProgress(e) \/ ShowResult(e) \/ ShowEnded(e)
        BY <1>2 DEF TakeEvent, workerVars
    <2>2. Len(events) \in Nat /\ Len(events) > 0 /\ e = events[1] /\ Len(events') = Len(events) - 1
        <3>1. PICK S : events \in Seq(S)
            BY DEF Inv, ChannelType
        <3>2. QED BY <2>1, <3>1
    <2>3. CASE pc = "waiting"
        <3>1. SUFFICES ASSUME Alive', Quiet' PROVE acks' = 1
            BY <2>1, <2>3 DEF OwedInv
        <3>2. outbox = <<>> /\ Len(events) = 1
            <4>1. events' = <<>> /\ outbox' = <<>> /\ Len(<<>>) = 0
                BY <3>1 DEF Quiet
            <4>2. QED BY <2>1, <2>2, <4>1
        <3>3. acks = 0 /\ EndsInResult(events)
            BY <2>1, <2>3, <3>2 DEF Inv, HandshakeInv, Awaited, EndsInResult, Quiet
        <3>4. e.type \in Results
            BY <2>2, <3>2, <3>3 DEF EndsInResult
        <3>5. ShowResult(e)
            BY <2>1, <3>4 DEF ShowStart, ShowProgress, ShowEnded, Results
        <3>6. acks' = acks + 1
            <4>1. e.row \in Nat /\ Len(rows) \in Nat
                <5>1. events \in Seq(Event) /\ rows \in Seq(Row)
                    BY DEF Typed, QueueTyped, TypeOKList
                <5>2. e \in Event
                    BY <2>2, <5>1
                <5>3. QED BY <5>1, <5>2 DEF Event
            <4>2. ~ (e.row >= Len(rows))
                BY <3>1, <3>5 DEF ShowResult, WithRow, Alive
            <4>3. e.row < Len(rows)
                BY <4>1, <4>2
            <4>4. QED BY <3>5, <4>3 DEF ShowResult
        <3>7. QED BY <3>3, <3>6
    <2>4. CASE pc = "finished"
        <3>1. e.type = "ended"
            BY <2>1, <2>2, <2>4 DEF Inv, HandshakeInv
        <3>2. ShowEnded(e)
            BY <2>1, <3>1 DEF ShowStart, ShowProgress, ShowResult
        <3>3. droppable'
            BY <3>2 DEF ShowEnded
        <3>4. QED BY <2>1, <2>4, <3>3 DEF OwedInv
    <2>5. pc # "none"
        BY <2>1 DEF Inv, HandshakeInv, Quiet
    <2>6. QED BY <2>1, <2>3, <2>4, <2>5 DEF OwedInv
<1>3. QED BY <1>1, <1>2 DEF LoopStep

LEMMA OwedAlways == Spec => []OwedInv
<1>1. Init => OwedInv
    BY DEF Init, OwedInv
<1>2. Typed /\ Inv /\ OwedInv /\ [Next]_vars => OwedInv'
    <2>1. ASSUME OwedInv, UNCHANGED vars PROVE OwedInv'
        BY <2>1 DEF OwedInv, Alive, Quiet, vars, listVars, uiVars, workerVars, chanVars
    <2>2. QED BY <2>1, UserOwes, WorkerOwes, LoopOwes DEF Next
<1>3. QED BY <1>1, <1>2, TypedAlways, InvAlways, PTL DEF Spec

\* While a batch runs, no party waits for what nobody will send: the loop sleeps on
\* events only while the worker will wake it, the worker waits only for a result on its
\* way or an acknowledgement, and the window is frozen only until the last event, for
\* which the loop is awake. This is what the end of every batch needs besides fairness.
THEOREM BatchesGoOn == Spec => []BatchGoesOn
<1>1. Inv /\ OwedInv => BatchGoesOn
    <2> SUFFICES ASSUME Inv, OwedInv, Alive
                 PROVE  /\ events # <<>> /\ ~awake => pc \in {"converting", "waiting"}
                        /\ pc = "waiting" /\ acks = 0 =>
                            \E i \in DOMAIN (events \o outbox) :
                                (events \o outbox)[i].type \in {"success", "failure"}
                        /\ ~droppable /\ Idle => events # <<>>
        BY DEF BatchGoesOn
    <2>1. events # <<>> /\ ~awake => pc \in {"converting", "waiting"}
        BY DEF Inv, HandshakeInv, OwedInv, Quiet, Batching
    <2>2. ~droppable /\ Idle => events # <<>>
        BY DEF OwedInv, Idle
    <2>3. ASSUME pc = "waiting", acks = 0
          PROVE  \E i \in DOMAIN (events \o outbox) : (events \o outbox)[i].type \in {"success", "failure"}
        <3> DEFINE s == events \o outbox
        <3>1. PICK S : events \in Seq(S) /\ outbox \in Seq(S)
            BY DEF Inv, ChannelType
        <3>2. /\ Len(events) \in Nat /\ Len(outbox) \in Nat /\ Len(s) = Len(events) + Len(outbox)
              /\ DOMAIN s = 1 .. Len(s)
              /\ outbox # <<>> => Len(outbox) > 0 /\ s[Len(s)] = outbox[Len(outbox)]
              /\ events # <<>> => Len(events) > 0 /\ s[Len(events)] = events[Len(events)]
            BY <3>1
        <3>3. EndsInResult(outbox) \/ EndsInResult(events)
            BY <2>3 DEF Inv, HandshakeInv, Awaited, OwedInv
        <3>4. CASE EndsInResult(outbox)
            <4>1. Len(s) \in DOMAIN s /\ s[Len(s)].type \in Results
                BY <3>2, <3>4 DEF EndsInResult
            <4>2. QED BY <4>1 DEF Results
        <3>5. CASE EndsInResult(events)
            <4>1. Len(events) \in DOMAIN s /\ s[Len(events)].type \in Results
                BY <3>2, <3>5 DEF EndsInResult
            <4>2. QED BY <4>1 DEF Results
        <3>6. QED BY <3>3, <3>4, <3>5
    <2>4. QED BY <2>1, <2>2, <2>3
<1>2. QED BY <1>1, InvAlways, OwedAlways, PTL


-----------------------------------------------------------------------------
(* Which rows can be changed.                                              *)

\* Only a list that was not converted can be changed.
ActivityInv ==
    /\ is_converting => /\ ~convertible /\ ~selectable
                        /\ pc # "none"
                        /\ \A k \in DOMAIN rows : ~rows[k].active
    /\ ~is_converting => /\ pc \in {"none", "finished"} /\ events = <<>>
                         /\ \A k \in DOMAIN rows : rows[k].active /\ rows[k].status = "pending"

\* The files and the activity of the rows stay as they were.
SameRows ==
    /\ Len(rows') = Len(rows)
    /\ \A k \in 1 .. Len(rows) : /\ rows'[k].file = rows[k].file
                                 /\ rows'[k].status = rows[k].status
                                 /\ rows'[k].active = rows[k].active

LEMMA SameRowsActive ==
    ASSUME TypeOKList, TypeOKList', ActivityInv, SameRows,
           UNCHANGED <<is_converting, pc, events>>,
           convertible' => convertible, selectable' => selectable
    PROVE  ActivityInv'
<1>1. /\ DOMAIN rows = 1 .. Len(rows) /\ DOMAIN rows' = 1 .. Len(rows)
    BY DEF TypeOKList, SameRows
<1>2. is_converting' = is_converting /\ pc' = pc /\ events' = events
    OBVIOUS
<1>3. \A k \in 1 .. Len(rows) : rows'[k].active = rows[k].active /\ rows'[k].status = rows[k].status
    BY DEF SameRows
<1>4. CASE is_converting
    <2>1. /\ ~convertible' /\ ~selectable' /\ pc' # "none" /\ is_converting'
          /\ \A k \in DOMAIN rows : ~rows[k].active
        BY <1>2, <1>4 DEF ActivityInv
    <2>2. \A k \in DOMAIN rows' : ~rows'[k].active
        BY <1>1, <1>3, <2>1
    <2>3. QED BY <2>1, <2>2 DEF ActivityInv
<1>5. CASE ~is_converting
    <2>1. /\ ~is_converting' /\ pc' \in {"none", "finished"} /\ events' = <<>>
          /\ \A k \in DOMAIN rows : rows[k].active /\ rows[k].status = "pending"
        BY <1>2, <1>5 DEF ActivityInv
    <2>2. \A k \in DOMAIN rows' : rows'[k].active /\ rows'[k].status = "pending"
        BY <1>1, <1>3, <2>1
    <2>3. QED BY <2>1, <2>2 DEF ActivityInv
<1>6. QED BY <1>4, <1>5

LEMMA SelectSame ==
    ASSUME TypeOKList, \/ \E i \in DOMAIN rows : ClickRow(i)
                       \/ SelectAll
                       \/ DeselectAll
    PROVE  SameRows
<1>1. rows \in Seq(Row) /\ Len(rows) \in Nat /\ DOMAIN rows = 1 .. Len(rows)
      /\ \A k \in 1 .. Len(rows) : rows[k] \in Row
    BY SelectedTyped
<1>2. Len(rows') = Len(rows)
    BY SelectTyped
<1>3. ASSUME NEW k \in 1 .. Len(rows)
      PROVE  \E b : rows'[k] = rows[k] \/ rows'[k] = [rows[k] EXCEPT !.checked = b]
    <2>1. CASE SelectAll \/ DeselectAll
        BY <1>1, <2>1 DEF SelectAll, DeselectAll, Toggled
    <2>2. CASE \E i \in DOMAIN rows : ClickRow(i)
        BY <1>1, <2>2 DEF ClickRow
    <2>3. QED BY <2>1, <2>2
<1>4. ASSUME NEW k \in 1 .. Len(rows)
      PROVE  /\ rows'[k].file = rows[k].file /\ rows'[k].status = rows[k].status
             /\ rows'[k].active = rows[k].active
    BY <1>1, <1>3 DEF Row
<1>5. QED BY <1>2, <1>4 DEF SameRows

LEMMA UserActive ==
    ASSUME Typed, Typed', Inv, ActivityInv, UserStep
    PROVE  ActivityInv'
<1>1. TypeOKList /\ TypeOKList'
    BY DEF Typed
<1>2. rows \in Seq(Row) /\ Len(rows) \in Nat /\ DOMAIN rows = 1 .. Len(rows)
      /\ \A k \in 1 .. Len(rows) : rows[k] \in Row
    BY <1>1, SelectedTyped
<1>3. CASE Select
    <2>1. /\ UNCHANGED <<is_converting, pc, events>>
          /\ convertible' => convertible
          /\ selectable' => selectable
        BY <1>3 DEF Select, SelectionChanged, workerVars, chanVars
    <2>2. SameRows
        BY <1>1, <1>3, SelectSame DEF Select
    <2>3. QED BY <1>1, <2>1, <2>2, SameRowsActive
<1>4. CASE Delete
    <2>1. /\ rows' = Deleted.rows
          /\ UNCHANGED <<is_converting, pc, events>>
          /\ convertible' => convertible
          /\ selectable' => selectable
        BY <1>4 DEF Delete, DeleteSelection, SelectionChanged, workerVars, chanVars
    <2>2. Elements(rows') \subseteq Elements(rows)
        BY <1>1, <2>1, DeletedFacts
    <2>3. \A k \in DOMAIN rows' : \E l \in DOMAIN rows : rows'[k] = rows[l]
        BY <2>2 DEF Elements
    <2>4. CASE is_converting
        BY <2>1, <2>3, <2>4 DEF ActivityInv
    <2>5. CASE ~is_converting
        BY <2>1, <2>3, <2>5 DEF ActivityInv
    <2>6. QED BY <2>4, <2>5
<1>5. ASSUME NEW f \in Files, Drop(f) PROVE ActivityInv'
    <2>1. /\ droppable /\ is_converting' = FALSE /\ UNCHANGED <<pc, events>>
        BY <1>5 DEF Drop, workerVars, chanVars
    <2>2. pc \in {"none", "finished"} /\ events = <<>>
        <3>1. pc \notin Batching /\ (pc = "finished" => events = <<>>)
            BY <2>1 DEF Inv, FrozenInv
        <3>2. QED BY <3>1 DEF Inv, HandshakeInv, Quiet
    <2>3. NewRow(f).active /\ NewRow(f).status = "pending" /\ NewRow(f) \in Row
        BY DEF NewRow, Row, Status
    <2>4. \A k \in DOMAIN rows' : rows'[k].active /\ rows'[k].status = "pending"
        <3>1. CASE is_converting
            <4>1. rows' = <<NewRow(f)>>
                BY <1>5, <3>1 DEF Drop
            <4>2. DOMAIN rows' = {1} /\ rows'[1] = NewRow(f)
                BY <4>1
            <4>3. QED BY <2>3, <4>2
        <3>2. CASE ~is_converting
            <4>1. rows' = Append(rows, NewRow(f))
                BY <1>5, <3>2 DEF Drop
            <4>2. /\ DOMAIN rows' = 1 .. Len(rows) + 1
                  /\ \A k \in 1 .. Len(rows) : rows'[k] = rows[k]
                  /\ rows'[Len(rows) + 1] = NewRow(f)
                BY <1>2, <2>3, <4>1
            <4>3. \A k \in 1 .. Len(rows) : rows[k].active /\ rows[k].status = "pending"
                BY <1>2, <3>2 DEF ActivityInv
            <4>4. \A k \in 1 .. Len(rows) + 1 : k \in 1 .. Len(rows) \/ k = Len(rows) + 1
                BY <1>2
            <4>5. QED BY <2>3, <4>2, <4>3, <4>4
        <3>3. QED BY <3>1, <3>2
    <2>5. QED BY <2>1, <2>2, <2>4 DEF ActivityInv
<1>6. CASE StartBatch
    <2>1. /\ rows' = [k \in 1 .. Len(rows) |-> [rows[k] EXCEPT !.active = FALSE]]
          /\ is_converting' = TRUE /\ convertible' = FALSE /\ selectable' = FALSE /\ pc' = "top"
        BY <1>2, <1>6 DEF StartBatch
    <2>2. DOMAIN rows' = 1 .. Len(rows)
          /\ \A k \in 1 .. Len(rows) : rows'[k] = [rows[k] EXCEPT !.active = FALSE]
        BY <1>2, <2>1
    <2>3. \A k \in 1 .. Len(rows) : ~rows'[k].active
        BY <1>2, <2>2 DEF Row
    <2>4. QED BY <2>1, <2>2, <2>3 DEF ActivityInv
<1>7. CASE Cancel
    <2>1. UNCHANGED <<rows, is_converting, convertible, selectable, pc, events>>
        BY <1>7 DEF Cancel, listVars, workerVars, chanVars
    <2>2. QED BY <2>1 DEF ActivityInv
<1>8. QED BY <1>3, <1>4, <1>5, <1>6, <1>7 DEF UserStep

\* The worker runs only during a batch.
LEMMA WorkerActive ==
    ASSUME Inv, ActivityInv, WorkerStep \/ Spin
    PROVE  ActivityInv'
<1>1. UNCHANGED <<rows, is_converting, convertible, selectable>>
    BY DEF WorkerStep, Spin, Flush, StartTask, StopBatch, Progress, FinishTask, NextTask, EndBatch,
        listVars, uiVars
<1>2. pc \in Batching
    <2>1. CASE Flush
        BY <2>1 DEF Flush, Inv, HandshakeInv, Quiet
    <2>2. CASE ~Flush
        BY <2>2 DEF WorkerStep, Spin, StartTask, StopBatch, Progress, FinishTask, NextTask, Acknowledged,
            EndBatch, Batching
    <2>3. QED BY <2>1, <2>2
<1>3. is_converting
    BY <1>2 DEF ActivityInv, Batching
<1>4. pc' # "none"
    BY <1>2 DEF WorkerStep, Spin, Flush, StartTask, StopBatch, Progress, FinishTask, NextTask, EndBatch,
        workerVars, Batching
<1>5. QED BY <1>1, <1>3, <1>4 DEF ActivityInv

\* Showing an event changes nothing of a row but its status.
LEMMA ShownOnly ==
    ASSUME TypeOKList, NEW e, e.row \in Nat,
           ShowStart(e) \/ ShowProgress(e) \/ ShowResult(e) \/ ShowEnded(e)
    PROVE  /\ UNCHANGED selected
           /\ Len(rows') = Len(rows) /\ DOMAIN rows' = 1 .. Len(rows)
           /\ \A k \in 1 .. Len(rows) : /\ rows'[k].file = rows[k].file
                                        /\ rows'[k].active = rows[k].active
                                        /\ rows'[k].checked = rows[k].checked
<1>1. rows \in Seq(Row) /\ Len(rows) \in Nat /\ DOMAIN rows = 1 .. Len(rows)
      /\ \A k \in 1 .. Len(rows) : rows[k] \in Row
    BY SelectedTyped
<1>2. ASSUME NEW i \in Nat, NEW s, rows' = IF i < Len(rows) THEN [rows EXCEPT ![i + 1].status = s] ELSE rows
      PROVE  /\ Len(rows') = Len(rows) /\ DOMAIN rows' = 1 .. Len(rows)
             /\ \A k \in 1 .. Len(rows) : rows'[k] \in {rows[k], [rows[k] EXCEPT !.status = s]}
    BY <1>1, <1>2
<1>3. \E s : /\ Len(rows') = Len(rows) /\ DOMAIN rows' = 1 .. Len(rows)
             /\ \A k \in 1 .. Len(rows) : rows'[k] \in {rows[k], [rows[k] EXCEPT !.status = s]}
    <2>1. CASE ShowStart(e)
        BY <1>2, <2>1 DEF ShowStart, WithRow
    <2>2. CASE ShowProgress(e)
        BY <1>1, <2>2 DEF ShowProgress
    <2>3. CASE ShowResult(e)
        <3>1. PICK s : WithRow(e.row, s)
            BY <2>3 DEF ShowResult
        <3>2. QED BY <1>2, <3>1 DEF WithRow
    <2>4. CASE ShowEnded(e)
        <3>1. CASE counts.completed = Len(tasks)
            BY <1>1, <2>4, <3>1 DEF ShowEnded
        <3>2. CASE counts.completed # Len(tasks)
            <4> DEFINE r(i) == IF i >= CancelledFrom THEN [rows[i] EXCEPT !.status = "cancelled"] ELSE rows[i]
            <4>1. rows' = [i \in 1 .. Len(rows) |-> r(i)]
                BY <1>1, <2>4, <3>2 DEF ShowEnded
            <4>2. \A k \in 1 .. Len(rows) : r(k) \in {rows[k], [rows[k] EXCEPT !.status = "cancelled"]}
                OBVIOUS
            <4> HIDE DEF r
            <4>3. Len(rows') = Len(rows) /\ DOMAIN rows' = 1 .. Len(rows)
                  /\ \A k \in 1 .. Len(rows) : rows'[k] = r(k)
                BY <1>1, <4>1
            <4>4. QED BY <4>2, <4>3
        <3>3. QED BY <3>1, <3>2
    <2>5. QED BY <2>1, <2>2, <2>3, <2>4
<1>4. UNCHANGED selected
    BY DEF ShowStart, ShowProgress, ShowResult, ShowEnded, WithRow
<1>5. PICK s : /\ Len(rows') = Len(rows) /\ DOMAIN rows' = 1 .. Len(rows)
               /\ \A k \in 1 .. Len(rows) : rows'[k] \in {rows[k], [rows[k] EXCEPT !.status = s]}
    BY <1>3
<1>6. ASSUME NEW k \in 1 .. Len(rows)
      PROVE  /\ rows'[k].file = rows[k].file /\ rows'[k].active = rows[k].active
             /\ rows'[k].checked = rows[k].checked
    BY <1>1, <1>5 DEF Row
<1>7. QED BY <1>4, <1>5, <1>6

LEMMA EventRow ==
    ASSUME Typed, events # <<>>
    PROVE  Head(events).row \in Nat
<1>1. Head(events) \in Event
    BY DEF Typed, QueueTyped
<1>2. QED BY <1>1 DEF Event

LEMMA LoopActive ==
    ASSUME Typed, ActivityInv, LoopStep
    PROVE  ActivityInv'
<1>1. CASE WakeForNothing
    <2>1. UNCHANGED <<rows, is_converting, convertible, selectable, pc, events>>
        BY <1>1 DEF WakeForNothing, listVars, uiVars, workerVars
    <2>2. QED BY <2>1 DEF ActivityInv
<1>2. CASE TakeEvent
    <2> DEFINE e == Head(events)
    <2>1. /\ events # <<>> /\ UNCHANGED pc
          /\ ShowStart(e) \/ ShowProgress(e) \/ ShowResult(e) \/ ShowEnded(e)
        BY <1>2 DEF TakeEvent, workerVars
    <2>2. e.row \in Nat
        BY <2>1, EventRow
    <2>3. UNCHANGED <<is_converting, convertible, selectable>>
        BY <2>1 DEF ShowStart, ShowProgress, ShowResult, ShowEnded, uiVars
    <2> HIDE DEF e
    <2>4. /\ DOMAIN rows' = 1 .. Len(rows) /\ DOMAIN rows = 1 .. Len(rows)
          /\ \A k \in 1 .. Len(rows) : rows'[k].active = rows[k].active
        BY <2>1, <2>2, ShownOnly, SelectedTyped DEF Typed
    <2>5. is_converting
        BY <2>1 DEF ActivityInv
    <2>6. QED BY <2>1, <2>3, <2>4, <2>5 DEF ActivityInv
<1>3. QED BY <1>1, <1>2 DEF LoopStep

LEMMA ActivityAlways == Spec => []ActivityInv
<1>1. Init => ActivityInv
    BY DEF Init, ActivityInv, NewRow
<1>2. Typed /\ Typed' /\ Inv /\ ActivityInv /\ [Next]_vars => ActivityInv'
    <2>1. ASSUME ActivityInv, UNCHANGED vars PROVE ActivityInv'
        BY <2>1 DEF vars, listVars, uiVars, workerVars, chanVars, ActivityInv
    <2>2. QED BY <2>1, UserActive, WorkerActive, LoopActive DEF Next
<1>3. QED BY <1>1, <1>2, TypedAlways, InvAlways, PTL DEF Spec

-----------------------------------------------------------------------------
(* The rows that are ticked are the selected ones.                         *)

Ticks == \A k \in 1 .. Len(rows) : rows[k].checked <=> k - 1 \in Elements(selected)

ShownInv == (Alive => Ticks) /\ DistinctFiles(rows)

LEMMA SelectedIsTicked ==
    ASSUME TypeOKList
    PROVE  {x + 1 : x \in Elements(selected)} = Checked <=> Ticks
<1> DEFINE S == {x + 1 : x \in Elements(selected)}
<1>1. /\ Elements(selected) \subseteq 0 .. Len(rows) - 1 /\ Len(rows) \in Nat
      /\ DOMAIN rows = 1 .. Len(rows)
    BY SelectedTyped DEF Elements
<1>2. S \subseteq 1 .. Len(rows) /\ Checked \subseteq 1 .. Len(rows)
    BY <1>1 DEF Checked
<1>3. \A k \in 1 .. Len(rows) : k \in S <=> k - 1 \in Elements(selected)
    <2>1. ASSUME NEW k \in 1 .. Len(rows), k \in S PROVE k - 1 \in Elements(selected)
        <3>1. PICK x \in Elements(selected) : k = x + 1
            BY <2>1
        <3>2. x \in Nat /\ k - 1 = x
            BY <1>1, <3>1
        <3>3. QED BY <3>2
    <2>2. ASSUME NEW k \in 1 .. Len(rows), k - 1 \in Elements(selected) PROVE k \in S
        <3>1. k = (k - 1) + 1
            OBVIOUS
        <3>2. QED BY <2>2, <3>1
    <2>3. QED BY <2>1, <2>2
<1>4. \A k \in 1 .. Len(rows) : k \in Checked <=> rows[k].checked
    BY <1>1 DEF Checked
<1> HIDE DEF S
<1>5. S = Checked <=> \A k \in 1 .. Len(rows) : k \in S <=> k \in Checked
    BY <1>2
<1>6. S = Checked <=> Ticks
    BY <1>3, <1>4, <1>5, Zenon DEF Ticks
<1>7. QED BY <1>6 DEF S

\* A row that is the only one with its file is found at its own place.
LEMMA RowIndexOwn ==
    ASSUME TypeOKList, DistinctFiles(rows), NEW i \in DOMAIN rows
    PROVE  RowIndex(rows[i].file) = i - 1
<1> DEFINE x == RowIndex(rows[i].file)
<1>1. x \in 0 .. Len(rows) - 1 /\ rows[x + 1].file = rows[i].file
    BY RowIndexTyped
<1>2. DOMAIN rows = 1 .. Len(rows) /\ Len(rows) \in Nat
    BY SelectedTyped
<1> HIDE DEF x
<1>3. x + 1 \in DOMAIN rows
    BY <1>1, <1>2
<1>4. x + 1 = i
    BY <1>1, <1>3 DEF DistinctFiles
<1>5. x = i - 1
    BY <1>1, <1>2, <1>4
<1>6. QED BY <1>5 DEF x

LEMMA ClickShown ==
    ASSUME TypeOKList, TypeOKList', Ticks, DistinctFiles(rows), NEW i \in DOMAIN rows, ClickRow(i)
    PROVE  Ticks' /\ SameRows
<1>1. /\ rows \in Seq(Row) /\ Len(rows) \in Nat /\ DOMAIN rows = 1 .. Len(rows) /\ i \in 1 .. Len(rows)
      /\ selected \in Seq(Nat) /\ \A k \in 1 .. Len(rows) : rows[k] \in Row
    BY SelectedTyped
<1>2. /\ rows' = [rows EXCEPT ![i].checked = ~rows[i].checked]
      /\ selected' = IF ~rows[i].checked THEN Append(selected, i - 1) ELSE Without(selected, {i - 1})
    BY RowIndexOwn DEF ClickRow
<1>3. /\ Len(rows') = Len(rows)
      /\ \A k \in 1 .. Len(rows) : k # i => rows'[k] = rows[k]
      /\ rows'[i] = [rows[i] EXCEPT !.checked = ~rows[i].checked]
    BY <1>1, <1>2
<1>4. /\ rows'[i].file = rows[i].file /\ rows'[i].active = rows[i].active
      /\ rows'[i].status = rows[i].status /\ (rows'[i].checked <=> ~rows[i].checked)
    BY <1>1, <1>3 DEF Row
<1>5. SameRows
    BY <1>3, <1>4 DEF SameRows
<1>6. i - 1 \in Nat
    BY <1>1
<1>7. CASE ~rows[i].checked
    <2>1. Elements(selected') = Elements(selected) \cup {i - 1}
        BY <1>1, <1>2, <1>6, <1>7, AppendElements
    <2>2. rows'[i].checked
        BY <1>4, <1>7
    <2>3. ASSUME NEW k \in 1 .. Len(rows') PROVE rows'[k].checked <=> k - 1 \in Elements(selected')
        <3>1. CASE k = i
            BY <2>1, <2>2, <3>1
        <3>2. CASE k # i
            <4>1. k - 1 # i - 1 /\ k \in 1 .. Len(rows) /\ rows'[k] = rows[k]
                BY <1>1, <1>3, <3>2
            <4>2. QED BY <2>1, <4>1 DEF Ticks
        <3>3. QED BY <3>1, <3>2
    <2>4. QED BY <1>5, <2>3 DEF Ticks
<1>8. CASE rows[i].checked
    <2>1. Elements(selected') = Elements(selected) \ {i - 1}
        <3>1. selected' = Without(selected, {i - 1})
            BY <1>2, <1>8
        <3>2. QED BY <1>1, <3>1, WithoutElements
    <2>2. ~rows'[i].checked
        BY <1>4, <1>8
    <2>3. ASSUME NEW k \in 1 .. Len(rows') PROVE rows'[k].checked <=> k - 1 \in Elements(selected')
        <3>1. CASE k = i
            BY <2>1, <2>2, <3>1
        <3>2. CASE k # i
            <4>1. k - 1 # i - 1 /\ k \in 1 .. Len(rows) /\ rows'[k] = rows[k]
                BY <1>1, <1>3, <3>2
            <4>2. QED BY <2>1, <4>1 DEF Ticks
        <3>3. QED BY <3>1, <3>2
    <2>4. QED BY <1>5, <2>3 DEF Ticks
<1>9. QED BY <1>7, <1>8

LEMMA AllShown ==
    ASSUME TypeOKList, TypeOKList', \A k \in DOMAIN rows : rows[k].active, SelectAll \/ DeselectAll
    PROVE  Ticks' /\ SameRows
<1>1. rows \in Seq(Row) /\ Len(rows) \in Nat /\ DOMAIN rows = 1 .. Len(rows)
      /\ \A k \in 1 .. Len(rows) : rows[k] \in Row
    BY SelectedTyped
<1>2. ASSUME NEW b \in BOOLEAN, rows' = Toggled(b)
      PROVE  SameRows /\ \A k \in 1 .. Len(rows') : rows'[k].checked <=> b
    <2>1. rows' = [k \in 1 .. Len(rows) |-> [rows[k] EXCEPT !.checked = b]]
        BY <1>1, <1>2 DEF Toggled
    <2>2. Len(rows') = Len(rows) /\ \A k \in 1 .. Len(rows) : rows'[k] = [rows[k] EXCEPT !.checked = b]
        BY <1>1, <2>1
    <2>3. ASSUME NEW k \in 1 .. Len(rows)
          PROVE  /\ rows'[k].file = rows[k].file /\ rows'[k].active = rows[k].active
                 /\ rows'[k].status = rows[k].status /\ (rows'[k].checked <=> b)
        BY <1>1, <2>2 DEF Row
    <2>4. QED BY <2>2, <2>3 DEF SameRows
<1>3. CASE SelectAll
    <2>1. rows' = Toggled(TRUE) /\ selected' = selected \o RowIndices
        BY <1>3 DEF SelectAll
    <2>2. SameRows /\ \A k \in 1 .. Len(rows') : rows'[k].checked
        BY <1>2, <2>1
    <2>3. ASSUME NEW k \in 1 .. Len(rows') PROVE k - 1 \in Elements(selected')
        <3>1. RowIndices \in Seq(Nat) /\ Len(RowIndices) = Len(rows) /\ RowIndices[k] = k - 1
            BY <1>1, <2>2 DEF RowIndices, SameRows
        <3>2. selected \in Seq(Nat) /\ Len(selected) \in Nat
            BY SelectedTyped
        <3>3. selected' \in Seq(Nat) /\ Len(selected') = Len(selected) + Len(rows)
              /\ selected'[Len(selected) + k] = RowIndices[k]
            <4>1. selected' = selected \o RowIndices /\ k \in 1 .. Len(rows)
                BY <2>1, <2>2 DEF SameRows
            <4>2. selected' \in Seq(Nat) /\ Len(selected') = Len(selected) + Len(RowIndices)
                BY <3>1, <3>2, <4>1, ConcatProperties
            <4>3. k \in 1 .. Len(RowIndices)
                BY <3>1, <4>1
            <4>4. selected'[Len(selected) + k] = RowIndices[k]
                BY <3>1, <3>2, <4>1, <4>3
            <4>5. QED BY <3>1, <4>2, <4>4
        <3>4. Len(selected) + k \in DOMAIN selected'
            <4>1. DOMAIN selected' = 1 .. Len(selected) + Len(rows) /\ Len(rows') = Len(rows)
                BY <2>2, <3>3 DEF SameRows
            <4>2. Len(selected) + k \in 1 .. Len(selected) + Len(rows)
                BY <1>1, <3>2, <4>1
            <4>3. QED BY <4>1, <4>2
        <3>5. QED BY <3>1, <3>3, <3>4 DEF Elements
    <2>4. QED BY <2>2, <2>3 DEF Ticks
<1>4. CASE DeselectAll
    <2>1. rows' = Toggled(FALSE) /\ selected' = <<>>
        BY <1>4 DEF DeselectAll
    <2>2. SameRows /\ \A k \in 1 .. Len(rows') : ~rows'[k].checked
        BY <1>2, <2>1
    <2>3. Elements(selected') = {}
        BY <2>1 DEF Elements
    <2>4. QED BY <2>2, <2>3 DEF Ticks
<1>5. QED BY <1>3, <1>4

LEMMA SameRowsDistinct ==
    ASSUME TypeOKList, TypeOKList', DistinctFiles(rows), SameRows
    PROVE  DistinctFiles(rows')
<1>1. DOMAIN rows = 1 .. Len(rows) /\ DOMAIN rows' = 1 .. Len(rows)
    BY DEF TypeOKList, SameRows
<1>2. QED BY <1>1 DEF DistinctFiles, SameRows

LEMMA UserShown ==
    ASSUME Typed, Typed', ActivityInv, ShownInv, UserStep
    PROVE  ShownInv'
<1>1. Ticks /\ TypeOKList /\ TypeOKList'
    BY DEF UserStep, Select, Delete, Drop, StartBatch, Cancel, ShownInv, Typed
<1>2. rows \in Seq(Row) /\ Len(rows) \in Nat /\ DOMAIN rows = 1 .. Len(rows)
      /\ selected \in Seq(Nat) /\ \A k \in 1 .. Len(rows) : rows[k] \in Row
    BY <1>1, SelectedTyped
<1>3. CASE Select
    <2>1. Ticks' /\ SameRows
        <3>1. ASSUME NEW i \in DOMAIN rows, ClickRow(i) PROVE Ticks' /\ SameRows
            BY <1>1, <3>1, ClickShown DEF ShownInv
        <3>2. ASSUME selectable, SelectAll \/ DeselectAll PROVE Ticks' /\ SameRows
            <4>1. \A k \in DOMAIN rows : rows[k].active
                BY <3>2 DEF ActivityInv
            <4>2. QED BY <1>1, <3>2, <4>1, AllShown
        <3>3. QED BY <1>3, <3>1, <3>2 DEF Select
    <2>2. QED BY <1>1, <2>1, SameRowsDistinct DEF ShownInv
<1>4. CASE Delete
    <2>1. rows' = Deleted.rows /\ panicked' = ~Deleted.ok /\ selected' = <<>>
        BY <1>4 DEF Delete, DeleteSelection
    <2>2. TickedSelected
        BY <1>1 DEF Ticks, TickedSelected
    <2>3. /\ DistinctFiles(rows')
          /\ Deleted.ok => \A k \in 1 .. Len(rows') : ~rows'[k].checked
        BY <1>1, <2>1, <2>2, DeletedFacts DEF ShownInv
    <2>4. Alive' => Ticks'
        <3>1. Elements(selected') = {}
            BY <2>1 DEF Elements
        <3>2. QED BY <2>1, <2>3, <3>1 DEF Alive, Ticks
    <2>5. QED BY <2>3, <2>4 DEF ShownInv
<1>5. ASSUME NEW f \in Files, Drop(f) PROVE ShownInv'
    <2>1. NewRow(f).file = f /\ ~NewRow(f).checked /\ NewRow(f) \in Row
        BY DEF NewRow, Row, Status
    <2>2. CASE is_converting
        <3>1. rows' = <<NewRow(f)>> /\ selected' = <<>>
            BY <1>5, <2>2 DEF Drop
        <3>2. Len(rows') = 1 /\ DOMAIN rows' = {1} /\ rows'[1] = NewRow(f) /\ Elements(selected') = {}
            BY <3>1 DEF Elements
        <3>3. QED BY <2>1, <3>2 DEF ShownInv, Ticks, DistinctFiles
    <2>3. CASE ~is_converting
        <3>1. rows' = Append(rows, NewRow(f)) /\ selected' = selected /\ f \notin FilesOf(rows)
            BY <1>5, <2>3 DEF Drop, ContainsPath
        <3>2. /\ Len(rows') = Len(rows) + 1 /\ DOMAIN rows' = 1 .. Len(rows) + 1
              /\ \A k \in 1 .. Len(rows) : rows'[k] = rows[k]
              /\ rows'[Len(rows) + 1] = NewRow(f)
            BY <1>2, <2>1, <3>1
        <3>3. Len(rows) \notin Elements(selected)
            BY <1>1, <1>2, SelectedTyped DEF Elements
        <3>4. ASSUME NEW k \in 1 .. Len(rows') PROVE rows'[k].checked <=> k - 1 \in Elements(selected')
            <4>1. CASE k = Len(rows) + 1
                <5>1. k - 1 = Len(rows)
                    BY <1>2, <4>1
                <5>2. QED BY <2>1, <3>1, <3>2, <3>3, <4>1, <5>1
            <4>2. CASE k # Len(rows) + 1
                <5>1. k \in 1 .. Len(rows) /\ rows'[k] = rows[k]
                    BY <1>2, <3>2, <4>2
                <5>2. QED BY <1>1, <3>1, <5>1 DEF Ticks
            <4>3. QED BY <4>1, <4>2
        <3>5. DistinctFiles(rows')
            <4>1. \A k \in 1 .. Len(rows) : rows'[k].file # f /\ rows[k].file # f
                BY <1>2, <3>1, <3>2 DEF FilesOf
            <4>2. ASSUME NEW k \in 1 .. Len(rows) + 1, NEW l \in 1 .. Len(rows) + 1,
                         rows'[k].file = rows'[l].file
                  PROVE  k = l
                <5>1. CASE k = Len(rows) + 1 \/ l = Len(rows) + 1
                    BY <1>2, <2>1, <3>2, <4>1, <4>2, <5>1
                <5>2. CASE k # Len(rows) + 1 /\ l # Len(rows) + 1
                    <6>1. k \in 1 .. Len(rows) /\ l \in 1 .. Len(rows)
                        BY <1>2, <5>2
                    <6>2. QED BY <1>2, <3>2, <4>2, <6>1 DEF ShownInv, DistinctFiles
                <5>3. QED BY <5>1, <5>2
            <4>3. QED BY <3>2, <4>2 DEF DistinctFiles
        <3>6. QED BY <3>4, <3>5 DEF ShownInv, Ticks
    <2>4. QED BY <2>2, <2>3
<1>6. CASE StartBatch
    <2>1. rows' = [k \in 1 .. Len(rows) |-> [rows[k] EXCEPT !.active = FALSE]] /\ UNCHANGED selected
        BY <1>2, <1>6 DEF StartBatch
    <2>2. Len(rows') = Len(rows) /\ DOMAIN rows' = 1 .. Len(rows)
          /\ \A k \in 1 .. Len(rows) : rows'[k] = [rows[k] EXCEPT !.active = FALSE]
        BY <1>2, <2>1
    <2>3. \A k \in 1 .. Len(rows) : /\ rows'[k].file = rows[k].file
                                    /\ rows'[k].checked <=> rows[k].checked
        BY <1>2, <2>2 DEF Row
    <2>4. Ticks'
        BY <1>1, <2>1, <2>2, <2>3 DEF Ticks
    <2>5. DistinctFiles(rows')
        BY <1>2, <2>2, <2>3 DEF ShownInv, DistinctFiles
    <2>6. QED BY <2>4, <2>5 DEF ShownInv
<1>7. CASE Cancel
    BY <1>7 DEF Cancel, listVars, ShownInv, Alive, Ticks, DistinctFiles
<1>8. QED BY <1>3, <1>4, <1>5, <1>6, <1>7 DEF UserStep

LEMMA ThreadsShown ==
    ASSUME Typed, ShownInv, WorkerStep \/ Spin \/ LoopStep
    PROVE  ShownInv'
<1>1. CASE WorkerStep \/ Spin \/ WakeForNothing
    <2>1. UNCHANGED <<rows, selected, panicked>>
        BY <1>1 DEF WorkerStep, Spin, Flush, StartTask, StopBatch, Progress, FinishTask, NextTask,
            EndBatch, WakeForNothing, listVars
    <2>2. QED BY <2>1 DEF ShownInv, Alive, Ticks, DistinctFiles
<1>2. CASE TakeEvent
    <2> DEFINE e == Head(events)
    <2>1. /\ Alive /\ events # <<>>
          /\ ShowStart(e) \/ ShowProgress(e) \/ ShowResult(e) \/ ShowEnded(e)
        BY <1>2 DEF TakeEvent
    <2>2. e.row \in Nat
        BY <2>1, EventRow
    <2> HIDE DEF e
    <2>3. /\ UNCHANGED selected
          /\ Len(rows') = Len(rows) /\ DOMAIN rows' = 1 .. Len(rows) /\ DOMAIN rows = 1 .. Len(rows)
          /\ \A k \in 1 .. Len(rows) : /\ rows'[k].file = rows[k].file
                                       /\ rows'[k].checked = rows[k].checked
        BY <2>1, <2>2, ShownOnly, SelectedTyped DEF Typed
    <2>4. Ticks'
        BY <2>1, <2>3 DEF ShownInv, Ticks
    <2>5. DistinctFiles(rows')
        BY <2>3 DEF ShownInv, DistinctFiles
    <2>6. QED BY <2>4, <2>5 DEF ShownInv
<1>3. QED BY <1>1, <1>2 DEF LoopStep

LEMMA InitShown ==
    ASSUME Distinct(StartFiles), Init
    PROVE  ShownInv
<1>1. StartFiles \in Seq(Files) /\ Len(StartFiles) \in Nat /\ DOMAIN StartFiles = 1 .. Len(StartFiles)
    BY GuiAssumption
<1>2. rows = [i \in 1 .. Len(StartFiles) |-> NewRow(StartFiles[i])] /\ selected = <<>>
    BY <1>1 DEF Init
<1>3. /\ Len(rows) = Len(StartFiles) /\ DOMAIN rows = 1 .. Len(StartFiles)
      /\ \A k \in 1 .. Len(StartFiles) : rows[k] = NewRow(StartFiles[k])
    BY <1>1, <1>2
<1>4. \A k \in 1 .. Len(StartFiles) : rows[k].file = StartFiles[k] /\ ~rows[k].checked
    BY <1>3 DEF NewRow
<1>5. Elements(selected) = {}
    BY <1>2 DEF Elements
<1>6. Ticks
    BY <1>3, <1>4, <1>5 DEF Ticks
<1>7. DistinctFiles(rows)
    BY <1>1, <1>3, <1>4 DEF DistinctFiles, Distinct
<1>8. QED BY <1>6, <1>7 DEF ShownInv

LEMMA ShownAlways ==
    ASSUME Distinct(StartFiles)
    PROVE  Spec => []ShownInv
<1>1. Init => ShownInv
    BY InitShown
<1>2. Typed /\ Typed' /\ ActivityInv /\ ShownInv /\ [Next]_vars => ShownInv'
    <2>1. ASSUME ShownInv, UNCHANGED vars PROVE ShownInv'
        BY <2>1 DEF vars, listVars, ShownInv, Alive, Ticks, DistinctFiles
    <2>2. QED BY <2>1, UserShown, ThreadsShown DEF Next
<1>3. QED BY <1>1, <1>2, TypedAlways, ActivityAlways, PTL DEF Spec

\* If no file is given twice on the command line, what the user sees ticked is what
\* Delete will act on, through any number of clicks, (de)selections, deletions,
\* drops and batches.
THEOREM SelectionIsShown ==
    ASSUME Distinct(StartFiles)
    PROVE  Spec => []SelectionShown
<1>1. Typed /\ ShownInv => SelectionShown
    BY SelectedIsTicked DEF Typed, ShownInv, SelectionShown
<1>2. QED BY <1>1, TypedAlways, ShownAlways, PTL

\* Delete removes exactly the ticked rows, keeps the others in their order and does not
\* abort, as long as no row is selected twice ("Select all" does that to the rows that
\* were selected before).
THEOREM DeletionIsExact ==
    ASSUME Distinct(StartFiles)
    PROVE  Spec => DeletesTicked
<1> DEFINE A == Delete /\ Distinct(selected) =>
                   /\ ~panicked'
                   /\ rows' = Without(rows, {rows[i] : i \in Checked})
<1>1. Typed /\ ShownInv => A
    <2> SUFFICES ASSUME Typed, ShownInv, Delete, Distinct(selected)
                 PROVE  ~panicked' /\ rows' = Without(rows, Ticked)
        BY DEF Ticked
    <2>1. TypeOKList /\ Ticks
        BY DEF Typed, ShownInv, Delete
    <2>2. TickedSelected
        BY <2>1 DEF Ticks, TickedSelected
    <2>3. SelectedOnce
        <3>1. ASSUME NEW k \in 1 .. Len(selected) PROVE rows[selected[k] + 1].checked
            <4>1. selected[k] \in 0 .. Len(rows) - 1 /\ selected[k] \in Elements(selected) /\ Len(rows) \in Nat
                BY <2>1, SelectedTyped DEF Elements
            <4>2. selected[k] + 1 \in 1 .. Len(rows) /\ (selected[k] + 1) - 1 = selected[k]
                BY <4>1
            <4>3. QED BY <2>1, <4>1, <4>2 DEF Ticks
        <3>2. QED BY <3>1 DEF SelectedOnce
    <2>4. Deleted.ok /\ Deleted.rows = Without(rows, Ticked)
        BY <2>1, <2>2, <2>3, DeletedFacts
    <2>5. rows' = Deleted.rows /\ panicked' = ~Deleted.ok
        BY DEF Delete, DeleteSelection
    <2>6. QED BY <2>4, <2>5
<1>2. [][A]_vars => DeletesTicked
    BY PTL DEF DeletesTicked
<1>3. QED BY <1>1, <1>2, TypedAlways, ShownAlways, PTL DEF Spec

-----------------------------------------------------------------------------
(* What the events on their way say.                                       *)

\* The events on their way are about the file that the worker is at.
OwnEvents(s) ==
    \A k \in 1 .. Len(s) :
        /\ s[k].file = tasks[idx + 1]
        /\ s[k].type # "progress" => s[k].row = idx
        /\ s[k].type = "success" => outcome[tasks[idx + 1]] = "ok"
        /\ s[k].type = "failure" => outcome[tasks[idx + 1]] = "error"
EventsInv == pc \in {"converting", "waiting"} => OwnEvents(events) /\ OwnEvents(outbox)

LEMMA EventsStep ==
    ASSUME Typed, Typed', Inv, EventsInv, [Next]_vars
    PROVE  EventsInv'
<1>1. events \in Seq(Event) /\ outbox \in Seq(Event) /\ Len(events) \in Nat /\ Len(outbox) \in Nat
    BY DEF Typed, QueueTyped
<1>2. ASSUME UNCHANGED <<pc, tasks, idx, outcome, events, outbox>> PROVE EventsInv'
    BY <1>2 DEF EventsInv, OwnEvents
<1>3. CASE UNCHANGED vars
    BY <1>2, <1>3 DEF vars, workerVars, chanVars, histVars
<1>4. CASE Select \/ Delete \/ (\E f \in Files : Drop(f)) \/ Cancel \/ Spin \/ WakeForNothing
    BY <1>2, <1>4 DEF Select, Delete, Drop, Cancel, Spin, WakeForNothing, workerVars, chanVars, histVars
<1>5. CASE StartBatch \/ StopBatch \/ NextTask \/ EndBatch
    <2>1. pc' \notin {"converting", "waiting"}
        BY <1>5 DEF StartBatch, StopBatch, NextTask, EndBatch
    <2>2. QED BY <2>1 DEF EventsInv
<1>6. CASE Flush
    <2>1. /\ UNCHANGED <<pc, tasks, idx, outcome>> /\ events' = events \o outbox /\ outbox' = <<>>
        BY <1>6 DEF Flush, workerVars, histVars
    <2>2. /\ Len(events') = Len(events) + Len(outbox)
          /\ \A k \in 1 .. Len(events) + Len(outbox) :
                events'[k] = IF k <= Len(events) THEN events[k] ELSE outbox[k - Len(events)]
        BY <1>1, <2>1, ConcatProperties
    <2>3. ASSUME NEW k \in 1 .. Len(events')
          PROVE  \/ k \in 1 .. Len(events) /\ events'[k] = events[k]
                 \/ k - Len(events) \in 1 .. Len(outbox) /\ events'[k] = outbox[k - Len(events)]
        BY <1>1, <2>2
    <2>4. ASSUME OwnEvents(events), OwnEvents(outbox) PROVE OwnEvents(events)' /\ OwnEvents(outbox)'
        <3>1. Len(outbox') = 0
            BY <2>1
        <3>2. OwnEvents(outbox)'
            BY <3>1 DEF OwnEvents
        <3>3. OwnEvents(events)'
            BY <2>1, <2>3, <2>4 DEF OwnEvents
        <3>4. QED BY <3>2, <3>3
    <2>5. QED BY <2>1, <2>4 DEF EventsInv
<1>7. CASE StartTask
    <2>1. /\ pc = "top" /\ UNCHANGED <<idx, tasks, events>>
          /\ outbox' = <<[type |-> "start", row |-> idx, file |-> tasks[idx + 1]]>>
        BY <1>7 DEF StartTask, Sending
    <2>2. events' = <<>>
        BY <2>1 DEF Inv, HandshakeInv, Quiet
    <2>3. OwnEvents(events)' /\ OwnEvents(outbox)'
        BY <2>1, <2>2 DEF OwnEvents
    <2>4. QED BY <2>3 DEF EventsInv
<1>8. CASE Progress
    <2>1. /\ pc = "converting" /\ UNCHANGED <<idx, tasks, events, outcome>>
          /\ outbox' = <<[type |-> "progress", row |-> 0, file |-> tasks[idx + 1]]>>
        BY <1>8 DEF Progress, Sending, histVars
    <2>2. OwnEvents(events)
        BY <2>1 DEF EventsInv
    <2>3. OwnEvents(events)' /\ OwnEvents(outbox)'
        BY <2>1, <2>2 DEF OwnEvents
    <2>4. QED BY <2>3 DEF EventsInv
<1>9. ASSUME NEW ok \in BOOLEAN, FinishTask(ok) PROVE EventsInv'
    <2>1. /\ pc = "converting" /\ UNCHANGED <<idx, tasks, events>>
          /\ outcome' = [outcome EXCEPT ![tasks[idx + 1]] = IF ok THEN "ok" ELSE "error"]
          /\ outbox' = <<[type |-> IF ok THEN "success" ELSE "failure", row |-> idx,
                          file |-> tasks[idx + 1]]>>
        BY <1>9 DEF FinishTask, Sending
    <2>2. OwnEvents(events) /\ \A k \in 1 .. Len(events) : events[k].type \in {"start", "progress"}
        BY <2>1 DEF EventsInv, Inv, HandshakeInv, OnlyReports, Reports
    <2>3. outcome'[tasks[idx + 1]] = IF ok THEN "ok" ELSE "error"
        <3>1. tasks[idx + 1] \in Files
            BY <2>1, TaskTyped DEF Typed, WorkerInv
        <3>2. outcome \in [Files -> {"none", "ok", "error"}]
            BY DEF Typed, WorkTyped
        <3>3. QED BY <2>1, <3>1, <3>2
    <2>4. OwnEvents(events)'
        BY <2>1, <2>2 DEF OwnEvents
    <2>5. OwnEvents(outbox)'
        BY <2>1, <2>3 DEF OwnEvents
    <2>6. QED BY <2>4, <2>5 DEF EventsInv
<1>10. CASE TakeEvent
    <2>1. events # <<>> /\ events' = Tail(events) /\ UNCHANGED <<pc, tasks, idx, outcome, outbox>>
        BY <1>10 DEF TakeEvent, workerVars, histVars
    <2>2. Len(events') = Len(events) - 1 /\ \A k \in 1 .. Len(events') : events'[k] = events[k + 1]
        BY <1>1, <2>1
    <2>3. ASSUME OwnEvents(events) PROVE OwnEvents(events)'
        <3>1. \A k \in 1 .. Len(events') : k + 1 \in 1 .. Len(events)
            BY <1>1, <2>2
        <3>2. QED BY <2>1, <2>2, <2>3, <3>1 DEF OwnEvents
    <2>4. OwnEvents(outbox) => OwnEvents(outbox)'
        BY <2>1 DEF OwnEvents
    <2>5. QED BY <2>1, <2>3, <2>4 DEF EventsInv
<1>11. QED
    BY <1>3, <1>4, <1>5, <1>6, <1>7, <1>8, <1>9, <1>10 DEF Next, WorkerStep, LoopStep, UserStep

LEMMA EventsAlways == Spec => []EventsInv
<1>1. Init => EventsInv
    BY DEF Init, EventsInv
<1>2. Typed /\ Typed' /\ Inv /\ EventsInv /\ [Next]_vars => EventsInv'
    BY EventsStep
<1>3. QED BY <1>1, <1>2, TypedAlways, InvAlways, PTL DEF Spec

-----------------------------------------------------------------------------
(* What the rows of a batch tell.                                          *)

\* The rows are still those of the batch.
Undisturbed == is_converting /\ ~disturbed

RowsAreTasks == Len(rows) = Len(tasks) /\ \A k \in 1 .. Len(rows) : rows[k].file = tasks[k]

\* Whatever files are listed, the rows stay those of the tasks.
LEMMA RowsStep ==
    ASSUME Typed, ActivityInv, [Next]_vars, Undisturbed => RowsAreTasks, Undisturbed'
    PROVE  RowsAreTasks'
<1>1. CASE StartBatch
    <2>1. rows \in Seq(Row) /\ Len(rows) \in Nat /\ DOMAIN rows = 1 .. Len(rows)
          /\ \A k \in 1 .. Len(rows) : rows[k] \in Row
        BY SelectedTyped DEF Typed
    <2>2. /\ rows' = [k \in 1 .. Len(rows) |-> [rows[k] EXCEPT !.active = FALSE]]
          /\ tasks' = [k \in 1 .. Len(rows) |-> rows[k].file]
        BY <1>1, <2>1 DEF StartBatch
    <2>3. Len(rows') = Len(rows) /\ Len(tasks') = Len(rows)
          /\ \A k \in 1 .. Len(rows) : /\ rows'[k] = [rows[k] EXCEPT !.active = FALSE]
                                       /\ tasks'[k] = rows[k].file
        BY <2>1, <2>2
    <2>4. QED BY <2>1, <2>3 DEF RowsAreTasks, Row
<1>2. CASE Select
    <2>1. UNCHANGED tasks /\ Undisturbed
        BY <1>2 DEF Select, SelectionChanged, workerVars, histVars, Undisturbed
    <2>2. SameRows
        BY <1>2, SelectSame DEF Select, Typed
    <2>3. QED BY <2>1, <2>2 DEF RowsAreTasks, SameRows
<1>3. CASE Delete
    <2>1. disturbed' = (pc # "none") /\ is_converting' = is_converting
        BY <1>3 DEF Delete, SelectionChanged
    <2>2. QED BY <2>1 DEF Undisturbed, ActivityInv
<1>4. CASE \E f \in Files : Drop(f)
    BY <1>4 DEF Drop, Undisturbed
<1>5. CASE Cancel \/ WorkerStep \/ Spin \/ WakeForNothing \/ UNCHANGED vars
    <2>1. UNCHANGED <<rows, tasks, is_converting, disturbed>>
        BY <1>5 DEF Cancel, WorkerStep, Spin, Flush, StartTask, StopBatch, Progress, FinishTask, NextTask,
            EndBatch, WakeForNothing, vars, listVars, uiVars, workerVars, histVars
    <2>2. QED BY <2>1 DEF Undisturbed, RowsAreTasks
<1>6. CASE TakeEvent
    <2> DEFINE e == Head(events)
    <2>1. /\ events # <<>> /\ UNCHANGED <<tasks, disturbed>>
          /\ ShowStart(e) \/ ShowProgress(e) \/ ShowResult(e) \/ ShowEnded(e)
        BY <1>6 DEF TakeEvent, workerVars, histVars
    <2>2. e.row \in Nat
        BY <2>1, EventRow
    <2>3. UNCHANGED is_converting
        BY <2>1 DEF ShowStart, ShowProgress, ShowResult, ShowEnded, uiVars
    <2> HIDE DEF e
    <2>4. Len(rows') = Len(rows) /\ \A k \in 1 .. Len(rows) : rows'[k].file = rows[k].file
        BY <2>1, <2>2, ShownOnly DEF Typed
    <2>5. QED BY <2>1, <2>3, <2>4 DEF Undisturbed, RowsAreTasks
<1>7. QED BY <1>1, <1>2, <1>3, <1>4, <1>5, <1>6 DEF Next, LoopStep, UserStep

LEMMA RowsAlways == Spec => [](Undisturbed => RowsAreTasks)
<1>1. Init => (Undisturbed => RowsAreTasks)
    BY DEF Init, Undisturbed
<1>2. Typed /\ ActivityInv /\ (Undisturbed => RowsAreTasks) /\ [Next]_vars => (Undisturbed => RowsAreTasks)'
    BY RowsStep
<1>3. QED BY <1>1, <1>2, TypedAlways, ActivityAlways, PTL DEF Spec

\* Row k tells how its file fared.
Told(k) == \/ rows[k].status = "succeeded" /\ outcome[tasks[k]] = "ok"
           \/ rows[k].status = "failed" /\ outcome[tasks[k]] = "error"

\* The files that were converted, and the counts of the worker.
CountsInv ==
    /\ \A k \in 1 .. counts.completed : outcome[tasks[k]] \in {"ok", "error"}
    /\ \A k \in counts.completed + 1 .. Len(tasks) : outcome[tasks[k]] = "none"
    /\ counts.failed = 0 <=> \A k \in 1 .. counts.completed : outcome[tasks[k]] = "ok"
    /\ counts.failed = counts.completed <=> \A k \in 1 .. counts.completed : outcome[tasks[k]] = "error"

\* The rows of the files that the worker is done with; it moves on only after the
\* result was shown.
ToldInv ==
    /\ \A k \in 1 .. idx : Told(k)
    /\ pc = "waiting" /\ Quiet => acks = 1 /\ Told(idx + 1)

SummaryInv ==
    pc = "finished" /\ events = <<>> =>
        /\ \A k \in idx + 1 .. Len(rows) : rows[k].status = "cancelled"
        /\ summary.text = "cancelled" <=> idx # Len(tasks)
        /\ summary.text = "all_failed" <=> idx = Len(tasks) /\ counts.failed = Len(tasks)
        /\ summary.color = "succeeded" <=> idx = Len(tasks) /\ counts.failed = 0

BatchInv == CountsInv /\ ToldInv /\ SummaryInv

\* Nothing of the batch changes.
LEMMA SameBatch ==
    ASSUME Typed, RowsAreTasks, BatchInv, SameRows,
           UNCHANGED <<tasks, idx, counts, outcome, pc, events, outbox, acks, summary>>
    PROVE  BatchInv'
<1>1. Len(rows') = Len(rows) /\ Len(rows) \in Nat /\ idx \in Nat /\ Len(rows) = Len(tasks)
      /\ idx <= Len(tasks) /\ (pc = "waiting" => idx < Len(tasks))
    BY DEF SameRows, Typed, TypeOKList, RowsAreTasks, WorkTyped, WorkerInv
<1>2. \A k \in 1 .. Len(rows) : rows'[k].file = rows[k].file /\ rows'[k].status = rows[k].status
    BY DEF SameRows
<1>3. /\ tasks' = tasks /\ idx' = idx /\ counts' = counts /\ outcome' = outcome /\ pc' = pc
      /\ events' = events /\ outbox' = outbox /\ acks' = acks /\ summary' = summary
    OBVIOUS
<1>5. CountsInv'
    BY <1>3 DEF BatchInv, CountsInv
<1>6. \A k \in 1 .. Len(rows) : Told(k)' <=> Told(k)
    BY <1>2, <1>3 DEF Told
<1>7. ToldInv'
    <2>1. \A k \in 1 .. idx : k \in 1 .. Len(rows)
        BY <1>1
    <2>2. pc = "waiting" => idx + 1 \in 1 .. Len(rows)
        BY <1>1
    <2>3. QED BY <1>3, <1>6, <2>1, <2>2 DEF BatchInv, ToldInv, Quiet
<1>8. SummaryInv'
    <2>1. \A k \in idx + 1 .. Len(rows) : k \in 1 .. Len(rows)
        BY <1>1
    <2>2. QED BY <1>1, <1>2, <1>3, <2>1 DEF BatchInv, SummaryInv
<1>9. QED BY <1>5, <1>7, <1>8 DEF BatchInv

LEMMA UserBatch ==
    ASSUME Typed, ActivityInv, UserStep, Undisturbed => RowsAreTasks /\ BatchInv, Undisturbed'
    PROVE  BatchInv'
<1>1. CASE StartBatch
    <2>1. rows \in Seq(Row) /\ Len(rows) \in Nat /\ DOMAIN rows = 1 .. Len(rows)
          /\ \A k \in 1 .. Len(rows) : rows[k] \in Row
        BY SelectedTyped DEF Typed
    <2>2. /\ tasks' = [k \in 1 .. Len(rows) |-> rows[k].file]
          /\ pc' = "top" /\ idx' = 0 /\ counts' = [completed |-> 0, failed |-> 0]
          /\ outcome' = [f \in Files |-> "none"]
        BY <1>1, <2>1 DEF StartBatch
    <2>3. Len(tasks') = Len(rows) /\ \A k \in 1 .. Len(rows) : tasks'[k] = rows[k].file
        BY <2>1, <2>2
    <2>4. CountsInv'
        <3>1. \A k \in 1 .. Len(rows) : rows[k].file \in Files
            BY <2>1 DEF Row
        <3>2. counts'.completed = 0 /\ counts'.failed = 0
            BY <2>2
        <3>3. \A k \in 1 .. Len(tasks') : outcome'[tasks'[k]] = "none"
            BY <2>2, <2>3, <3>1
        <3>4. QED BY <3>2, <3>3 DEF CountsInv
    <2>5. ToldInv' /\ SummaryInv'
        BY <2>2 DEF ToldInv, SummaryInv
    <2>6. QED BY <2>4, <2>5 DEF BatchInv
<1>2. CASE Select
    <2>1. /\ UNCHANGED <<tasks, idx, counts, outcome, pc, events, outbox, acks, summary>>
          /\ Undisturbed
        BY <1>2 DEF Select, SelectionChanged, workerVars, chanVars, histVars, Undisturbed
    <2>2. SameRows
        BY <1>2, SelectSame DEF Select, Typed
    <2>3. QED BY <2>1, <2>2, SameBatch
<1>3. CASE Cancel
    <2>1. /\ UNCHANGED <<tasks, idx, counts, outcome, pc, events, outbox, acks, summary>>
          /\ Undisturbed
        BY <1>3 DEF Cancel, workerVars, chanVars, Undisturbed
    <2>2. SameRows
        BY <1>3 DEF Cancel, listVars, SameRows
    <2>3. QED BY <2>1, <2>2, SameBatch
<1>4. CASE Delete
    <2>1. disturbed' = (pc # "none") /\ is_converting' = is_converting
        BY <1>4 DEF Delete, SelectionChanged
    <2>2. QED BY <2>1 DEF Undisturbed, ActivityInv
<1>5. CASE \E f \in Files : Drop(f)
    BY <1>5 DEF Drop, Undisturbed
<1>6. QED BY <1>1, <1>2, <1>3, <1>4, <1>5 DEF UserStep

LEMMA FinishBatch ==
    ASSUME Typed, RowsAreTasks, BatchInv, DistinctFiles(rows), NEW ok \in BOOLEAN, FinishTask(ok)
    PROVE  BatchInv'
<1>1. /\ pc = "converting" /\ pc' = "waiting" /\ outbox' # <<>>
      /\ counts' = [completed |-> counts.completed + 1,
                    failed |-> IF ok THEN counts.failed ELSE counts.failed + 1]
      /\ outcome' = [outcome EXCEPT ![tasks[idx + 1]] = IF ok THEN "ok" ELSE "error"]
      /\ UNCHANGED <<rows, tasks, idx>>
    BY DEF FinishTask, Sending, listVars
<1>2. /\ idx \in Nat /\ Len(tasks) \in Nat /\ counts.completed = idx /\ idx < Len(tasks)
      /\ counts.failed \in Nat /\ counts.failed <= idx /\ idx + 1 \in 1 .. Len(tasks)
    BY <1>1 DEF Typed, WorkerInv, WorkTyped
<1>3. \A k \in 1 .. Len(tasks) : tasks[k] \in Files
    BY DEF Typed, WorkTyped
<1>4. \A k, l \in 1 .. Len(tasks) : tasks[k] = tasks[l] => k = l
    <2>1. DOMAIN rows = 1 .. Len(tasks) /\ \A k \in 1 .. Len(tasks) : rows[k].file = tasks[k]
        BY SelectedTyped DEF Typed, RowsAreTasks
    <2>2. QED BY <2>1 DEF DistinctFiles
<1>5. /\ \A k \in 1 .. Len(tasks) : k # idx + 1 => outcome'[tasks[k]] = outcome[tasks[k]]
      /\ outcome'[tasks[idx + 1]] = IF ok THEN "ok" ELSE "error"
    <2>1. outcome \in [Files -> {"none", "ok", "error"}]
        BY DEF Typed, WorkTyped
    <2>2. QED BY <1>1, <1>2, <1>3, <1>4, <2>1
<1>7. counts'.completed = idx + 1 /\ counts'.failed = IF ok THEN counts.failed ELSE counts.failed + 1
    BY <1>1, <1>2
<1>8. \A k \in 1 .. idx : k \in 1 .. Len(tasks) /\ outcome'[tasks[k]] = outcome[tasks[k]]
    BY <1>2, <1>5
<1>9. \A k \in 1 .. idx + 1 : k \in 1 .. idx \/ k = idx + 1
    BY <1>2
<1>10. CountsInv'
    <2>1. \A k \in 1 .. idx + 1 : outcome'[tasks[k]] \in {"ok", "error"}
        BY <1>2, <1>5, <1>8, <1>9 DEF BatchInv, CountsInv
    <2>2. \A k \in idx + 2 .. Len(tasks) : outcome'[tasks[k]] = "none"
        <3>1. \A k \in idx + 2 .. Len(tasks) : k \in idx + 1 .. Len(tasks) /\ k # idx + 1 /\ k \in 1 .. Len(tasks)
            BY <1>2
        <3>2. QED BY <1>2, <1>5, <3>1 DEF BatchInv, CountsInv
    <2>3. counts'.failed = 0 <=> \A k \in 1 .. idx + 1 : outcome'[tasks[k]] = "ok"
        <3>1. idx + 1 \in 1 .. idx + 1 /\ \A k \in 1 .. idx : k \in 1 .. idx + 1
            BY <1>2
        <3>2. CASE ok
            <4>1. counts'.failed = 0 <=> \A k \in 1 .. idx : outcome[tasks[k]] = "ok"
                BY <1>2, <1>7, <3>2 DEF BatchInv, CountsInv
            <4>2. outcome'[tasks[idx + 1]] = "ok"
                BY <1>5, <3>2
            <4>3. QED BY <1>8, <1>9, <3>1, <4>1, <4>2
        <3>3. CASE ~ok
            <4>1. counts'.failed # 0
                BY <1>2, <1>7, <3>3
            <4>2. outcome'[tasks[idx + 1]] # "ok"
                BY <1>5, <3>3
            <4>3. QED BY <3>1, <4>1, <4>2
        <3>4. QED BY <3>2, <3>3
    <2>4. counts'.failed = idx + 1 <=> \A k \in 1 .. idx + 1 : outcome'[tasks[k]] = "error"
        <3>1. idx + 1 \in 1 .. idx + 1 /\ \A k \in 1 .. idx : k \in 1 .. idx + 1
            BY <1>2
        <3>2. CASE ok
            <4>1. counts'.failed # idx + 1
                BY <1>2, <1>7, <3>2
            <4>2. outcome'[tasks[idx + 1]] # "error"
                BY <1>5, <3>2
            <4>3. QED BY <3>1, <4>1, <4>2
        <3>3. CASE ~ok
            <4>1. counts'.failed = idx + 1 <=> counts.failed = idx
                BY <1>2, <1>7, <3>3
            <4>2. counts.failed = idx <=> \A k \in 1 .. idx : outcome[tasks[k]] = "error"
                BY <1>2 DEF BatchInv, CountsInv
            <4>3. outcome'[tasks[idx + 1]] = "error"
                BY <1>5, <3>3
            <4>4. QED BY <1>8, <1>9, <3>1, <4>1, <4>2, <4>3
        <3>4. QED BY <3>2, <3>3
    <2>5. (idx + 1) + 1 = idx + 2
        BY <1>2
    <2>6. QED BY <1>1, <1>7, <2>1, <2>2, <2>3, <2>4, <2>5 DEF CountsInv
<1>11. ToldInv'
    <2>1. \A k \in 1 .. idx : Told(k)'
        BY <1>1, <1>8 DEF BatchInv, ToldInv, Told
    <2>2. QED BY <1>1, <2>1 DEF ToldInv, Quiet
<1>12. SummaryInv'
    BY <1>1 DEF SummaryInv
<1>13. QED BY <1>10, <1>11, <1>12 DEF BatchInv

LEMMA WorkerBatch ==
    ASSUME Typed, Inv, ShownInv, WorkerStep \/ Spin, Undisturbed => RowsAreTasks /\ BatchInv,
           Undisturbed'
    PROVE  BatchInv'
<1>1. Undisturbed
    <2>1. UNCHANGED <<is_converting, disturbed>>
        BY DEF WorkerStep, Spin, Flush, StartTask, StopBatch, Progress, FinishTask, NextTask, EndBatch,
            uiVars, histVars
    <2>2. QED BY <2>1 DEF Undisturbed
<1>2. RowsAreTasks /\ BatchInv
    BY <1>1
<1>3. CASE Spin
    <2>1. /\ UNCHANGED <<tasks, idx, counts, outcome, pc, events, outbox, acks, summary>>
          /\ UNCHANGED rows
        BY <1>3 DEF Spin, listVars, workerVars, histVars
    <2>2. SameRows
        BY <2>1 DEF SameRows
    <2>3. QED BY <1>2, <2>1, <2>2, SameBatch
<1>4. ASSUME NEW ok \in BOOLEAN, FinishTask(ok) PROVE BatchInv'
    BY <1>2, <1>4, FinishBatch DEF ShownInv
<1>5. ASSUME UNCHANGED <<tasks, counts, outcome>>, ToldInv', SummaryInv' PROVE BatchInv'
    BY <1>2, <1>5 DEF BatchInv, CountsInv
<1>6. CASE Flush
    <2>1. /\ UNCHANGED <<rows, tasks, counts, outcome, idx, pc>> /\ outbox # <<>>
          /\ events' = events \o outbox
        BY <1>6 DEF Flush, listVars, workerVars, histVars
    <2>2. events' # <<>>
        <3>1. events \in Seq(Event) /\ outbox \in Seq(Event)
            BY DEF Typed, QueueTyped
        <3>2. Len(outbox) \in Nat \ {0} /\ Len(events) \in Nat
            BY <2>1, <3>1
        <3>3. Len(events') = Len(events) + Len(outbox)
            BY <2>1, <3>1, ConcatProperties
        <3>4. Len(events') # 0
            BY <3>2, <3>3
        <3>5. QED BY <3>4
    <2>3. ToldInv'
        BY <1>2, <2>1, <2>2 DEF BatchInv, ToldInv, Told, Quiet
    <2>4. SummaryInv'
        BY <2>2 DEF SummaryInv
    <2>5. QED BY <1>5, <2>1, <2>3, <2>4
<1>7. CASE StartTask \/ StopBatch \/ Progress
    <2>1. /\ UNCHANGED <<rows, tasks, counts, outcome, idx>> /\ pc' \in {"converting", "end"}
        BY <1>7 DEF StartTask, StopBatch, Progress, listVars, histVars
    <2>2. ToldInv' /\ SummaryInv'
        BY <1>2, <2>1 DEF BatchInv, ToldInv, SummaryInv, Told
    <2>3. QED BY <1>5, <2>1, <2>2
<1>8. CASE NextTask
    <2>1. /\ UNCHANGED <<rows, tasks, counts, outcome>> /\ pc' \in {"top", "end"} /\ idx' = idx + 1
          /\ pc = "waiting" /\ acks > 0
        BY <1>8 DEF NextTask, Acknowledged, listVars, histVars
    <2>2. Quiet
        BY <2>1 DEF Inv, HandshakeInv, Awaited
    <2>3. \A k \in 1 .. idx + 1 : Told(k)
        <3>1. idx \in Nat
            BY DEF Typed, WorkTyped
        <3>2. \A k \in 1 .. idx + 1 : k \in 1 .. idx \/ k = idx + 1
            BY <3>1
        <3>3. QED BY <1>2, <2>1, <2>2, <3>2 DEF BatchInv, ToldInv
    <2>4. ToldInv' /\ SummaryInv'
        BY <2>1, <2>3 DEF ToldInv, SummaryInv, Told
    <2>5. QED BY <1>5, <2>1, <2>4
<1>9. CASE EndBatch
    <2>1. /\ UNCHANGED <<rows, tasks, counts, outcome, idx>> /\ pc' = "finished"
          /\ events' = Append(events, EndedEvent)
        BY <1>9 DEF EndBatch, SentUnderLock, listVars, histVars
    <2>2. events' # <<>>
        <3>1. events \in Seq(Event)
            BY DEF Typed, QueueTyped
        <3>2. Len(events') = Len(events) + 1 /\ Len(events) \in Nat
            BY <2>1, <3>1
        <3>3. Len(events') # 0
            BY <3>2
        <3>4. QED BY <3>3
    <2>3. ToldInv' /\ SummaryInv'
        BY <1>2, <2>1, <2>2 DEF BatchInv, ToldInv, SummaryInv, Told
    <2>4. QED BY <1>5, <2>1, <2>3
<1>10. QED BY <1>3, <1>4, <1>6, <1>7, <1>8, <1>9 DEF WorkerStep

\* Showing an event changes the status of the rows as follows.
LEMMA ShowRow ==
    ASSUME TypeOKList, NEW i \in Nat, i < Len(rows), NEW s, WithRow(i, s)
    PROVE  /\ rows'[i + 1].status = s
           /\ \A k \in 1 .. Len(rows) : k # i + 1 => rows'[k].status = rows[k].status
<1>1. rows \in Seq(Row) /\ Len(rows) \in Nat /\ DOMAIN rows = 1 .. Len(rows)
      /\ \A k \in 1 .. Len(rows) : rows[k] \in Row
    BY SelectedTyped
<1>2. i + 1 \in 1 .. Len(rows) /\ rows' = [rows EXCEPT ![i + 1].status = s]
    BY <1>1 DEF WithRow
<1>3. /\ rows'[i + 1] = [rows[i + 1] EXCEPT !.status = s]
      /\ \A k \in 1 .. Len(rows) : k # i + 1 => rows'[k] = rows[k]
    BY <1>1, <1>2
<1>4. rows[i + 1] \in Row
    BY <1>1, <1>2
<1>5. QED BY <1>3, <1>4 DEF Row

LEMMA LoopBatch ==
    ASSUME Typed, Inv, EventsInv, LoopStep, Undisturbed => RowsAreTasks /\ BatchInv, Undisturbed'
    PROVE  BatchInv'
<1>1. Undisturbed
    <2>1. UNCHANGED <<is_converting, disturbed>>
        BY DEF LoopStep, TakeEvent, WakeForNothing, ShowStart, ShowProgress, ShowResult, ShowEnded,
            uiVars, histVars
    <2>2. QED BY <2>1 DEF Undisturbed
<1>2. RowsAreTasks /\ BatchInv
    BY <1>1
<1>3. CASE WakeForNothing
    <2>1. /\ UNCHANGED <<tasks, idx, counts, outcome, pc, events, outbox, acks, summary>>
          /\ UNCHANGED rows
        BY <1>3 DEF WakeForNothing, listVars, workerVars, histVars
    <2>2. SameRows
        BY <2>1 DEF SameRows
    <2>3. QED BY <1>2, <2>1, <2>2, SameBatch
<1>4. CASE TakeEvent
    <2> DEFINE e == Head(events)
    <2>1. /\ events # <<>> /\ events' = Tail(events)
          /\ UNCHANGED <<tasks, idx, counts, outcome, pc, outbox>>
          /\ ShowStart(e) \/ ShowProgress(e) \/ ShowResult(e) \/ ShowEnded(e)
        BY <1>4 DEF TakeEvent, workerVars, histVars
    <2>2. /\ events \in Seq(Event) /\ Len(events) \in Nat \ {0} /\ e = events[1] /\ e \in Event
          /\ Len(events') = Len(events) - 1 /\ 1 \in 1 .. Len(events)
        <3>1. events \in Seq(Event)
            BY DEF Typed, QueueTyped
        <3>2. QED BY <2>1, <3>1
    <2>3. e.row \in Nat
        BY <2>2 DEF Event
    <2>4. /\ Len(rows) = Len(tasks) /\ Len(rows) \in Nat /\ idx \in Nat /\ idx <= Len(tasks)
          /\ pc \in {"converting", "waiting"} => idx < Len(tasks)
          /\ pc = "finished" => counts.completed = idx
        BY <1>2, SelectedTyped DEF Typed, WorkTyped, WorkerInv, RowsAreTasks
    <2>5. CASE pc \in {"converting", "waiting"}
        <3>1. /\ e.type # "progress" => e.row = idx
              /\ e.type = "success" => outcome[tasks[idx + 1]] = "ok"
              /\ e.type = "failure" => outcome[tasks[idx + 1]] = "error"
            BY <2>2, <2>5 DEF EventsInv, OwnEvents
        <3>2. e.type # "ended"
            <4>1. \A k \in 1 .. Len(events) : events[k].type \in Reports \cup Results
                <5>1. CASE OnlyReports(events)
                    BY <5>1 DEF OnlyReports
                <5>2. CASE EndsInResult(events)
                    <6>1. \A k \in 1 .. Len(events) : k \in 1 .. Len(events) - 1 \/ k = Len(events)
                        BY <2>2
                    <6>2. QED BY <5>2, <6>1 DEF EndsInResult
                <5>3. QED BY <2>1, <2>5, <5>1, <5>2 DEF Inv, HandshakeInv, Awaited, Quiet
            <4>2. e.type \in Reports \cup Results
                BY <2>2, <4>1
            <4>3. QED BY <4>2 DEF Reports, Results
        <3>3. pc = "waiting" /\ Quiet' => e.type \in Results /\ acks = 0
            <4>1. ASSUME pc = "waiting", Quiet' PROVE e.type \in Results /\ acks = 0
                <5>1. outbox = <<>> /\ Len(events) = 1
                    <6>1. Len(events') = 0 /\ outbox = <<>>
                        BY <2>1, <4>1 DEF Quiet
                    <6>2. QED BY <2>2, <6>1
                <5>2. acks = 0 /\ EndsInResult(events)
                    BY <2>1, <4>1, <5>1 DEF Inv, HandshakeInv, Awaited, Quiet, EndsInResult
                <5>3. QED BY <2>2, <5>1, <5>2 DEF EndsInResult
            <4>2. QED BY <4>1
        <3>4. /\ \A k \in 1 .. Len(rows) : k # idx + 1 => rows'[k].status = rows[k].status
              /\ e.type = "success" => rows'[idx + 1].status = "succeeded" /\ acks' = acks + 1
              /\ e.type = "failure" => rows'[idx + 1].status = "failed" /\ acks' = acks + 1
            <4>1. CASE ShowStart(e)
                <5>1. WithRow(idx, "in_progress") /\ e.type = "start"
                    BY <3>1, <4>1 DEF ShowStart
                <5>2. QED BY <2>4, <2>5, <5>1, ShowRow DEF Typed
            <4>2. CASE ShowProgress(e)
                BY <4>2 DEF ShowProgress
            <4>3. CASE ShowResult(e)
                <5>1. /\ WithRow(idx, IF e.type = "success" THEN "succeeded" ELSE "failed")
                      /\ acks' = acks + 1
                    BY <2>4, <2>5, <3>1, <4>3 DEF ShowResult
                <5>2. /\ rows'[idx + 1].status = IF e.type = "success" THEN "succeeded" ELSE "failed"
                      /\ \A k \in 1 .. Len(rows) : k # idx + 1 => rows'[k].status = rows[k].status
                    BY <2>4, <2>5, <5>1, ShowRow DEF Typed
                <5>3. QED BY <5>1, <5>2
            <4>4. QED BY <2>1, <3>2, <4>1, <4>2, <4>3 DEF ShowEnded
        <3> HIDE DEF e
        <3>6. CountsInv' /\ SummaryInv'
            BY <1>2, <2>1, <2>5 DEF BatchInv, CountsInv, SummaryInv
        <3>7. \A k \in 1 .. idx : Told(k)'
            <4>1. \A k \in 1 .. idx : Told(k) /\ k \in 1 .. Len(rows) /\ k # idx + 1
                BY <1>2, <2>4 DEF BatchInv, ToldInv
            <4>2. QED BY <2>1, <3>4, <4>1 DEF Told
        <3>8. pc = "waiting" /\ Quiet' => acks' = 1 /\ Told(idx + 1)'
            BY <2>1, <3>1, <3>3, <3>4 DEF Told, Results
        <3>9. ToldInv'
            BY <2>1, <3>7, <3>8 DEF ToldInv, Told
        <3>10. QED BY <3>6, <3>9 DEF BatchInv
    <2>6. CASE pc = "finished"
        <3>1. e.type = "ended" /\ counts.completed = idx
            BY <2>1, <2>2, <2>4, <2>6 DEF Inv, HandshakeInv
        <3>2. ShowEnded(e)
            BY <2>1, <3>1 DEF ShowStart, ShowProgress, ShowResult
        <3>3. Len(rows') = Len(rows)
            BY <2>1, <2>3, ShownOnly DEF Typed
        <3>4. /\ rows' = IF idx # Len(tasks)
                         THEN [k \in 1 .. Len(rows) |->
                                 IF k >= idx + 1 THEN [rows[k] EXCEPT !.status = "cancelled"] ELSE rows[k]]
                         ELSE rows
              /\ summary' = [text  |-> IF idx # Len(tasks) THEN "cancelled"
                                       ELSE IF counts.failed # Len(tasks) THEN "some_failed" ELSE "all_failed",
                             color |-> IF idx # Len(tasks) THEN "cancelled"
                                       ELSE IF counts.failed = 0 THEN "succeeded" ELSE "failed"]
            BY <3>1, <3>2, SelectedTyped DEF ShowEnded, CancelledFrom, Typed
        <3> HIDE DEF e
        <3>5. /\ \A k \in 1 .. idx : rows'[k].status = rows[k].status
              /\ \A k \in idx + 1 .. Len(rows) : rows'[k].status = "cancelled"
            <4>1. rows \in Seq(Row) /\ DOMAIN rows = 1 .. Len(rows) /\ \A k \in 1 .. Len(rows) : rows[k] \in Row
                BY SelectedTyped DEF Typed
            <4>2. CASE idx # Len(tasks)
                <5>1. /\ \A k \in 1 .. idx : k \in 1 .. Len(rows) /\ ~(k >= idx + 1)
                      /\ \A k \in idx + 1 .. Len(rows) : k \in 1 .. Len(rows) /\ k >= idx + 1
                    BY <2>4
                <5>2. /\ \A k \in 1 .. idx : rows'[k] = rows[k]
                      /\ \A k \in idx + 1 .. Len(rows) : rows'[k] = [rows[k] EXCEPT !.status = "cancelled"]
                    BY <3>4, <4>2, <5>1
                <5>3. QED BY <4>1, <5>1, <5>2 DEF Row
            <4>3. CASE idx = Len(tasks)
                BY <2>4, <3>4, <4>3
            <4>4. QED BY <4>2, <4>3
        <3>6. CountsInv'
            BY <1>2, <2>1 DEF BatchInv, CountsInv
        <3>7. ToldInv'
            BY <1>2, <2>1, <2>6, <3>5 DEF BatchInv, ToldInv, Told
        <3>8. /\ summary'.text = "cancelled" <=> idx # Len(tasks)
              /\ summary'.text = "all_failed" <=> idx = Len(tasks) /\ counts.failed = Len(tasks)
              /\ summary'.color = "succeeded" <=> idx = Len(tasks) /\ counts.failed = 0
            BY <3>4
        <3>9. SummaryInv'
            BY <2>1, <3>3, <3>5, <3>8 DEF SummaryInv
        <3>10. QED BY <3>6, <3>7, <3>9 DEF BatchInv
    <2>7. QED BY <2>1, <2>5, <2>6 DEF Inv, HandshakeInv, Quiet, Batching
<1>5. QED BY <1>3, <1>4 DEF LoopStep

LEMMA BatchAlways ==
    ASSUME Distinct(StartFiles)
    PROVE  Spec => [](Undisturbed => BatchInv)
<1>1. Init => (Undisturbed => BatchInv)
    BY DEF Init, Undisturbed
<1> DEFINE Known == Typed /\ Inv /\ ActivityInv /\ ShownInv /\ EventsInv /\ (Undisturbed => RowsAreTasks)
<1>2. Known /\ (Undisturbed => BatchInv) /\ [Next]_vars => (Undisturbed => BatchInv)'
    <2>1. ASSUME Undisturbed => BatchInv, UNCHANGED vars PROVE (Undisturbed => BatchInv)'
        BY <2>1 DEF vars, listVars, uiVars, workerVars, chanVars, histVars, Undisturbed, BatchInv,
            CountsInv, ToldInv, SummaryInv, Told, Quiet
    <2>2. ASSUME Known, Undisturbed => BatchInv, Next PROVE (Undisturbed => BatchInv)'
        BY <2>2, UserBatch, WorkerBatch, LoopBatch DEF Next
    <2>3. QED BY <2>1, <2>2
<1>3. QED
    BY <1>1, <1>2, TypedAlways, InvAlways, ActivityAlways, ShownAlways, EventsAlways, RowsAlways, PTL DEF Spec

-----------------------------------------------------------------------------
\* A progress message is shown while the shared current_row_idx is still the row of
\* its own file, unless rows were deleted, in every order of the two threads: the
\* worker moves on only after it was told that the result was shown.
THEOREM ProgressIsOnOwnRow == Spec => []ProgressOnOwnRow
<1>1. Typed /\ Inv /\ ActivityInv /\ EventsInv /\ (Undisturbed => RowsAreTasks) => ProgressOnOwnRow
    <2> SUFFICES ASSUME Typed, Inv, ActivityInv, EventsInv, Undisturbed => RowsAreTasks,
                        events # <<>>, Head(events).type = "progress", ~disturbed
                 PROVE  /\ current_row_idx < Len(rows)
                        /\ rows[current_row_idx + 1].file = Head(events).file
        BY DEF ProgressOnOwnRow
    <2>1. events \in Seq(Event) /\ 1 \in 1 .. Len(events) /\ Head(events) = events[1]
        <3>1. events \in Seq(Event)
            BY DEF Typed, QueueTyped
        <3>2. QED BY <3>1
    <2>2. Undisturbed /\ pc # "none"
        BY DEF ActivityInv, Undisturbed
    <2>3. pc \in {"converting", "waiting"}
        BY <2>1, <2>2 DEF Inv, HandshakeInv, Quiet, Batching
    <2>4. events[1].file = tasks[idx + 1]
        BY <2>1, <2>3 DEF EventsInv, OwnEvents
    <2>5. current_row_idx = idx /\ idx \in Nat /\ idx < Len(tasks) /\ Len(tasks) \in Nat
        BY <2>3 DEF Typed, WorkerInv, WorkTyped
    <2>6. Len(rows) = Len(tasks) /\ \A k \in 1 .. Len(rows) : rows[k].file = tasks[k]
        BY <2>2 DEF RowsAreTasks
    <2>7. idx + 1 \in 1 .. Len(rows)
        BY <2>5, <2>6
    <2>8. QED BY <2>1, <2>4, <2>5, <2>6, <2>7
<1>2. QED BY <1>1, TypedAlways, InvAlways, ActivityAlways, EventsAlways, RowsAlways, PTL

\* When a batch is over and shown, each row tells how its own file fared and the
\* summary, made of the worker's counts, agrees with the rows, whatever the user
\* cancels and in whatever order the two threads run.
THEOREM StatusIsOutcome ==
    ASSUME Distinct(StartFiles)
    PROVE  Spec => []StatusTellsOutcome
<1>1. Typed /\ (Undisturbed => RowsAreTasks) /\ (Undisturbed => BatchInv) => StatusTellsOutcome
    <2> SUFFICES ASSUME Typed, Undisturbed => RowsAreTasks /\ BatchInv, is_converting, pc = "finished", events = <<>>,
                        outbox = <<>>, ~disturbed
                 PROVE  /\ summary.text = "cancelled" <=> \E i \in DOMAIN rows : rows[i].status = "cancelled"
                        /\ summary.text = "all_failed" <=> \A i \in DOMAIN rows : rows[i].status = "failed"
                        /\ summary.color = "succeeded" <=> \A i \in DOMAIN rows : rows[i].status = "succeeded"
                        /\ \A i \in DOMAIN rows :
                            rows[i].status = CASE outcome[rows[i].file] = "ok"    -> "succeeded"
                                               [] outcome[rows[i].file] = "error" -> "failed"
                                               [] outcome[rows[i].file] = "none"  -> "cancelled"
        BY DEF StatusTellsOutcome
    <2>1. RowsAreTasks /\ CountsInv /\ ToldInv /\ SummaryInv
        BY DEF Undisturbed, BatchInv
    <2>2. /\ Len(rows) \in Nat /\ DOMAIN rows = 1 .. Len(rows) /\ Len(rows) = Len(tasks)
          /\ idx \in Nat /\ idx <= Len(rows) /\ counts.completed = idx
        BY <2>1, SelectedTyped DEF Typed, WorkTyped, WorkerInv, RowsAreTasks
    <2>3. \A k \in 1 .. Len(rows) : k \in 1 .. idx \/ k \in idx + 1 .. Len(rows)
        BY <2>2
    <2>4. \A k \in 1 .. idx : k \in 1 .. Len(rows) /\ Told(k)
        BY <2>1, <2>2 DEF ToldInv
    <2>5. \A k \in idx + 1 .. Len(rows) : /\ k \in 1 .. Len(rows) /\ rows[k].status = "cancelled"
                                          /\ outcome[tasks[k]] = "none"
        <3>1. \A k \in idx + 1 .. Len(rows) : rows[k].status = "cancelled"
            BY <2>1 DEF SummaryInv
        <3>2. \A k \in idx + 1 .. Len(rows) : outcome[tasks[k]] = "none"
            BY <2>1, <2>2 DEF CountsInv
        <3>3. \A k \in idx + 1 .. Len(rows) : k \in 1 .. Len(rows)
            BY <2>2
        <3>4. QED BY <3>1, <3>2, <3>3
    <2>6. \A k \in 1 .. Len(rows) : rows[k].file = tasks[k]
        BY <2>1 DEF RowsAreTasks
    <2>7. idx # Len(tasks) <=> \E k \in 1 .. Len(rows) : k \in idx + 1 .. Len(rows)
        <3> DEFINE N == Len(rows)
        <3>1. N \in Nat /\ idx \in Nat /\ idx <= N /\ Len(tasks) = N
            BY <2>2
        <3> HIDE DEF N
        <3>2. idx # N => idx + 1 \in 1 .. N /\ idx + 1 \in idx + 1 .. N
            BY <3>1
        <3>3. \A k \in idx + 1 .. N : idx # N
            BY <3>1
        <3>4. idx # N <=> \E k \in 1 .. N : k \in idx + 1 .. N
            BY <3>2, <3>3
        <3>5. QED BY <3>1, <3>4 DEF N
    <2>8. \A k \in 1 .. idx : /\ rows[k].status = "succeeded" <=> outcome[tasks[k]] = "ok"
                              /\ rows[k].status = "failed" <=> outcome[tasks[k]] = "error"
                              /\ rows[k].status # "cancelled"
        BY <2>4 DEF Told
    <2>9. summary.text = "cancelled" <=> \E k \in 1 .. Len(rows) : rows[k].status = "cancelled"
        BY <2>1, <2>3, <2>5, <2>7, <2>8 DEF SummaryInv
    <2>10. summary.text = "all_failed" <=> \A k \in 1 .. Len(rows) : rows[k].status = "failed"
        <3>1. summary.text = "all_failed" <=> idx = Len(tasks) /\ counts.failed = idx
            BY <2>1 DEF SummaryInv
        <3>2. counts.failed = idx <=> \A k \in 1 .. idx : outcome[tasks[k]] = "error"
            BY <2>1, <2>2 DEF CountsInv
        <3>3. counts.failed = idx <=> \A k \in 1 .. idx : rows[k].status = "failed"
            BY <2>8, <3>2
        <3>4. CASE idx = Len(tasks)
            BY <2>2, <3>1, <3>3, <3>4
        <3>5. CASE idx # Len(tasks)
            BY <2>5, <2>7, <3>1, <3>5
        <3>6. QED BY <3>4, <3>5
    <2>11. summary.color = "succeeded" <=> \A k \in 1 .. Len(rows) : rows[k].status = "succeeded"
        <3>1. summary.color = "succeeded" <=> idx = Len(tasks) /\ counts.failed = 0
            BY <2>1 DEF SummaryInv
        <3>2. counts.failed = 0 <=> \A k \in 1 .. idx : outcome[tasks[k]] = "ok"
            BY <2>1, <2>2 DEF CountsInv
        <3>3. counts.failed = 0 <=> \A k \in 1 .. idx : rows[k].status = "succeeded"
            BY <2>8, <3>2
        <3>4. CASE idx = Len(tasks)
            BY <2>2, <3>1, <3>3, <3>4
        <3>5. CASE idx # Len(tasks)
            BY <2>5, <2>7, <3>1, <3>5
        <3>6. QED BY <3>4, <3>5
    <2>12. ASSUME NEW k \in 1 .. Len(rows)
           PROVE  rows[k].status = CASE outcome[rows[k].file] = "ok"    -> "succeeded"
                                     [] outcome[rows[k].file] = "error" -> "failed"
                                     [] outcome[rows[k].file] = "none"  -> "cancelled"
        <3>1. \/ rows[k].status = "succeeded" /\ outcome[rows[k].file] = "ok"
              \/ rows[k].status = "failed" /\ outcome[rows[k].file] = "error"
              \/ rows[k].status = "cancelled" /\ outcome[rows[k].file] = "none"
            BY <2>3, <2>4, <2>5, <2>6 DEF Told
        <3>2. QED BY <3>1
    <2>13. QED BY <2>2, <2>9, <2>10, <2>11, <2>12
<1>2. QED BY <1>1, TypedAlways, RowsAlways, BatchAlways, PTL

=============================================================================
