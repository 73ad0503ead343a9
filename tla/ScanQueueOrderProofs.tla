------------------------ MODULE ScanQueueOrderProofs ------------------------
(***************************************************************************)
(* Where nothing is cleared or restarted, the worker works off the queue   *)
(* in order, ScanQueue implements SequentialExecution, every scan ends as  *)
(* it is recorded, and an interruption costs at most one item: theorems    *)
(* for every number of items, requests and alarms.                         *)
(***************************************************************************)
EXTENDS ScanQueueProofs, FiniteSetTheorems

OnlyInterruptions == Requests \cap {"clear", "restart"} = {}

-----------------------------------------------------------------------------
(* The inductive invariant, on top of TInv and PInv. The consumers          *)
(* interrupt and do nothing else; ...                                       *)

ConsumersInterrupt == \A m \in Modifiers : /\ act[m] \notin {"clear", "restart"}
                                           /\ mpc[m] \notin {"forget", "history", "again"}

\* ... the item in the worker's hands is the one at the head; ...
HeadInv == /\ WorkerOnHead
           /\ wpc = "record" => queue # <<>> /\ active = Head(queue)
           /\ WorkerLives

\* ... of the items in the queue only the one at the head can have been started,
\* and only until __next__ has popped it.
Distinct == \A j, k \in 1..Len(queue) : queue[j] = queue[k] => j = k
MayBeStarted == wpc \in Processing \/ (wpc \in {"head", "pop"} /\ active # NoItem)
OldHead == \A k \in 1..Len(queue) : Started(queue[k]) => k = 1 /\ MayBeStarted
StartedCreated == \A i \in Items : Started(i) => Created(i)
OrderInv == Distinct /\ OldHead /\ StartedCreated /\ RunsOnce

OInv == ConsumersInterrupt /\ HeadInv /\ OrderInv

USE DEF Goto, GotoM, Return, CanPublish, Created, ItemOrNone, QueueStatus,
        ItemStatus, ScanStatus, Modifiers, ModifierSteps, Choosing, Processing,
        queueVars, itemVars, workerVars, inserterVars, modifierVars, alarmVars, outputVars

LEMMA InitOInv == Init => OInv
  BY DEF Init, OInv, ConsumersInterrupt, HeadInv, WorkerOnHead, WorkerLives, OrderInv,
     Distinct, OldHead, StartedCreated, Started, RunsOnce

-----------------------------------------------------------------------------
(* What the other threads leave alone                                       *)

order == <<active, history, wpc, wval, cur, blocks, records>>
SameCreated == \A i \in Items : Created(i)' <=> Created(i)
NewlyCreated(i) == ~Created(i) /\ \A j \in Items : Created(j)' <=> Created(j) \/ j = i

\* An interruption reaches nothing that the invariant is about.
LEMMA ReceiveLeavesOrder ==
  ASSUME TInv, OInv, OnlyInterruptions, ReceiveModification
  PROVE  UNCHANGED <<queue, order>> /\ SameCreated /\ ConsumersInterrupt'
<1> USE DEF TInv, TypeOK, ModifierType, OInv, ConsumersInterrupt, order, SameCreated
<1>1. ASSUME NEW a \in Requests, NEW i \in ItemOrNone, ReceiveRequest(a, i), ModifierFrame
      PROVE  UNCHANGED <<queue, order>> /\ SameCreated /\ ConsumersInterrupt'
  BY <1>1 DEF ReceiveRequest, ModifierFrame, OnlyInterruptions
<1>2. ASSUME ReceiveAlarm, ModifierFrame
      PROVE  UNCHANGED <<queue, order>> /\ SameCreated /\ ConsumersInterrupt'
  BY <1>2 DEF ReceiveAlarm, ModifierFrame
<1> QED
  BY <1>1, <1>2 DEF ReceiveModification

LEMMA ModifierLeavesOrder ==
  ASSUME TInv, OInv, NEW m \in Modifiers, Modifier(m)
  PROVE  UNCHANGED <<queue, order>> /\ SameCreated /\ ConsumersInterrupt'
<1> USE DEF TInv, TypeOK, ModifierType, ItemType, OInv, ConsumersInterrupt, order, SameCreated
<1>f. ModifierFrame
  BY DEF Modifier
<1> USE <1>f DEF ModifierFrame
<1>1. CASE TestQueue(m)
  BY <1>1 DEF TestQueue
<1>2. CASE SetQueueStatus(m)
  BY <1>2 DEF SetQueueStatus
<1>3. CASE TestLength(m)
  BY <1>3 DEF TestLength
<1>4. CASE ReadHead(m)
  BY <1>4 DEF ReadHead
<1>5. CASE SetItemStatus(m)
  <2>1. WorkerValue(act[m]) # "NONE"
    BY DEF WorkerValue
  <2> QED
    BY <1>5, <2>1, ItemsAssumption DEF SetItemStatus, HeldCreated
<1>6. CASE SetWorkerStatus(m)
  BY <1>6 DEF SetWorkerStatus
<1>7. CASE Then(m)
  BY <1>7 DEF Then
<1>8. CASE ForgetActive(m)
  BY <1>8 DEF ForgetActive
<1>9. CASE Restart(m)
  BY <1>9 DEF Restart, FoundInHistory, RestartTimesOut, Reinsert
<1> QED
  BY <1>1, <1>2, <1>3, <1>4, <1>5, <1>6, <1>7, <1>8, <1>9 DEF Modifier, SetStatus

\* The insert consumer at most appends an item that did not exist.
LEMMA InserterAppends ==
  ASSUME TInv, Inserter
  PROVE  /\ UNCHANGED <<order, mpc, act>>
         /\ \/ UNCHANGED queue /\ SameCreated
            \/ \E i \in Items : NewlyCreated(i) /\ queue' = Append(queue, i)
<1> USE DEF TInv, TypeOK, ItemType, order, SameCreated, InserterFrame
<1>1. ASSUME NEW i \in Items, InsertItem(i), InserterFrame
      PROVE  /\ UNCHANGED <<order, mpc, act>>
             /\ NewlyCreated(i) /\ queue' = Append(queue, i)
  BY <1>1 DEF InsertItem, CreateItem, Fresh, NewlyCreated
<1>2. ASSUME NEW i \in Items, FindMacro(i), InserterFrame
      PROVE  UNCHANGED <<queue, order, mpc, act>> /\ SameCreated
  BY <1>2 DEF FindMacro
<1>3. ASSUME ReceiveScan \/ RejectScan \/ AppendClose, InserterFrame
      PROVE  UNCHANGED <<queue, order, mpc, act>> /\ SameCreated
  BY <1>3 DEF ReceiveScan, RejectScan, AppendClose
<1> QED
  BY <1>1, <1>2, <1>3 DEF Inserter

-----------------------------------------------------------------------------
(* Each part of the invariant, preserved                                    *)

\* What does not touch the queue or what is in OrderInv preserves it.
LEMMA OrderFrame ==
  ASSUME OInv, UNCHANGED <<queue, order>>, SameCreated
  PROVE  HeadInv' /\ OrderInv'
<1> USE DEF OInv, order
<1>1. HeadInv'
  BY DEF HeadInv, WorkerOnHead, WorkerLives
<1>2. OrderInv'
  BY DEF OrderInv, Distinct, OldHead, MayBeStarted, StartedCreated, Started, RunsOnce, SameCreated
<1> QED
  BY <1>1, <1>2

\* An appended item is new, so it is nowhere else and was not started.
LEMMA OrderAppend ==
  ASSUME TInv, OInv, UNCHANGED order,
         NEW i \in Items, NewlyCreated(i), queue' = Append(queue, i)
  PROVE  HeadInv' /\ OrderInv'
<1> USE DEF OInv, order
<1>q. queue \in Seq(Items)
  BY DEF TInv, TypeOK, QueueType
<1>1. /\ Len(queue') = Len(queue) + 1 /\ queue' # <<>>
      /\ \A k \in 1..Len(queue) : queue'[k] = queue[k] /\ queue[k] \in Items
      /\ queue'[Len(queue) + 1] = i
      /\ queue # <<>> => Head(queue') = Head(queue)
      /\ Len(queue) \in Nat
  BY <1>q
<1>2. \A k \in 1..Len(queue) : queue[k] # i
  BY <1>q, <1>1 DEF TInv, HeldCreated, InQueue, NewlyCreated
<1>3. HeadInv'
  BY <1>1 DEF HeadInv, WorkerOnHead, WorkerLives
<1>4. Distinct'
  BY <1>1, <1>2 DEF OrderInv, Distinct
<1>5. OldHead'
  <2>1. ~Started(i)
    BY DEF OrderInv, StartedCreated, NewlyCreated
  <2> QED
    BY <1>1, <2>1 DEF OrderInv, OldHead, MayBeStarted, Started
<1>6. StartedCreated' /\ RunsOnce'
  BY DEF OrderInv, StartedCreated, Started, RunsOnce, NewlyCreated
<1> QED
  BY <1>3, <1>4, <1>5, <1>6 DEF OrderInv

\* As long as the worker processes its item, it stays where it is.
LEMMA OrderProcessing ==
  ASSUME TInv, OInv, wpc \in Processing, wpc' \in Processing,
         UNCHANGED <<queue, active, history, cur>>, SameCreated
  PROVE  HeadInv' /\ OrderInv'
<1> USE DEF OInv
<1>1. HeadInv'
  BY DEF HeadInv, WorkerOnHead, WorkerLives
<1>2. OrderInv'
  BY DEF OrderInv, Distinct, OldHead, MayBeStarted, StartedCreated, Started, RunsOnce, SameCreated
<1> QED
  BY <1>1, <1>2

-----------------------------------------------------------------------------
(* The worker                                                               *)

LEMMA ChoosingOrder ==
  ASSUME TInv, OInv, ChooseItem, UNCHANGED <<itemVars, outputVars>>
  PROVE  HeadInv' /\ OrderInv'
<1> USE DEF OInv
<1>q. /\ queue \in Seq(Items) /\ history \in Seq(ItemOrNone) /\ active \in ItemOrNone
      /\ records \in Seq([item : ItemOrNone, status : ItemStatus])
      /\ Len(queue) \in Nat /\ Len(history) \in Nat /\ Len(records) \in Nat
      /\ \A k \in 1..Len(queue) : queue[k] \in Items
  BY DEF TInv, TypeOK, QueueType, OutputType
<1>s. ASSUME UNCHANGED history PROVE StartedCreated' /\ RunsOnce'
  BY <1>s DEF OrderInv, StartedCreated, Started, RunsOnce
\* Steps that only move on, or forget the active item of an empty queue.
<1>1. ASSUME LoopHead \/ PopPublished \/ Look \/ WhilePaused \/ Resume \/ ResumePublished
      PROVE  HeadInv' /\ OrderInv'
  <2>1. /\ UNCHANGED <<queue, history>>
        /\ wpc \notin Processing /\ wpc' \notin Processing \cup {"dead", "record"}
        /\ queue # <<>> /\ MayBeStarted => MayBeStarted'
    BY <1>1, <1>q DEF LoopHead, PopPublished, Look, WhilePaused, Resume, ResumePublished,
       MayBeStarted
  <2>2. Len(queue) # 0 => queue # <<>>
    BY <1>q
  <2>3. HeadInv' /\ Distinct' /\ OldHead'
    BY <2>1, <2>2, <1>q DEF HeadInv, WorkerOnHead, WorkerLives, OrderInv, Distinct, OldHead, Started
  <2> QED
    BY <2>1, <2>3, <1>s DEF OrderInv, WorkerLives
<1>2. CASE Pop
  <2>1. /\ UNCHANGED <<history, active>>
        /\ wpc \notin Processing /\ wpc' \notin Processing \cup {"dead", "record"}
    BY <1>2 DEF Pop
  <2>2. Distinct' /\ OldHead'
    <3>1. CASE queue = <<>>
      BY <3>1, <1>2, <1>q DEF Pop, OrderInv, Distinct, OldHead
    <3>2. CASE queue # <<>>
      <4>t. queue' = Tail(queue)
        BY <3>2, <1>2 DEF Pop
      <4>1. /\ Len(queue') = Len(queue) - 1
            /\ \A k \in 1..Len(queue') : queue'[k] = queue[k + 1] /\ k + 1 \in 1..Len(queue)
        BY <3>2, <4>t, <1>q, TailElements
      <4>2. \A k \in 1..Len(queue') : ~Started(queue'[k])
        BY <4>1, <1>q DEF OrderInv, OldHead
      <4>3. Distinct'
        BY <4>1, <1>q DEF OrderInv, Distinct
      <4>4. OldHead'
        BY <4>2, <2>1 DEF OldHead, Started
      <4> QED
        BY <4>3, <4>4
    <3> QED
      BY <3>1, <3>2
  <2>3. HeadInv'
    BY <2>1 DEF HeadInv, WorkerOnHead, WorkerLives
  <2> QED
    BY <2>1, <2>2, <2>3, <1>s DEF OrderInv, WorkerLives
<1>3. CASE Take
  <2>1. /\ UNCHANGED <<queue, history>>
        /\ wpc \notin Processing /\ wpc' \notin Processing \cup {"dead"}
        /\ ~MayBeStarted
    BY <1>3 DEF Take, MayBeStarted
  <2>2. HeadInv' /\ Distinct' /\ OldHead'
    BY <1>3, <2>1, <1>q DEF Take, HeadInv, WorkerOnHead, WorkerLives, OrderInv, Distinct,
       OldHead, Started
  <2> QED
    BY <2>1, <2>2, <1>s DEF OrderInv, WorkerLives
<1>4. CASE RecordStart
  <2>1. /\ queue # <<>> /\ active = Head(queue) /\ active \in Items /\ active = queue[1]
        /\ 1 \in 1..Len(queue)
    BY <1>4, <1>q DEF RecordStart, HeadInv
  <2>2. /\ wpc' = "fetch" /\ cur' = active /\ UNCHANGED <<queue, active, records>>
        /\ history' = Append(history, active) /\ wpc = "record"
    BY <1>4, <2>1, ItemsAssumption DEF RecordStart
  <2>3. /\ Len(history') = Len(history) + 1 /\ history' # <<>>
        /\ \A k \in 1..Len(history) : history'[k] = history[k]
        /\ history'[Len(history) + 1] = active
    BY <2>2, <1>q
  <2>4. ~Started(active) /\ ~MayBeStarted
    BY <2>1, <2>2 DEF OrderInv, OldHead, MayBeStarted
  <2>5. HeadInv'
    BY <2>1, <2>2 DEF HeadInv, WorkerOnHead, WorkerLives
  <2>6. \A i : Started(i)' => Started(i) \/ i = active
    BY <2>3, <1>q DEF Started
  <2>7. Distinct' /\ OldHead'
    <3>1. \A k \in 1..Len(queue) : queue[k] = active => k = 1
      BY <2>1 DEF OrderInv, Distinct
    <3>2. \A k \in 1..Len(queue) : ~Started(queue[k])
      BY <2>4 DEF OrderInv, OldHead
    <3> QED
      BY <2>2, <2>6, <3>1, <3>2 DEF OrderInv, Distinct, OldHead, MayBeStarted
  <2>8. StartedCreated' /\ RunsOnce'
    <3>1. Created(active)
      BY <2>1, ItemsAssumption DEF TInv, HeldCreated
    <3>2. UNCHANGED istatus
      BY <1>4 DEF RecordStart
    <3>3. StartedCreated'
      BY <2>6, <3>1, <3>2 DEF OrderInv, StartedCreated
    <3>4. \A k \in 1..Len(history) : history[k] # active
      BY <2>4 DEF Started
    <3> QED
      BY <2>3, <3>3, <3>4, <1>q DEF OrderInv, RunsOnce
  <2> QED
    BY <2>5, <2>7, <2>8 DEF OrderInv
<1> QED
  BY <1>1, <1>2, <1>3, <1>4 DEF ChooseItem

\* Of the steps that process an item, all but the last one go on with it.
LEMMA ProcessingSteps ==
  ASSUME TInv, PInv, OInv, Worker, ~ChooseItem, ~Report
  PROVE  /\ wpc \in Processing /\ wpc' \in Processing
         /\ UNCHANGED <<queue, active, history, cur, records>> /\ SameCreated
<1> USE DEF OInv, HeadInv, PInv, BlockInv, HasBlock, TInv, TypeOK, ItemType, HeldCreated, SameCreated
<1>1. CASE IterateItem
  BY <1>1 DEF IterateItem, Fetch, Exhaust, Spin, Finish, FetchFails, SetActive
<1>2. CASE WriteStatus
  BY <1>2 DEF WriteStatus, WriteItemStatus, WriteOwnStatus, ActivePublished, WorkerType
<1>3. CASE ExecuteInstruction
  BY <1>3 DEF ExecuteInstruction, BeginInstruction, EndInstruction, InstructionFails, AnnouncePause,
     Interrupted, Interruptible
<1>4. CASE AbortItem
  BY <1>4 DEF AbortItem, BeginCleanup, EndCleanup, Aborted
<1>5. ~StartFails
  BY ItemsAssumption DEF StartFails, QueueType
<1> QED
  BY <1>1, <1>2, <1>3, <1>4, <1>5 DEF Worker

\* Report: the worker lets go of its item, which stays at the head until it is popped.
LEMMA ReportOrder ==
  ASSUME TInv, OInv, Report
  PROVE  HeadInv' /\ OrderInv'
<1> USE DEF OInv
<1>1. /\ wpc = "publish" /\ wpc' = "head" /\ cur' = NoItem
      /\ records' = Append(records, [item |-> cur, status |-> istatus[cur]])
      /\ UNCHANGED <<queue, active, history, istatus, blocks>>
  BY DEF Report
<1>2. active # NoItem
  BY <1>1, ItemsAssumption DEF TInv, HeldCreated, HeadInv, WorkerOnHead
<1>3. HeadInv'
  BY <1>1 DEF HeadInv, WorkerOnHead, WorkerLives
<1>4. OrderInv'
  BY <1>1, <1>2 DEF OrderInv, Distinct, OldHead, MayBeStarted, StartedCreated, Started, RunsOnce
<1> QED
  BY <1>3, <1>4

LEMMA NextOInv == ASSUME TInv, PInv, OInv, OnlyInterruptions, [Next]_vars PROVE OInv'
<1>1. CASE UNCHANGED vars
  BY <1>1, OrderFrame DEF vars, order, OInv, SameCreated, ConsumersInterrupt
<1>2. CASE Worker
  <2>1. ConsumersInterrupt'
    BY <1>2 DEF Worker, OInv, ConsumersInterrupt
  <2>2. CASE ChooseItem
    <3>1. UNCHANGED <<itemVars, outputVars>>
      BY <1>2, <2>2, ChoosingLeaves
    <3> QED
      BY <2>1, <2>2, <3>1, ChoosingOrder DEF OInv
  <2>3. CASE Report
    BY <2>1, <2>3, ReportOrder DEF OInv
  <2>4. CASE ~ChooseItem /\ ~Report
    BY <1>2, <2>1, <2>4, ProcessingSteps, OrderProcessing DEF OInv
  <2> QED
    BY <2>2, <2>3, <2>4
<1>3. CASE Inserter
  <2>1. ConsumersInterrupt'
    BY <1>3, InserterAppends DEF OInv, ConsumersInterrupt
  <2>2. CASE UNCHANGED queue /\ SameCreated
    BY <1>3, <2>1, <2>2, InserterAppends, OrderFrame DEF OInv
  <2>3. ASSUME NEW i \in Items, NewlyCreated(i), queue' = Append(queue, i) PROVE OInv'
    BY <1>3, <2>1, <2>3, InserterAppends, OrderAppend DEF OInv
  <2> QED
    BY <1>3, <2>2, <2>3, InserterAppends
<1>4. CASE ReceiveModification
  BY <1>4, ReceiveLeavesOrder, OrderFrame DEF OInv
<1>5. ASSUME NEW m \in Modifiers, Modifier(m) PROVE OInv'
  BY <1>5, ModifierLeavesOrder, OrderFrame DEF OInv
<1> QED
  BY <1>1, <1>2, <1>3, <1>4, <1>5 DEF Next

LEMMA OrderInvariance ==
  ASSUME OnlyInterruptions
  PROVE  Spec => [](TInv /\ PInv /\ OInv)
<1>1. Init => TInv /\ PInv /\ OInv
  BY InitTInv, InitPInv, InitOInv
<1>2. TInv /\ PInv /\ OInv /\ [Next]_vars => (TInv /\ PInv /\ OInv)'
  BY NextTInv, NextPInv, NextOInv
<1> QED
  BY <1>1, <1>2, PTL DEF Spec

\* Whatever pauses, continues, aborts, halts and alarms come between the accesses of
\* the worker: the item it processes stays at the head of the queue, where
\* worker_status and the alarms reach it; no item is started twice; each leaves one record in
\* the order of the starts; and the worker's thread survives.
THEOREM WorksOffInOrder ==
  ASSUME OnlyInterruptions
  PROVE  Spec => [](WorkerOnHead /\ RunsOnce /\ RecordsFollowStarts /\ WorkerLives)
<1>1. PInv /\ OInv => WorkerOnHead /\ RunsOnce /\ RecordsFollowStarts /\ WorkerLives
  BY DEF PInv, OInv, HeadInv, OrderInv, RecordInv
<1> QED
  BY <1>1, OrderInvariance, PTL

-----------------------------------------------------------------------------
(* The refinement: the abstract state, ...                                  *)

Submitted == {i \in Items : Created(i)}
Waiting == IF HeadStarted THEN Tail(queue) ELSE queue
Running == IF wpc \in Processing THEN cur ELSE NoItem
Ended == [k \in 1..Len(records) |-> records[k].item]
abstract == <<Submitted, Waiting, Running, Ended>>

\* ... and the steps of SequentialExecution on it.
AbstractStep ==
  \/ \E i \in Items : /\ i \notin Submitted /\ Submitted' = Submitted \cup {i}
                      /\ Waiting' = Append(Waiting, i) /\ UNCHANGED <<Running, Ended>>
  \/ /\ Running = NoItem /\ Waiting # <<>> /\ Running' = Head(Waiting)
     /\ Waiting' = Tail(Waiting) /\ UNCHANGED <<Submitted, Ended>>
  \/ /\ Running # NoItem /\ Ended' = Append(Ended, Running) /\ Running' = NoItem
     /\ UNCHANGED <<Submitted, Waiting>>
  \/ /\ Running = NoItem /\ Waiting # <<>> /\ Waiting' = Tail(Waiting)
     /\ UNCHANGED <<Submitted, Running, Ended>>
  \/ UNCHANGED abstract

LEMMA AbstractStepIs == AbstractStep => [Abstract!Next]_(Abstract!vars)
  BY DEF AbstractStep, abstract, Submitted, Waiting, Running, Ended, Abstract!Next, Abstract!Submit,
     Abstract!Start, Abstract!End, Abstract!Drop, Abstract!vars

LEMMA AbstractInit == Init => Abstract!Init
  BY DEF Init, Abstract!Init, HeadStarted

-----------------------------------------------------------------------------
\* What the abstract state is made of.
LEMMA AbstractFrame ==
  ASSUME UNCHANGED <<queue, history, records>>, SameCreated, Running' = Running
  PROVE  UNCHANGED abstract
  BY DEF abstract, Submitted, Waiting, Ended, HeadStarted, Started, SameCreated

\* insert: Submit.
LEMMA AppendSubmits ==
  ASSUME TInv, OInv, UNCHANGED order,
         NEW i \in Items, NewlyCreated(i), queue' = Append(queue, i)
  PROVE  AbstractStep
<1>1. Submitted' = Submitted \cup {i} /\ i \notin Submitted
  BY DEF Submitted, NewlyCreated
<1>2. UNCHANGED <<Running, Ended>>
  BY DEF Running, Ended, order
<1>q. queue \in Seq(Items) /\ i \in Items
  BY DEF TInv, TypeOK, QueueType
<1>3. Waiting' = Append(Waiting, i)
  <2>1. UNCHANGED history
    BY DEF order
  <2>2. CASE queue = <<>>
    <3>1. queue' # <<>> /\ Head(queue') = i
      BY <2>2, <1>q
    <3>2. ~Started(i)
      BY DEF OInv, OrderInv, StartedCreated, NewlyCreated
    <3> QED
      BY <2>1, <2>2, <3>1, <3>2 DEF Waiting, HeadStarted, Started
  <2>3. CASE queue # <<>>
    <3>1. queue' # <<>> /\ Head(queue') = Head(queue) /\ Tail(queue') = Append(Tail(queue), i)
      BY <2>3, <1>q
    <3>2. HeadStarted' = HeadStarted
      BY <2>1, <2>3, <3>1 DEF HeadStarted, Started
    <3> QED
      BY <3>1, <3>2 DEF Waiting
  <2> QED
    BY <2>2, <2>3
<1> QED
  BY <1>1, <1>2, <1>3 DEF AbstractStep

\* popleft: the item that ended was no longer waiting; any other one is dropped.
LEMMA PopSteps ==
  ASSUME TInv, OInv, Pop, UNCHANGED <<itemVars, outputVars>>
  PROVE  AbstractStep
<1>1. /\ UNCHANGED <<history, records, istatus>>
      /\ wpc \notin Processing /\ wpc' \notin Processing
  BY DEF Pop
<1>2. UNCHANGED <<Submitted, Running, Ended>> /\ Running = NoItem
  BY <1>1 DEF Submitted, Running, Ended
<1>3. CASE queue = <<>>
  BY <1>1, <1>2, <1>3 DEF Pop, AbstractStep, abstract, Waiting, HeadStarted
<1>4. CASE queue # <<>>
  <2>t. queue' = Tail(queue)
    BY <1>4 DEF Pop
  <2>q. queue \in Seq(Items) /\ Len(queue) \in Nat
    BY DEF TInv, TypeOK, QueueType
  <2>1. ~HeadStarted'
    <3>1. ASSUME queue' # <<>> PROVE ~Started(Head(queue'))
      <4>1. Head(queue') = queue[2] /\ 2 \in 1..Len(queue)
        BY <1>4, <2>t, <2>q, <3>1, TailElements
      <4> QED
        BY <4>1 DEF OInv, OrderInv, OldHead
    <3> QED
      BY <3>1, <1>1 DEF HeadStarted, Started
  <2>2. CASE HeadStarted
    BY <1>2, <2>t, <2>1, <2>2 DEF AbstractStep, abstract, Waiting
  <2>3. CASE ~HeadStarted
    BY <1>2, <1>4, <2>t, <2>1, <2>3 DEF AbstractStep, Waiting
  <2> QED
    BY <2>2, <2>3
<1> QED
  BY <1>3, <1>4

\* history_queue.append: Start.
LEMMA RecordStarts ==
  ASSUME TInv, OInv, RecordStart, UNCHANGED <<itemVars, outputVars>>
  PROVE  AbstractStep
<1>q. queue \in Seq(Items) /\ history \in Seq(ItemOrNone) /\ Len(history) \in Nat
  BY DEF TInv, TypeOK, QueueType
<1>1. queue # <<>> /\ active = Head(queue) /\ active \in Items /\ active = queue[1] /\ 1 \in 1..Len(queue)
  BY <1>q DEF RecordStart, OInv, HeadInv
<1>2. /\ wpc = "record" /\ wpc' = "fetch" /\ cur' = active /\ history' = Append(history, active)
      /\ UNCHANGED <<queue, records, istatus>>
  BY <1>1, ItemsAssumption DEF RecordStart
<1>3. ~HeadStarted
  BY <1>1, <1>2 DEF OInv, OrderInv, OldHead, MayBeStarted, HeadStarted
<1>4. HeadStarted'
  <2>1. history'[Len(history')] = active /\ Len(history') \in 1..Len(history')
    BY <1>2, <1>q
  <2> QED
    BY <1>1, <1>2, <2>1 DEF HeadStarted, Started
<1>5. UNCHANGED <<Submitted, Ended>> /\ Running = NoItem /\ Running' = active
  BY <1>2 DEF Submitted, Running, Ended
<1> QED
  BY <1>1, <1>2, <1>3, <1>4, <1>5 DEF AbstractStep, Waiting

\* append_to_queue_history: End.
LEMMA ReportEnds ==
  ASSUME TInv, OInv, Report
  PROVE  AbstractStep
<1>1. /\ wpc = "publish" /\ wpc' = "head"
      /\ records' = Append(records, [item |-> cur, status |-> istatus[cur]])
      /\ UNCHANGED <<queue, history, istatus>>
  BY DEF Report
<1>2. Running = cur /\ Running' = NoItem /\ Running # NoItem
  BY <1>1, ItemsAssumption DEF Running, TInv, HeldCreated
<1>3. UNCHANGED <<Submitted, Waiting>>
  BY <1>1 DEF Submitted, Waiting, HeadStarted, Started
<1>4. Ended' = Append(Ended, cur)
  <2>1. records \in Seq([item : ItemOrNone, status : ItemStatus]) /\ Len(records) \in Nat
    BY DEF TInv, TypeOK, OutputType
  <2>2. /\ Len(records') = Len(records) + 1
        /\ \A k \in 1..Len(records) : records'[k] = records[k]
        /\ records'[Len(records) + 1].item = cur
    BY <1>1, <2>1
  <2>3. Ended \in Seq(ItemOrNone) /\ Len(Ended) = Len(records)
    <3> DEFINE Record == [item : ItemOrNone, status : ItemStatus]
    <3>r. \A r \in Record : r.item \in ItemOrNone
      OBVIOUS
    <3>s. records \in Seq(Record)
      BY <2>1
    <3> HIDE DEF Record
    <3>1. \A k \in 1..Len(records) : records[k].item \in ItemOrNone
      BY <3>r, <3>s
    <3>2. Ended \in [1..Len(records) -> ItemOrNone]
      BY <3>1 DEF Ended
    <3> QED
      BY <2>1, <3>2
  <2> QED
    BY <2>1, <2>2, <2>3 DEF Ended
<1> QED
  BY <1>2, <1>3, <1>4 DEF AbstractStep

LEMMA NextAbstract == ASSUME TInv, PInv, OInv, OnlyInterruptions, [Next]_vars PROVE AbstractStep
<1> USE DEF AbstractStep
<1>1. CASE UNCHANGED vars
  BY <1>1, AbstractFrame DEF vars, SameCreated, Running
<1>2. CASE Worker
  <2>1. CASE ChooseItem
    <3>1. UNCHANGED <<itemVars, outputVars>>
      BY <1>2, <2>1, ChoosingLeaves
    <3>2. CASE Pop
      BY <3>1, <3>2, PopSteps
    <3>3. CASE RecordStart
      BY <3>1, <3>3, RecordStarts
    <3>4. ASSUME LoopHead \/ PopPublished \/ Look \/ WhilePaused \/ Resume \/ ResumePublished \/ Take
          PROVE  AbstractStep
      <4>1. UNCHANGED <<queue, history>> /\ wpc \notin Processing /\ wpc' \notin Processing
        BY <3>4 DEF LoopHead, PopPublished, Look, WhilePaused, Resume, ResumePublished, Take
      <4> QED
        BY <3>1, <4>1, AbstractFrame DEF Running, SameCreated
    <3> QED
      BY <2>1, <3>2, <3>3, <3>4 DEF ChooseItem
  <2>2. CASE Report
    BY <2>2, ReportEnds
  <2>3. CASE ~ChooseItem /\ ~Report
    BY <1>2, <2>3, ProcessingSteps, AbstractFrame DEF Running
  <2> QED
    BY <2>1, <2>2, <2>3
<1>3. CASE Inserter
  BY <1>3, InserterAppends, AppendSubmits, AbstractFrame DEF order, Running
<1>4. CASE ReceiveModification
  BY <1>4, ReceiveLeavesOrder, AbstractFrame DEF order, Running
<1>5. ASSUME NEW m \in Modifiers, Modifier(m) PROVE AbstractStep
  BY <1>5, ModifierLeavesOrder, AbstractFrame DEF order, Running
<1> QED
  BY <1>1, <1>2, <1>3, <1>4, <1>5 DEF Next

-----------------------------------------------------------------------------
\* The queue with its four threads implements the sequential execution of its items:
\* they are started in the order of their insertion, one at a time, and each ends
\* before the next one starts.
THEOREM ImplementsSequential ==
  ASSUME OnlyInterruptions
  PROVE  Spec => Sequential
<1>1. Init => TInv /\ PInv /\ OInv /\ Abstract!Init
  BY InitTInv, InitPInv, InitOInv, AbstractInit
<1>2. TInv /\ PInv /\ OInv /\ [Next]_vars => (TInv /\ PInv /\ OInv)'
  BY NextTInv, NextPInv, NextOInv
<1>3. TInv /\ PInv /\ OInv /\ [Next]_vars => [Abstract!Next]_(Abstract!vars)
  BY NextAbstract, AbstractStepIs
<1> QED
  BY <1>1, <1>2, <1>3, PTL DEF Spec, Sequential, Abstract!Spec

-----------------------------------------------------------------------------
(* The outcome of a scan. The inductive invariant, on top of the three      *)
(* before: a scan definition is only complete once its close request was    *)
(* appended, and it is never appended twice; ...                            *)

MacroInv == /\ \A i \in Macros : Created(i) /\ i \notin macro => i \in closing
            /\ ipc = "append" => inserting \notin closing

\* ... an item that was not started has all its instructions and no status; ...
FreshInv == \A i \in Items : ~Started(i) =>
              /\ Created(i) => left[i] >= Size
              /\ istatus[i] # "COMPLETED" /\ published[i] = "none"

\* ... an item has handed out everything only after its scan was closed, and after the
\* last scan status nothing of it is executed any more; ...
Terminal == {"closed", "aborted", "halted"}
Over == wpc = "fetch" /\ left[cur] = 0 /\ cur \notin macro
Ending == wpc \in {"item", "worker", "publish"} /\ wval # "RUNNING"
EndInv == /\ Over => published[cur] = "closed"
          /\ wpc \in Processing /\ published[cur] \in Terminal => Over \/ Ending
          /\ Ending /\ wval = "COMPLETED" => published[cur] = "closed"

\* ... and an item becomes COMPLETED by the worker's last write and in no other way.
DoneInv == \A i \in Items : istatus[i] = "COMPLETED" =>
             /\ published[i] = "closed"
             /\ wpc \in Processing /\ cur = i => wpc \in {"worker", "publish"} /\ wval = "COMPLETED"

RecordedInv == \A k \in 1..Len(records) :
                 /\ records[k].item \in Items
                 /\ records[k].status = "COMPLETED" => published[records[k].item] = "closed"

OutcomeInv == MacroInv /\ FreshInv /\ EndInv /\ DoneInv /\ RecordedInv

LEMMA InitOutcome == Init => OutcomeInv
<1> SUFFICES ASSUME Init PROVE OutcomeInv
  OBVIOUS
<1>1. MacroInv /\ FreshInv /\ DoneInv
  BY ItemsAssumption DEF Init, MacroInv, FreshInv, DoneInv
<1>2. EndInv /\ RecordedInv
  BY DEF Init, EndInv, Over, Ending, RecordedInv
<1> QED
  BY <1>1, <1>2 DEF OutcomeInv

\* The item in the worker's hands was started last and is not recorded yet.
LEMMA Unrecorded ==
  ASSUME TInv, PInv, OInv, wpc \in Processing
  PROVE  /\ cur \in Items /\ Created(cur) /\ Started(cur)
         /\ \A k \in 1..Len(records) : records[k].item # cur
<1>1. /\ Len(history) \in Nat /\ Len(records) \in Nat /\ Len(history) = Len(records) + 1
      /\ history[Len(history)] = cur
      /\ \A k \in 1..Len(records) : records[k].item = history[k]
  BY DEF TInv, TypeOK, QueueType, OutputType, PInv, RecordInv, RecordsFollowStarts
<1>2. Started(cur)
  BY <1>1 DEF Started
<1>3. \A k \in 1..Len(records) : history[k] # cur
  BY <1>1 DEF OInv, OrderInv, RunsOnce
<1> QED
  BY <1>1, <1>2, <1>3 DEF TInv, HeldCreated

\* What the consumers do to the outcome of a scan: nothing but start the account of a
\* new item, append a close request to an open scan definition, or write another status.
outcome == <<wpc, wval, cur, history, records, published>>
SameOutcome ==
  /\ \A i \in Items : istatus'[i] = "COMPLETED" => istatus[i] = "COMPLETED"
  /\ \A i \in Items : Created(i)' => left'[i] >= Size \/ (Created(i) /\ left'[i] >= left[i])
  /\ wpc \in Processing => (left'[cur] = 0 /\ cur \notin macro' <=> left[cur] = 0 /\ cur \notin macro)

LEMMA OutcomeFrame ==
  ASSUME TInv, TInv', OutcomeInv, UNCHANGED outcome, SameOutcome
  PROVE  FreshInv' /\ EndInv' /\ DoneInv' /\ RecordedInv'
<1> USE DEF OutcomeInv, outcome, SameOutcome
<1>1. FreshInv'
  <2>1. \A i \in Items : left[i] \in Nat /\ left'[i] \in Nat /\ Size \in Nat
    BY SizeAssumption DEF TInv, TypeOK, ItemType
  <2>2. \A i \in Items : Started(i)' <=> Started(i)
    BY DEF Started
  <2>3. ASSUME NEW i \in Items, ~Started(i), Created(i)' PROVE left'[i] >= Size
    <3>1. CASE left'[i] >= Size
      BY <3>1
    <3>2. CASE Created(i) /\ left'[i] >= left[i]
      BY <2>1, <2>3, <3>2 DEF FreshInv
    <3> QED
      BY <2>3, <3>1, <3>2
  <2> QED
    BY <2>1, <2>2, <2>3 DEF FreshInv
<1>2. EndInv'
  BY DEF EndInv, Over, Ending, Terminal
<1>3. DoneInv'
  BY DEF DoneInv
<1>4. RecordedInv'
  BY DEF RecordedInv
<1> QED
  BY <1>1, <1>2, <1>3, <1>4

LEMMA InserterOutcome ==
  ASSUME TInv, OutcomeInv, Inserter
  PROVE  UNCHANGED outcome /\ SameOutcome /\ MacroInv'
<1> USE DEF TInv, TypeOK, ItemType, OutcomeInv, outcome, SameOutcome, InserterFrame
<1>1. ASSUME NEW i \in Items, InsertItem(i), InserterFrame
      PROVE  UNCHANGED outcome /\ SameOutcome /\ MacroInv'
  <2>1. wpc \in Processing => cur # i
    BY <1>1 DEF InsertItem, Fresh, HeldCreated
  <2>2. UNCHANGED outcome /\ SameOutcome
    BY <1>1, <2>1, SizeAssumption DEF InsertItem, CreateItem, Fresh, HeldCreated
  <2>3. MacroInv'
    BY <1>1, ItemsAssumption DEF InsertItem, CreateItem, MacroInv
  <2> QED
    BY <2>2, <2>3
<1>2. ASSUME NEW i \in Items, FindMacro(i), InserterFrame
      PROVE  UNCHANGED outcome /\ SameOutcome /\ MacroInv'
  BY <1>2 DEF FindMacro, MacroInv
<1>3. ASSUME ReceiveScan \/ RejectScan, InserterFrame
      PROVE  UNCHANGED outcome /\ SameOutcome /\ MacroInv'
  BY <1>3 DEF ReceiveScan, RejectScan, MacroInv
<1>4. ASSUME AppendClose, InserterFrame
      PROVE  UNCHANGED outcome /\ SameOutcome /\ MacroInv'
  <2>1. /\ inserting \in Macros /\ inserting \in Items /\ inserting \in macro
        /\ ipc = "append" /\ ipc' = "idle"
        /\ left' = [left EXCEPT ![inserting] = @ + 1]
        /\ closing' = closing \cup {inserting} /\ UNCHANGED <<istatus, macro, outcome>>
    BY <1>4, ItemsAssumption DEF AppendClose, HeldCreated, MacroInv
  <2>2. \A i \in Items : left[i] \in Nat /\ left'[i] \in Nat /\ left'[i] >= left[i]
                         /\ (i # inserting => left'[i] = left[i])
    BY <2>1
  <2>3. SameOutcome
    BY <2>1, <2>2 DEF HeldCreated
  <2> QED
    BY <2>1, <2>3 DEF MacroInv
<1> QED
  BY <1>1, <1>2, <1>3, <1>4 DEF Inserter

LEMMA ReceiveOutcome ==
  ASSUME TInv, OutcomeInv, ReceiveModification
  PROVE  UNCHANGED outcome /\ SameOutcome /\ MacroInv'
<1> USE DEF TInv, TypeOK, ItemType, OutcomeInv, outcome, SameOutcome, MacroInv
<1>1. ASSUME NEW a \in Requests, NEW i \in ItemOrNone, ReceiveRequest(a, i), ModifierFrame
      PROVE  UNCHANGED outcome /\ SameOutcome /\ MacroInv'
  BY <1>1 DEF ReceiveRequest, ModifierFrame
<1>2. ASSUME ReceiveAlarm, ModifierFrame
      PROVE  UNCHANGED outcome /\ SameOutcome /\ MacroInv'
  BY <1>2 DEF ReceiveAlarm, ModifierFrame
<1> QED
  BY <1>1, <1>2 DEF ReceiveModification

LEMMA ModifierOutcome ==
  ASSUME TInv, OInv, OutcomeInv, NEW m \in Modifiers, Modifier(m)
  PROVE  UNCHANGED outcome /\ SameOutcome /\ MacroInv'
<1> USE DEF TInv, TypeOK, ItemType, OutcomeInv, outcome, SameOutcome, MacroInv
<1>1. UNCHANGED <<outcome, left, macro, closing, inserterVars>>
  BY DEF Modifier, ModifierFrame, SetStatus, TestQueue, SetQueueStatus, TestLength, ReadHead, SetItemStatus,
     SetWorkerStatus, Then, ForgetActive, Restart, FoundInHistory, RestartTimesOut, Reinsert, OInv,
     ConsumersInterrupt
<1>2. SameCreated
  BY ModifierLeavesOrder
<1>3. \A i \in Items : istatus'[i] = "COMPLETED" => istatus[i] = "COMPLETED"
  <2>1. CASE SetItemStatus(m)
    <3>1. istatus' = [istatus EXCEPT ![target[m]] = WorkerValue(act[m])]
      BY <2>1 DEF SetItemStatus
    <3>2. WorkerValue(act[m]) # "COMPLETED"
      BY DEF WorkerValue
    <3> QED
      BY <3>1, <3>2
  <2>2. CASE ~SetItemStatus(m)
    BY <2>2 DEF Modifier, SetStatus, TestQueue, SetQueueStatus, TestLength, ReadHead,
       SetWorkerStatus, Then, ForgetActive, Restart, FoundInHistory, RestartTimesOut, Reinsert, OInv,
       ConsumersInterrupt
  <2> QED
    BY <2>1, <2>2
<1> QED
  BY <1>1, <1>2, <1>3, ItemsAssumption DEF SameCreated

-----------------------------------------------------------------------------
(* The worker and the outcome                                               *)

\* A step that publishes nothing and records nothing, or something of the worker's item,
\* leaves the outcome of all others alone.
OthersStay == \A i \in Items : i # cur => /\ left'[i] = left[i] /\ istatus'[i] = istatus[i]
                                          /\ published'[i] = published[i]
ItemStays == UNCHANGED <<cur, history, records>> /\ OthersStay

LEMMA ItemFrame ==
  ASSUME TInv, PInv, OInv, OutcomeInv, wpc \in Processing, ItemStays,
         istatus'[cur] = "COMPLETED" => published'[cur] = "closed" /\ wpc' \in {"worker", "publish"}
                                        /\ wval' = "COMPLETED"
  PROVE  FreshInv' /\ DoneInv' /\ RecordedInv'
<1> USE DEF OutcomeInv, ItemStays, OthersStay
<1>1. FreshInv'
  BY Unrecorded DEF FreshInv, Started
<1>2. DoneInv'
  <2>1. ASSUME NEW i \in Items, istatus'[i] = "COMPLETED" PROVE published'[i] = "closed"
    BY <2>1 DEF DoneInv
  <2> QED
    BY <2>1 DEF DoneInv
<1>3. RecordedInv'
  <2>1. ASSUME NEW k \in 1..Len(records)
        PROVE  published'[records[k].item] = published[records[k].item]
    <3>1. records[k].item \in Items /\ records[k].item # cur
      BY Unrecorded DEF RecordedInv
    <3> QED
      BY <3>1
  <2> QED
    BY <2>1 DEF RecordedInv
<1> QED
  BY <1>1, <1>2, <1>3

\* Where the worker is before it has handed out the last instruction of an item, its scan
\* is not over.
LEMMA NotOver ==
  ASSUME TInv, PInv, OInv, OutcomeInv, wpc \in Processing, ~Over, ~Ending
  PROVE  /\ published[cur] \notin Terminal
         /\ wpc \notin {"worker", "publish"} => istatus[cur] # "COMPLETED"
  BY Unrecorded DEF OutcomeInv, EndInv, DoneInv

LEMMA IterateOutcome ==
  ASSUME TInv, PInv, OInv, OutcomeInv, IterateItem, UNCHANGED <<inserterVars>>
  PROVE  OutcomeInv'
<1>t. /\ wpc \in Processing /\ cur \in Items /\ left \in [Items -> Nat]
      /\ UNCHANGED <<istatus, published, closing, history, records, cur, ipc, inserting>>
  BY DEF IterateItem, Fetch, Exhaust, Spin, Finish, FetchFails, SetActive, TInv, TypeOK, ItemType, HeldCreated
<1>i. wpc \in {"fetch", "activate"} /\ istatus[cur] # "COMPLETED"
  BY <1>t DEF IterateItem, Fetch, Exhaust, Spin, Finish, FetchFails, SetActive, OutcomeInv, DoneInv
<1>1. MacroInv'
  BY <1>t DEF IterateItem, Fetch, Exhaust, Spin, Finish, FetchFails, SetActive, OutcomeInv, MacroInv
<1>2. ItemStays
  BY <1>t DEF IterateItem, Fetch, Exhaust, Spin, Finish, FetchFails, SetActive, ItemStays, OthersStay
<1>3. FreshInv' /\ DoneInv' /\ RecordedInv'
  BY <1>t, <1>i, <1>2, ItemFrame
<1>4. EndInv'
  <2> USE DEF EndInv, Over, Ending, Terminal
  <2>1. CASE Fetch
    BY <1>t, <2>1 DEF Fetch, OutcomeInv
  <2>2. CASE Exhaust
    BY <1>t, <2>2 DEF Exhaust, OutcomeInv
  <2>3. CASE Spin
    BY <1>t, <2>3 DEF Spin, OutcomeInv
  <2>4. CASE Finish
    BY <1>t, <2>4 DEF Finish, OutcomeInv
  <2>5. CASE FetchFails
    BY <1>t, <2>5 DEF FetchFails, OutcomeInv
  <2>6. CASE SetActive
    BY <1>t, <2>6 DEF SetActive, OutcomeInv
  <2> QED
    BY <2>1, <2>2, <2>3, <2>4, <2>5, <2>6 DEF IterateItem
<1> QED
  BY <1>1, <1>3, <1>4 DEF OutcomeInv

LEMMA WriteOutcome ==
  ASSUME TInv, PInv, OInv, OutcomeInv, WriteStatus, ~Report, UNCHANGED <<inserterVars>>
  PROVE  OutcomeInv'
<1> USE DEF WriteStatus, WriteItemStatus, WriteOwnStatus, ActivePublished
<1>t. /\ wpc \in {"item", "worker", "publish"} /\ cur \in Items
      /\ UNCHANGED <<left, macro, published, closing, history, records, cur, wval, ipc, inserting>>
  BY DEF TInv, TypeOK, ItemType, HeldCreated
<1>w. wval \in {"RUNNING", "COMPLETED", "STOPPED"} /\ istatus \in [Items -> ItemStatus \cup {"NONE"}]
  BY DEF TInv, TypeOK, WorkerType, ItemType
<1>c. Created(cur)
  BY <1>t DEF TInv, HeldCreated
<1>1. MacroInv'
  <2>1. ASSUME NEW i \in Items, Created(i)' PROVE Created(i)
    BY <1>t, <1>w, <1>c, <2>1
  <2> QED
    BY <1>t, <2>1, ItemsAssumption DEF OutcomeInv, MacroInv
<1>2. ItemStays
  BY <1>t, <1>w DEF ItemStays, OthersStay
<1>d. istatus'[cur] = "COMPLETED" => wval = "COMPLETED" /\ wpc' \in {"worker", "publish"}
  BY <1>t, <1>w DEF OutcomeInv, DoneInv
<1>e. wval = "COMPLETED" => published[cur] = "closed"
  BY <1>t DEF OutcomeInv, EndInv, Ending
<1>3. FreshInv' /\ DoneInv' /\ RecordedInv'
  BY <1>t, <1>d, <1>e, <1>2, ItemFrame
<1>4. EndInv'
  BY <1>t, <1>w DEF OutcomeInv, EndInv, Over, Ending, Terminal
<1> QED
  BY <1>1, <1>3, <1>4 DEF OutcomeInv

\* One record more, of an item that is COMPLETED only if its scan was closed.
LEMMA ReportOutcome ==
  ASSUME TInv, PInv, OInv, OutcomeInv, Report, UNCHANGED <<inserterVars>>
  PROVE  OutcomeInv'
<1>t. /\ wpc = "publish" /\ wpc' = "head" /\ cur \in Items
      /\ records' = Append(records, [item |-> cur, status |-> istatus[cur]])
      /\ UNCHANGED <<itemVars, published, history, ipc, inserting>>
  BY DEF Report, TInv, HeldCreated
<1>1. MacroInv' /\ FreshInv' /\ DoneInv' /\ EndInv'
  BY <1>t DEF OutcomeInv, MacroInv, FreshInv, Started, DoneInv, EndInv, Over, Ending
<1>2. RecordedInv'
  <2>1. records \in Seq([item : ItemOrNone, status : ItemStatus]) /\ Len(records) \in Nat
    BY DEF TInv, TypeOK, OutputType
  <2>2. /\ Len(records') = Len(records) + 1
        /\ \A k \in 1..Len(records) : records'[k] = records[k]
        /\ records'[Len(records) + 1].item = cur
        /\ records'[Len(records) + 1].status = istatus[cur]
    BY <1>t, <2>1
  <2>3. istatus[cur] = "COMPLETED" => published[cur] = "closed"
    BY <1>t DEF OutcomeInv, DoneInv
  <2> QED
    BY <1>t, <2>1, <2>2, <2>3 DEF OutcomeInv, RecordedInv
<1> QED
  BY <1>1, <1>2 DEF OutcomeInv

\* The last instruction closes the scan and the first one opens it; the other steps
\* publish at most a pause.
LEMMA ExecuteOutcome ==
  ASSUME TInv, PInv, OInv, OutcomeInv, ExecuteInstruction, UNCHANGED <<inserterVars>>
  PROVE  OutcomeInv'
<1> USE DEF ExecuteInstruction, BeginInstruction, EndInstruction, InstructionFails, AnnouncePause, Interrupted,
        Interruptible
<1>t. /\ wpc \in {"check", "exec", "cleanup"} /\ cur \in Items
      /\ UNCHANGED <<itemVars, history, records, cur, wval, ipc, inserting>>
  BY DEF TInv, TypeOK, ItemType, HeldCreated
<1>s. scanid \in {NoItem, cur} /\ published \in [Items -> ScanStatus]
  BY <1>t DEF PInv, ScanidInv, TInv, TypeOK, OutputType
<1>i. istatus[cur] # "COMPLETED" /\ published[cur] \notin Terminal
  BY <1>t, NotOver DEF Over, Ending
<1>1. MacroInv'
  BY <1>t DEF OutcomeInv, MacroInv
<1>2. ItemStays
  BY <1>t, <1>s DEF ItemStays, OthersStay
<1>3. FreshInv' /\ DoneInv' /\ RecordedInv'
  BY <1>t, <1>i, <1>2, ItemFrame
<1>4. EndInv'
  <2> USE DEF EndInv, Over, Ending, Terminal
  <2>1. CASE EndInstruction
    <3>1. left[cur] \in Nat /\ (Opens => left[cur] # 0)
      BY <1>t, SizeAssumption DEF Opens, TInv, TypeOK, ItemType
    <3>2. published'[cur] = IF Opens THEN "open" ELSE IF Closes THEN "closed" ELSE published[cur]
      BY <1>t, <1>s, <2>1
    <3> QED
      BY <1>t, <1>i, <2>1, <3>1, <3>2 DEF Closes
  <2>2. CASE AnnouncePause
    BY <1>t, <1>s, <1>i, <2>2
  <2>3. CASE ~EndInstruction /\ ~AnnouncePause
    BY <1>t, <1>i, <2>3
  <2> QED
    BY <2>1, <2>2, <2>3
<1> QED
  BY <1>1, <1>3, <1>4 DEF OutcomeInv

LEMMA AbortOutcome ==
  ASSUME TInv, PInv, OInv, OutcomeInv, AbortItem, UNCHANGED <<inserterVars>>
  PROVE  OutcomeInv'
<1> USE DEF AbortItem, BeginCleanup, EndCleanup, Aborted
<1>t. /\ wpc \in {"abortion", "cleanup", "aborted"} /\ cur \in Items /\ (wpc = "aborted" => cur \in blocks)
      /\ UNCHANGED <<istatus, left, macro, closing, history, records, cur, ipc, inserting>>
  BY DEF TInv, TypeOK, ItemType, HeldCreated, PInv, BlockInv, HasBlock
<1>s. scanid \in {NoItem, cur} /\ published \in [Items -> ScanStatus]
  BY <1>t DEF PInv, ScanidInv, TInv, TypeOK, OutputType
<1>i. istatus[cur] # "COMPLETED" /\ published[cur] \notin Terminal
  BY <1>t, NotOver DEF Over, Ending
<1>1. MacroInv'
  BY <1>t DEF OutcomeInv, MacroInv
<1>2. ItemStays
  BY <1>t, <1>s DEF ItemStays, OthersStay
<1>3. FreshInv' /\ DoneInv' /\ RecordedInv'
  BY <1>t, <1>i, <1>2, ItemFrame
<1>4. EndInv'
  BY <1>t, <1>i DEF EndInv, Over, Ending, Terminal
<1> QED
  BY <1>1, <1>3, <1>4 DEF OutcomeInv

\* The item that is started has all its instructions before it.
LEMMA ChoosingOutcome ==
  ASSUME TInv, PInv, OInv, OutcomeInv, ChooseItem, UNCHANGED <<itemVars, outputVars, inserterVars>>
  PROVE  OutcomeInv'
<1> USE DEF OutcomeInv
<1>q. history \in Seq(ItemOrNone) /\ Len(history) \in Nat /\ queue \in Seq(Items) /\ active \in ItemOrNone
  BY DEF TInv, TypeOK, QueueType
<1>1. MacroInv' /\ DoneInv' /\ RecordedInv' /\ wpc \notin Processing
  <2>1. MacroInv' /\ RecordedInv' /\ wpc \in Choosing
    BY ChoosingSteps DEF MacroInv, RecordedInv
  <2>2. \A i \in Items : istatus[i] = "COMPLETED" => Started(i)
    BY DEF FreshInv
  <2>3. CASE wpc' \in Choosing
    BY <2>1, <2>3 DEF DoneInv
  <2>4. CASE wpc' = "fetch"
    <3>1. RecordStart
      BY <2>4 DEF ChooseItem, LoopHead, Pop, PopPublished, Look, WhilePaused, Resume, ResumePublished, Take
    <3>2. cur' \in Items /\ ~Started(cur')
      BY <3>1, <1>q DEF RecordStart, OInv, HeadInv, OrderInv, OldHead, MayBeStarted
    <3> QED
      BY <2>1, <2>2, <3>2 DEF DoneInv
  <2> QED
    BY <2>1, <2>3, <2>4, ChoosingSteps
<1>2. FreshInv'
  <2>1. ASSUME NEW i \in Items, Started(i) PROVE Started(i)'
    <3>1. history' = history \/ history' = Append(history, active)
      BY ChoosingSteps
    <3>2. PICK k \in 1..Len(history) : history[k] = i
      BY <2>1 DEF Started
    <3>3. k \in 1..Len(history') /\ history'[k] = i
      BY <1>q, <3>1, <3>2
    <3> QED
      BY <3>3 DEF Started
  <2> QED
    BY <2>1 DEF FreshInv
<1>3. EndInv'
  <2>1. CASE wpc' \in Choosing
    BY <2>1 DEF EndInv, Over, Ending
  <2>2. CASE wpc' = "fetch"
    <3>1. RecordStart
      BY <2>2 DEF ChooseItem, LoopHead, Pop, PopPublished, Look, WhilePaused, Resume, ResumePublished, Take
    <3>2. /\ active \in Items /\ ~Started(active) /\ Created(active) /\ cur' = active
      BY <3>1, <1>q, ItemsAssumption DEF RecordStart, OInv, HeadInv, OrderInv, OldHead, MayBeStarted, TInv, HeldCreated
    <3>3. left[active] # 0 /\ published[active] = "none"
      BY <3>2, SizeAssumption DEF FreshInv, TInv, TypeOK, ItemType
    <3> QED
      BY <2>2, <3>2, <3>3 DEF EndInv, Over, Ending, Terminal
  <2> QED
    BY <2>1, <2>2, ChoosingSteps
<1> QED
  BY <1>1, <1>2, <1>3

LEMMA NextOutcome ==
  ASSUME TInv, PInv, OInv, OutcomeInv, OnlyInterruptions, [Next]_vars
  PROVE  OutcomeInv'
<1>t. TInv'
  BY NextTInv
<1>1. CASE UNCHANGED vars
  <2>1. UNCHANGED outcome /\ SameOutcome /\ MacroInv'
    BY <1>1, <1>t DEF vars, outcome, SameOutcome, OutcomeInv, MacroInv, TInv, TypeOK, ItemType
  <2> QED
    BY <1>t, <2>1, OutcomeFrame DEF OutcomeInv
<1>2. CASE Worker
  <2>0. UNCHANGED inserterVars
    BY <1>2 DEF Worker
  <2>1. CASE ChooseItem
    BY <1>2, <2>0, <2>1, ChoosingLeaves, ChoosingOutcome
  <2>2. ~StartFails
    BY ItemsAssumption DEF StartFails, OInv, HeadInv, TInv, TypeOK, QueueType
  <2> QED
    BY <1>2, <2>0, <2>1, <2>2, IterateOutcome, WriteOutcome, ReportOutcome, ExecuteOutcome, AbortOutcome
       DEF Worker
<1>3. CASE Inserter
  BY <1>3, <1>t, InserterOutcome, OutcomeFrame DEF OutcomeInv
<1>4. CASE ReceiveModification
  BY <1>4, <1>t, ReceiveOutcome, OutcomeFrame DEF OutcomeInv
<1>5. ASSUME NEW m \in Modifiers, Modifier(m) PROVE OutcomeInv'
  BY <1>5, <1>t, ModifierOutcome, OutcomeFrame DEF OutcomeInv
<1> QED
  BY <1>1, <1>2, <1>3, <1>4, <1>5 DEF Next

LEMMA OutcomeInvariance ==
  ASSUME OnlyInterruptions
  PROVE  Spec => [](TInv /\ PInv /\ OInv /\ OutcomeInv)
<1>1. Init => OutcomeInv
  BY InitOutcome
<1>2. OutcomeInv /\ (TInv /\ PInv /\ OInv) /\ [Next]_vars => OutcomeInv'
  BY NextOutcome
<1> QED
  BY <1>1, <1>2, OrderInvariance, PTL DEF Spec

\* Whichever status the interruptions write into an item and when: it is recorded as
\* COMPLETED only if the worker closed its scan.
THEOREM CompletedIsClosed ==
  ASSUME OnlyInterruptions
  PROVE  Spec => []CompletedWasClosed
<1>1. OutcomeInv => CompletedWasClosed
  BY DEF OutcomeInv, RecordedInv, CompletedWasClosed
<1> QED
  BY <1>1, OutcomeInvariance, PTL

\* Of two ends of a scan - the last instruction closes it, an interruption or an alarm
\* aborts it, whatever comes first - only one is ever published, and no pause after it.
THEOREM OneEndOfAScan ==
  ASSUME OnlyInterruptions
  PROVE  Spec => FinalScanStatus
<1> DEFINE Final == \A i \in Items : published[i] \in {"closed", "aborted", "halted"}
                                       => published'[i] = published[i]
<1>1. ASSUME TInv, PInv, OInv, OutcomeInv, Worker PROVE Final
  <2>1. CASE BeginInstruction \/ EndInstruction \/ InstructionFails \/ AnnouncePause \/ Interrupted \/ Aborted
    <3>1. /\ wpc \in {"check", "exec", "cleanup", "aborted"} /\ published[cur] \notin Terminal
          /\ scanid \in {NoItem, cur} /\ published \in [Items -> ScanStatus]
      BY <1>1, <2>1, NotOver DEF BeginInstruction, EndInstruction, InstructionFails, AnnouncePause, Interrupted,
         Interruptible, Aborted, Over, Ending, PInv, ScanidInv, TInv, TypeOK, OutputType
    <3>2. \A i \in Items : i # cur => published'[i] = published[i]
      BY <2>1, <3>1 DEF BeginInstruction, EndInstruction, InstructionFails, AnnouncePause, Interrupted, Aborted
    <3> QED
      BY <3>1, <3>2 DEF Terminal
  <2>2. CASE ~(BeginInstruction \/ EndInstruction \/ InstructionFails \/ AnnouncePause \/ Interrupted \/ Aborted)
    <3>1. UNCHANGED published
      <4>1. CASE ChooseItem
        BY <1>1, <4>1, ChoosingLeaves
      <4>2. CASE ~ChooseItem
        BY <1>1, <2>2, <4>2 DEF Worker, StartFails, IterateItem, Fetch, Exhaust, Spin, Finish, FetchFails,
           SetActive, WriteStatus, WriteItemStatus, WriteOwnStatus, ActivePublished, Report,
           ExecuteInstruction, AbortItem, BeginCleanup, EndCleanup
      <4> QED
        BY <4>1, <4>2
    <3> QED
      BY <3>1
  <2> QED
    BY <2>1, <2>2
<1>2. ASSUME Inserter \/ ReceiveModification \/ \E m \in Modifiers : Modifier(m) PROVE Final
  <2>1. UNCHANGED published
    BY <1>2 DEF Inserter, InserterFrame, ReceiveModification, Modifier, ModifierFrame
  <2> QED
    BY <2>1
<1>3. UNCHANGED vars => Final
  BY DEF vars
<1>4. TInv /\ PInv /\ OInv /\ OutcomeInv /\ [Next]_vars => [Final]_vars
  BY <1>1, <1>2, <1>3 DEF Next
<1> QED
  BY <1>4, OutcomeInvariance, PTL DEF Spec, FinalScanStatus

-----------------------------------------------------------------------------
(* The items that an interruption costs. An interruption that finds the      *)
(* worker between two items leaves a debt of at most one item: it pauses    *)
(* the queue, which the worker only notices when it has already popped;     *)
(* or the queue is empty when the pause ends, and active_instruction_queue  *)
(* is not reset, so that the next item to come is taken for the last one.   *)

Pending(m) == IF mpc[m] \in {"queue", "status"} THEN 1 ELSE 0
Stale == \/ wpc \in {"head", "pop"} /\ active # NoItem /\ ~HeadStarted
         \/ wpc = "take" /\ queue = <<>>
Waits == IF wpc \in {"paused", "resume", "resumed"} THEN 1
         ELSE (IF Stale THEN 1 ELSE 0) + (IF qstatus = "PAUSED" THEN 1 ELSE 0)
Pendings == Pending("modification") + Pending("alarm")
Due == alarms + Pendings + Waits

LossInv == /\ wpc = "pop" => active # NoItem
           /\ IsFiniteSet(LostItems)
           /\ Cardinality(LostItems) + Due <= requests + raised

Lost(i) == Created(i) /\ ~InQueue(i) /\ ~Started(i)

LEMMA InitLoss == Init => LossInv
<1> SUFFICES ASSUME Init PROVE LossInv
  OBVIOUS
<1>1. LostItems = {}
  BY DEF Init, LostItems
<1>2. Due = 0 /\ requests + raised = 0
  BY DEF Init, Due, Pendings, Pending, Waits, Stale
<1> QED
  BY <1>1, <1>2, FS_EmptySet DEF LossInv, Init

LEMMA DueIsNat ==
  /\ TInv => /\ Due \in Nat /\ requests \in Nat /\ raised \in Nat
             /\ alarms \in Nat /\ Pendings \in 0..2 /\ Waits \in 0..2
  /\ TInv' => /\ Due' \in Nat /\ requests' \in Nat /\ raised' \in Nat
              /\ alarms' \in Nat /\ Pendings' \in 0..2 /\ Waits' \in 0..2
<1>1. Pendings \in 0..2 /\ Waits \in 0..2 /\ Pendings' \in 0..2 /\ Waits' \in 0..2
  BY DEF Pendings, Pending, Waits
<1>2. TInv => alarms \in Nat /\ raised \in Nat /\ requests \in Nat
  BY DEF TInv, TypeOK, AlarmType, ModifierType
<1>3. TInv' => alarms' \in Nat /\ raised' \in Nat /\ requests' \in Nat
  BY DEF TInv, TypeOK, AlarmType, ModifierType
<1>4. \A x \in Nat, y, z \in 0..2 : x + y + z \in Nat
  OBVIOUS
<1>5. (alarms \in Nat => Due \in Nat) /\ (alarms' \in Nat => Due' \in Nat)
  BY <1>1, <1>4 DEF Due
<1> QED
  BY <1>1, <1>2, <1>3, <1>5

\* Nothing is lost, and the step owes no more than the interruptions it counts.
LEMMA NothingLost ==
  ASSUME TInv, TInv', LossInv, wpc' = "pop" => active' # NoItem,
         \A i \in Items : Lost(i)' => Lost(i),
         Due' + requests + raised <= Due + requests' + raised'
  PROVE  LossInv'
<1>1. LostItems' \subseteq LostItems
  BY DEF LostItems, Lost
<1>2. IsFiniteSet(LostItems') /\ Cardinality(LostItems') <= Cardinality(LostItems)
  BY <1>1, FS_Subset DEF LossInv
<1>3. Cardinality(LostItems) \in Nat /\ Cardinality(LostItems') \in Nat
  BY <1>2, FS_CardinalityType DEF LossInv
<1>4. Cardinality(LostItems') + Due' <= requests' + raised'
  BY <1>2, <1>3, DueIsNat DEF LossInv
<1> QED
  BY <1>2, <1>4 DEF LossInv

\* What is in the queue stays there or was created by the step, and history only grows.
LEMMA QueueKeeps ==
  ASSUME TInv, UNCHANGED istatus,
         history' = history \/ history' = Append(history, active)
  PROVE  /\ \A i \in Items : Started(i) => Started(i)'
         /\ UNCHANGED queue => \A i \in Items : Lost(i)' => Lost(i)
<1>1. ASSUME NEW i \in Items, Started(i) PROVE Started(i)'
  <2>q. history \in Seq(ItemOrNone) /\ active \in ItemOrNone /\ Len(history) \in Nat
    BY DEF TInv, TypeOK, QueueType
  <2>2. PICK k \in 1..Len(history) : history[k] = i
    BY <1>1 DEF Started
  <2>3. k \in 1..Len(history') /\ history'[k] = i
    BY <2>q, <2>2
  <2> QED
    BY <2>3 DEF Started
<1> QED
  BY <1>1 DEF Lost, InQueue

\* popleft costs an item only if active_instruction_queue was stale.
LEMMA PopLoses ==
  ASSUME TInv, TInv', OInv, LossInv, Pop, UNCHANGED <<itemVars, modifierVars, alarmVars>>
  PROVE  LossInv'
<1>1. /\ UNCHANGED <<history, active, istatus, qstatus, alarms, mpc, requests, raised>>
      /\ wpc = "pop" /\ active # NoItem
  BY DEF Pop, LossInv
<1>q. queue \in Seq(Items) /\ Len(queue) \in Nat
  BY DEF TInv, TypeOK, QueueType
<1>p. Pendings' = Pendings
  BY <1>1 DEF Pendings, Pending
<1>2. CASE queue = <<>>
  <2>1. wpc' = "head" /\ UNCHANGED queue
    BY <1>2 DEF Pop
  <2>2. Waits' = Waits
    BY <1>1, <1>2, <2>1 DEF Waits, Stale, HeadStarted
  <2>3. \A i \in Items : Lost(i)' => Lost(i)
    BY <1>1, <2>1, QueueKeeps
  <2>4. Due' = Due
    BY <1>1, <1>p, <2>2 DEF Due
  <2> QED
    BY <1>1, <2>1, <2>3, <2>4, DueIsNat, NothingLost
<1>3. CASE queue # <<>>
  <2>1. wpc' = "popped" /\ queue' = Tail(queue)
    BY <1>3 DEF Pop
  <2>h. Head(queue) = queue[1] /\ Head(queue) \in Items /\ Len(queue) >= 1
    BY <1>q, <1>3, TailElements
  <2>2. \A i \in Items : InQueue(i) => InQueue(i)' \/ i = Head(queue)
    <3>1. ASSUME NEW i \in Items, InQueue(i), i # Head(queue) PROVE InQueue(i)'
      <4>1. PICK k \in 1..Len(queue) : queue[k] = i
        BY <3>1 DEF InQueue
      <4>2. k # 1
        BY <3>1, <4>1, <2>h
      <4>3. k - 1 \in 1..Len(Tail(queue)) /\ Tail(queue)[k - 1] = queue[(k - 1) + 1]
        BY <1>q, <1>3, <4>2, TailElements
      <4>4. (k - 1) + 1 = k
        BY <1>q
      <4>5. Tail(queue)[k - 1] = i
        BY <4>1, <4>3, <4>4
      <4> QED
        BY <2>1, <4>3, <4>5 DEF InQueue
    <3> QED
      BY <3>1
  <2>3. Waits' = IF qstatus = "PAUSED" THEN 1 ELSE 0
    BY <1>1, <2>1 DEF Waits, Stale
  <2>4. CASE HeadStarted
    <3>1. \A i \in Items : Lost(i)' => Lost(i)
      BY <1>1, <2>2, <2>4, QueueKeeps DEF Lost, HeadStarted
    <3>2. Waits = IF qstatus = "PAUSED" THEN 1 ELSE 0
      BY <1>1, <2>4, <1>3 DEF Waits, Stale
    <3>3. Due' = Due
      BY <1>1, <1>p, <2>3, <3>2 DEF Due
    <3> QED
      BY <1>1, <2>1, <3>1, <3>3, DueIsNat, NothingLost
  <2>5. CASE ~HeadStarted
    <3>1. LostItems' \subseteq LostItems \cup {Head(queue)}
      BY <1>1, <2>2, QueueKeeps DEF LostItems
    <3>2. IsFiniteSet(LostItems \cup {Head(queue)}) /\ IsFiniteSet(LostItems)
      BY FS_AddElement DEF LossInv
    <3>3. /\ Cardinality(LostItems) \in Nat
          /\ Cardinality(LostItems \cup {Head(queue)}) <= Cardinality(LostItems) + 1
      BY <3>2, FS_AddElement, FS_CardinalityType, SMTT(30)
    <3>4. /\ IsFiniteSet(LostItems')
          /\ Cardinality(LostItems') <= Cardinality(LostItems \cup {Head(queue)})
      BY <3>1, <3>2, FS_Subset
    <3>5. /\ Cardinality(LostItems') \in Nat
          /\ Cardinality(LostItems \cup {Head(queue)}) \in Nat
      BY <3>2, <3>4, FS_CardinalityType
    <3>6. Waits = 1 + (IF qstatus = "PAUSED" THEN 1 ELSE 0)
      BY <1>1, <2>5 DEF Waits, Stale
    <3>7. Due = Due' + 1
      BY <1>1, <1>p, <2>3, <3>6, DueIsNat DEF Due
    <3>8. Cardinality(LostItems') + Due' <= requests' + raised'
      BY <1>1, <3>3, <3>4, <3>5, <3>7, DueIsNat DEF LossInv
    <3> QED
      BY <2>1, <3>4, <3>8 DEF LossInv
  <2> QED
    BY <2>4, <2>5
<1> QED
  BY <1>2, <1>3

LEMMA ChoosingLoses ==
  ASSUME TInv, TInv', OInv, LossInv, ChooseItem, UNCHANGED <<itemVars, modifierVars, alarmVars>>
  PROVE  LossInv'
<1>p. UNCHANGED <<Pendings, alarms, requests, raised>>
  BY DEF Pendings, Pending
<1>1. CASE Pop
  BY <1>1, PopLoses
<1>2. CASE ~Pop
  <2>1. UNCHANGED queue
    BY <1>2 DEF ChooseItem, LoopHead, PopPublished, Look, WhilePaused, Resume, ResumePublished, Take, RecordStart
  <2>2. \A i \in Items : Lost(i)' => Lost(i)
    BY <2>1, ChoosingSteps, QueueKeeps
  <2>3. wpc' = "pop" => active' # NoItem
    BY <1>2 DEF ChooseItem, LoopHead, PopPublished, Look, WhilePaused, Resume, ResumePublished, Take, RecordStart
  <2>4. Waits' <= Waits
    <3> USE DEF Waits, Stale
    <3>1. CASE LoopHead
      BY <3>1 DEF LoopHead, HeadStarted, Started
    <3>2. CASE PopPublished \/ Resume \/ ResumePublished \/ RecordStart
      BY <3>2 DEF PopPublished, Resume, ResumePublished, RecordStart
    <3>3. CASE Look
      BY <3>3 DEF Look
    <3>4. CASE WhilePaused
      BY <3>4 DEF WhilePaused
    <3>5. CASE Take
      BY <3>5 DEF Take, HeadStarted
    <3> QED
      BY <1>2, <3>1, <3>2, <3>3, <3>4, <3>5 DEF ChooseItem
  <2>5. Due' <= Due
    BY <1>p, <2>4, DueIsNat DEF Due
  <2> QED
    BY <1>p, <2>2, <2>3, <2>5, DueIsNat, NothingLost
<1> QED
  BY <1>1, <1>2

\* While an item is processed nothing is owed by the worker, and an alarm is counted.
LEMMA ProcessingLoses ==
  ASSUME TInv, TInv', PInv, OInv, LossInv, Worker, ~ChooseItem
  PROVE  LossInv'
<1>1. /\ wpc \in Processing /\ UNCHANGED <<queue, active, history, qstatus>> /\ SameCreated
      /\ wpc' \in Processing \/ Report
  <2>1. CASE Report
    BY <2>1 DEF Report, SameCreated
  <2>2. CASE ~Report
    <3>1. UNCHANGED qstatus
      BY <2>2, ItemsAssumption DEF Worker, StartFails, IterateItem, Fetch, Exhaust, Spin, Finish, FetchFails,
         SetActive, WriteStatus, WriteItemStatus, WriteOwnStatus, ActivePublished, ExecuteInstruction,
         BeginInstruction, EndInstruction, InstructionFails, AnnouncePause, Interrupted, AbortItem,
         BeginCleanup, EndCleanup, Aborted
    <3> QED
      BY <2>2, <3>1, ProcessingSteps
  <2> QED
    BY <2>1, <2>2
<1>2. \A i \in Items : Lost(i)' => Lost(i)
  BY <1>1 DEF Lost, InQueue, Started, SameCreated
<1>3. wpc' # "pop"
  BY <1>1 DEF Report
<1>4. Waits' = (IF qstatus = "PAUSED" THEN 1 ELSE 0) /\ Waits = (IF qstatus = "PAUSED" THEN 1 ELSE 0)
  <2>1. Waits = IF qstatus = "PAUSED" THEN 1 ELSE 0
    BY <1>1 DEF Waits, Stale
  <2>2. CASE wpc' \in Processing
    BY <1>1, <2>1, <2>2 DEF Waits, Stale
  <2>3. CASE Report
    <3>1. wpc' = "head" /\ HeadStarted'
      BY <1>1, <2>3, Unrecorded DEF Report, OInv, HeadInv, WorkerOnHead, HeadStarted, Started
    <3> QED
      BY <1>1, <2>1, <3>1 DEF Waits, Stale
  <2> QED
    BY <1>1, <2>1, <2>2, <2>3
<1>5. \/ UNCHANGED <<alarms, raised>>
      \/ alarms' = alarms + 1 /\ raised' = raised + 1
  BY DEF Worker, StartFails, IterateItem, Fetch, Exhaust, Spin, Finish, FetchFails, RaiseAlarm,
     SetActive, WriteStatus, ExecuteInstruction, BeginInstruction, EndInstruction, InstructionFails,
     AnnouncePause, Interrupted, AbortItem, BeginCleanup, EndCleanup, Aborted, WorkerDies
<1>6. UNCHANGED <<requests, Pendings>>
  BY DEF Worker, Pendings, Pending
<1>7. Due' + requests + raised <= Due + requests' + raised'
  BY <1>4, <1>5, <1>6, DueIsNat DEF Due
<1> QED
  BY <1>2, <1>3, <1>7, NothingLost

\* An inserted item is in the queue, and a rejected scan raises an alarm.
LEMMA InserterLoses ==
  ASSUME TInv, TInv', OInv, LossInv, Inserter
  PROVE  LossInv'
<1>1. UNCHANGED <<order, mpc, act>> /\ UNCHANGED <<qstatus, requests>>
  BY InserterAppends DEF Inserter, InserterFrame, ReceiveScan, InsertItem, FindMacro, RejectScan, AppendClose
<1>2. \/ UNCHANGED <<alarms, raised>>
      \/ alarms' = alarms + 1 /\ raised' = raised + 1
  BY DEF Inserter, ReceiveScan, InsertItem, FindMacro, RejectScan, RaiseAlarm, AppendClose
<1>3. (\A i \in Items : Lost(i)' => Lost(i)) /\ Waits' <= Waits
  <2>1. CASE UNCHANGED queue /\ SameCreated
    BY <1>1, <2>1 DEF order, SameCreated, Lost, InQueue, Started, Waits, Stale, HeadStarted
  <2>2. ASSUME NEW j \in Items, NewlyCreated(j), queue' = Append(queue, j)
        PROVE  (\A i \in Items : Lost(i)' => Lost(i)) /\ Waits' <= Waits
    <3>q. queue \in Seq(Items) /\ Len(queue) \in Nat
      BY DEF TInv, TypeOK, QueueType
    <3>1. /\ Len(queue') = Len(queue) + 1 /\ queue' # <<>> /\ queue'[Len(queue) + 1] = j
          /\ \A k \in 1..Len(queue) : queue'[k] = queue[k]
          /\ queue # <<>> => Head(queue') = Head(queue)
      BY <3>q, <2>2
    <3>2. \A i \in Items : Started(i)' <=> Started(i)
      BY <1>1 DEF order, Started
    <3>3. ASSUME NEW i \in Items, Lost(i)' PROVE Lost(i)
      <4>1. i # j
        <5>1. Len(queue) + 1 \in 1..Len(queue')
          BY <3>q, <3>1
        <5> QED
          BY <3>1, <3>3, <5>1 DEF Lost, InQueue
      <4>2. ~InQueue(i)
        BY <3>q, <3>1, <3>3 DEF Lost, InQueue
      <4> QED
        BY <2>2, <3>2, <3>3, <4>1, <4>2 DEF Lost, NewlyCreated
    <3>4. HeadStarted => HeadStarted'
      BY <3>1, <1>1 DEF HeadStarted, order, Started
    <3>5. Waits' <= Waits
      BY <1>1, <3>1, <3>4 DEF order, Waits, Stale
    <3> QED
      BY <3>3, <3>5
  <2> QED
    BY <2>1, <2>2, InserterAppends
<1>4. Due' + requests + raised <= Due + requests' + raised'
  <2>1. UNCHANGED Pendings
    BY <1>1 DEF Pendings, Pending
  <2> QED
    BY <1>1, <1>2, <1>3, <2>1, DueIsNat DEF Due
<1>5. wpc' = "pop" => active' # NoItem
  BY <1>1 DEF order, LossInv
<1> QED
  BY <1>3, <1>4, <1>5, NothingLost

\* What the interruptions leave alone of all this.
LEMMA NoneLost ==
  ASSUME LossInv, UNCHANGED <<queue, order>>, SameCreated
  PROVE  /\ \A i \in Items : Lost(i)' => Lost(i)
         /\ wpc' = "pop" => active' # NoItem
         /\ Stale' <=> Stale
  BY DEF order, SameCreated, Lost, InQueue, Started, LossInv, Stale, HeadStarted

\* An interruption is one more that is counted; ...
LEMMA ReceiveLoses ==
  ASSUME TInv, TInv', OInv, LossInv, OnlyInterruptions, ReceiveModification
  PROVE  LossInv'
<1>1. UNCHANGED <<queue, order>> /\ SameCreated
  BY ReceiveLeavesOrder
<1> USE DEF Due, Pendings, Pending, TInv, TypeOK, AlarmType, ModifierType
<1>2. Waits' = Waits /\ Waits \in Nat
  <2>1. UNCHANGED qstatus
    BY DEF ReceiveModification, ReceiveRequest, ReceiveAlarm
  <2> QED
    BY <1>1, <2>1, NoneLost DEF Waits, order
<1>3. ASSUME NEW a \in Requests, NEW i \in ItemOrNone, ReceiveRequest(a, i)
      PROVE  Due' + requests + raised <= Due + requests' + raised'
  <2>1. /\ requests' = requests + 1 /\ mpc["modification"] = "idle" /\ UNCHANGED <<alarms, raised>>
        /\ mpc'["alarm"] = mpc["alarm"]
    BY <1>3 DEF ReceiveRequest
  <2> QED
    BY <1>2, <2>1
<1>4. ASSUME ReceiveAlarm
      PROVE  Due' + requests + raised <= Due + requests' + raised'
  <2>1. /\ UNCHANGED <<requests, raised>> /\ mpc["alarm"] = "idle" /\ mpc'["alarm"] = "queue"
        /\ alarms > 0 /\ alarms' = alarms - 1 /\ mpc'["modification"] = mpc["modification"]
    BY <1>4 DEF ReceiveAlarm
  <2> QED
    BY <1>2, <2>1
<1> QED
  BY <1>1, <1>3, <1>4, NoneLost, NothingLost DEF ReceiveModification

\* ... it can cost an item from when it pauses the queue.
LEMMA ModifierLoses ==
  ASSUME TInv, TInv', OInv, LossInv, NEW m \in Modifiers, Modifier(m)
  PROVE  LossInv'
<1>1. UNCHANGED <<queue, order>> /\ SameCreated
  BY ModifierLeavesOrder
<1>2. /\ UNCHANGED <<requests, raised, alarms>>
      /\ \A n \in Modifiers : n # m => mpc'[n] = mpc[n]
  BY DEF Modifier, SetStatus, TestQueue, SetQueueStatus, TestLength, ReadHead, SetItemStatus,
     SetWorkerStatus, Then, ForgetActive, Restart, FoundInHistory, RestartTimesOut, Reinsert,
     TInv, TypeOK, ModifierType
<1>3. Waits' + Pendings' <= Waits + Pendings
  <2>1. CASE SetQueueStatus(m)
    <3>1. mpc[m] = "status" /\ mpc'[m] = "publish"
      BY <2>1 DEF SetQueueStatus, TInv, TypeOK, ModifierType
    <3>2. Pendings = Pendings' + 1
      BY <1>2, <3>1 DEF Pendings, Pending
    <3>3. Waits' <= Waits + 1
      BY <1>1, NoneLost DEF Waits, order
    <3> QED
      BY <3>2, <3>3, DueIsNat
  <2>2. CASE ~SetQueueStatus(m)
    <3>1. UNCHANGED qstatus /\ (mpc'[m] \in {"queue", "status"} => mpc[m] \in {"queue", "status"})
      BY <2>2 DEF Modifier, SetStatus, TestQueue, TestLength, ReadHead, SetItemStatus,
         SetWorkerStatus, Then, ForgetActive, Restart, FoundInHistory, RestartTimesOut, Reinsert,
         TInv, TypeOK, ModifierType
    <3>2. Waits' = Waits
      BY <1>1, <3>1, NoneLost DEF Waits, order
    <3>3. Pendings' <= Pendings
      BY <1>2, <3>1 DEF Pendings, Pending
    <3> QED
      BY <3>2, <3>3, DueIsNat
  <2> QED
    BY <2>1, <2>2
<1>4. Due' <= Due
  BY <1>2, <1>3, DueIsNat DEF Due
<1>5. Due' + requests + raised <= Due + requests' + raised'
  BY <1>2, <1>4, DueIsNat
<1> QED
  BY <1>1, <1>5, NoneLost, NothingLost

LEMMA NextLoss ==
  ASSUME TInv, PInv, OInv, LossInv, OnlyInterruptions, [Next]_vars
  PROVE  LossInv'
<1>t. TInv'
  BY NextTInv
<1>1. CASE UNCHANGED vars
  BY <1>1 DEF vars, LossInv, LostItems, InQueue, Started, Due, Pendings, Pending, Waits, Stale, HeadStarted
<1>2. CASE Worker
  <2>1. CASE ChooseItem
    <3>1. UNCHANGED <<itemVars, outputVars>>
      BY <1>2, <2>1, ChoosingLeaves
    <3>2. UNCHANGED <<modifierVars, alarmVars>>
      <4>1. wpc \in Choosing /\ ~StartFails
        BY <2>1, ItemsAssumption DEF ChooseItem, LoopHead, Pop, PopPublished, Look, WhilePaused, Resume,
           ResumePublished, Take, RecordStart, StartFails
      <4> QED
        BY <1>2, <4>1 DEF Worker, StartFails, IterateItem, Fetch, Exhaust, Spin, Finish, FetchFails,
         SetActive, WriteStatus, ExecuteInstruction, BeginInstruction, EndInstruction, InstructionFails,
         AnnouncePause, Interrupted, Interruptible, AbortItem, BeginCleanup, EndCleanup, Aborted
    <3> QED
      BY <1>t, <2>1, <3>1, <3>2, ChoosingLoses
  <2>2. CASE ~ChooseItem
    BY <1>2, <1>t, <2>2, ProcessingLoses
  <2> QED
    BY <2>1, <2>2
<1>3. CASE Inserter
  BY <1>3, <1>t, InserterLoses
<1>4. CASE ReceiveModification
  BY <1>4, <1>t, ReceiveLoses
<1>5. ASSUME NEW m \in Modifiers, Modifier(m) PROVE LossInv'
  BY <1>5, <1>t, ModifierLoses
<1> QED
  BY <1>1, <1>2, <1>3, <1>4, <1>5 DEF Next

\* __next__ can take a waiting item for the one that was processed last and drop it
\* unseen, but each pause, abort, halt and alarm makes that possible at most once.
THEOREM LossesAreBounded ==
  ASSUME OnlyInterruptions
  PROVE  Spec => []OneLossPerInterruption
<1>1. Init => LossInv
  BY InitLoss
<1>2. LossInv /\ (TInv /\ PInv /\ OInv) /\ [Next]_vars => LossInv'
  BY NextLoss
<1>3. TInv /\ LossInv => OneLossPerInterruption
  <2> SUFFICES ASSUME TInv, LossInv PROVE OneLossPerInterruption
    OBVIOUS
  <2>1. Cardinality(LostItems) \in Nat
    BY FS_CardinalityType DEF LossInv
  <2> QED
    BY <2>1, DueIsNat DEF LossInv, OneLossPerInterruption
<1> QED
  BY <1>1, <1>2, <1>3, OrderInvariance, PTL DEF Spec
=============================================================================
