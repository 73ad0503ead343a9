-------------------------- MODULE ScanQueueProofs --------------------------
(***************************************************************************)
(* Theorems about ScanQueue for every set of items, every bound on the     *)
(* requests and alarms, and every number of instructions of a request.     *)
(***************************************************************************)
EXTENDS ScanQueue, TLAPS

-----------------------------------------------------------------------------
(* Type correctness. TypeOK is not inductive: the typing of istatus[cur] and*)
(* left[cur] needs that what a thread holds is an item.        *)

TInv == TypeOK /\ HeldCreated

USE DEF Goto, GotoM, Return, CanPublish, Created, ItemOrNone, QueueStatus,
        ItemStatus, ScanStatus, Modifiers, ModifierSteps, Choosing, Processing,
        queueVars, itemVars, workerVars, inserterVars, modifierVars, alarmVars, outputVars

LEMMA TailElements ==
  ASSUME NEW S, NEW s \in Seq(S), s # <<>>
  PROVE  /\ Head(s) \in S /\ Head(s) = s[1] /\ Len(s) >= 1
         /\ Tail(s) \in Seq(S) /\ Len(Tail(s)) = Len(s) - 1
         /\ \A k \in 1..Len(Tail(s)) : Tail(s)[k] = s[k + 1]
  OBVIOUS

\* popleft leaves only what was there, append adds its argument, ...
LEMMA PopLeaves == QueueType /\ (queue' = queue \/ (queue # <<>> /\ queue' = Tail(queue)))
                   => \A i \in Items : InQueue(i)' => InQueue(i)
  BY TailElements DEF QueueType, InQueue

LEMMA AppendAdds == ASSUME QueueType, NEW j \in Items, queue' = Append(queue, j)
                    PROVE  \A i \in Items : InQueue(i)' => InQueue(i) \/ i = j
  BY DEF QueueType, InQueue

\* ... and so does insert(0, j).
LEMMA InsertAdds == ASSUME QueueType, NEW j \in Items, queue' = <<j>> \o queue
                    PROVE  /\ queue' \in Seq(Items)
                           /\ \A i \in Items : InQueue(i)' => InQueue(i) \/ i = j
<1>1. /\ queue' \in Seq(Items) /\ Len(queue') = Len(queue) + 1
      /\ \A k \in 1..Len(queue') : queue'[k] = IF k = 1 THEN j ELSE queue[k - 1]
  BY DEF QueueType
<1> QED
  BY <1>1 DEF QueueType, InQueue

LEMMA EmptySequence == <<>> \in Seq(Items)
  OBVIOUS

LEMMA HeadInQueue == QueueType /\ queue # <<>> => Head(queue) \in Items /\ InQueue(Head(queue))
  BY TailElements DEF QueueType, InQueue

\* What a step leaves alone keeps its type.
LEMMA Frames ==
  /\ QueueType /\ UNCHANGED queueVars => QueueType'
  /\ ItemType /\ UNCHANGED itemVars => ItemType'
  /\ WorkerType /\ UNCHANGED workerVars => WorkerType'
  /\ ModifierType /\ UNCHANGED modifierVars => ModifierType'
  /\ AlarmType /\ UNCHANGED alarmVars => AlarmType'
  /\ InserterType /\ UNCHANGED inserterVars => InserterType'
  /\ OutputType /\ UNCHANGED outputVars => OutputType'
  BY DEF QueueType, ItemType, WorkerType, InserterType, ModifierType, AlarmType, OutputType

LEMMA InitTInv == Init => TInv
  BY ItemsAssumption DEF Init, TInv, TypeOK, QueueType, ItemType, WorkerType, InserterType, ModifierType,
     AlarmType, OutputType, HeldCreated, InQueue, Modifications

LEMMA ChoosingTInv ==
  TInv /\ ChooseItem
       /\ UNCHANGED <<itemVars, alarmVars, outputVars, inserterVars, modifierVars, lock>>
  => TInv'
<1> SUFFICES ASSUME TInv, ChooseItem,
                    UNCHANGED <<itemVars, alarmVars, outputVars, inserterVars, modifierVars, lock>>
             PROVE  TInv'
  OBVIOUS
<1> USE DEF TInv, TypeOK
<1>1. CASE LoopHead
  <2>1. WorkerType'
    BY <1>1 DEF LoopHead, WorkerType
  <2>2. HeldCreated'
    BY <1>1 DEF LoopHead, HeldCreated, ItemType, WorkerType, InQueue
  <2> QED
    BY <1>1, <2>1, <2>2, Frames DEF LoopHead
<1>2. CASE Pop
  <2>1. QueueType'
    BY <1>2, TailElements DEF Pop, QueueType
  <2>2. WorkerType'
    BY <1>2 DEF Pop, WorkerType
  <2>3. HeldCreated'
    BY <1>2, PopLeaves DEF Pop, HeldCreated, QueueType, ItemType, WorkerType
  <2> QED
    BY <1>2, <2>1, <2>2, <2>3, Frames DEF Pop
<1>3. CASE PopPublished
  <2>1. WorkerType'
    BY <1>3 DEF PopPublished, WorkerType
  <2>2. HeldCreated'
    BY <1>3 DEF PopPublished, HeldCreated, ItemType, WorkerType, InQueue
  <2> QED
    BY <1>3, <2>1, <2>2, Frames DEF PopPublished
<1>4. CASE Look
  <2>1. QueueType'
    BY <1>4 DEF Look, QueueType
  <2>2. WorkerType'
    BY <1>4 DEF Look, WorkerType
  <2>3. HeldCreated'
    BY <1>4 DEF Look, HeldCreated, ItemType, WorkerType, InQueue
  <2> QED
    BY <1>4, <2>1, <2>2, <2>3, Frames DEF Look
<1>5. CASE WhilePaused
  <2>1. WorkerType'
    BY <1>5 DEF WhilePaused, WorkerType
  <2>2. HeldCreated'
    BY <1>5 DEF WhilePaused, HeldCreated, ItemType, WorkerType, InQueue
  <2> QED
    BY <1>5, <2>1, <2>2, Frames DEF WhilePaused
<1>6. CASE Resume
  <2>1. QueueType'
    BY <1>6 DEF Resume, QueueType
  <2>2. WorkerType'
    BY <1>6 DEF Resume, WorkerType
  <2>3. HeldCreated'
    BY <1>6 DEF Resume, HeldCreated, ItemType, WorkerType, InQueue
  <2> QED
    BY <1>6, <2>1, <2>2, <2>3, Frames DEF Resume
<1>7. CASE ResumePublished
  <2>1. WorkerType'
    BY <1>7 DEF ResumePublished, WorkerType
  <2>2. HeldCreated'
    BY <1>7 DEF ResumePublished, HeldCreated, ItemType, WorkerType, InQueue
  <2> QED
    BY <1>7, <2>1, <2>2, Frames DEF ResumePublished
<1>8. CASE Take
  <2>1. QueueType'
    BY <1>8, HeadInQueue DEF Take, QueueType
  <2>2. WorkerType'
    BY <1>8 DEF Take, WorkerType
  <2>3. HeldCreated'
    BY <1>8, HeadInQueue DEF Take, HeldCreated, QueueType, ItemType, WorkerType, InQueue
  <2> QED
    BY <1>8, <2>1, <2>2, <2>3, Frames DEF Take
<1>9. CASE RecordStart
  <2>1. QueueType'
    BY <1>9 DEF RecordStart, QueueType
  <2>2. WorkerType'
    BY <1>9 DEF RecordStart, WorkerType, QueueType
  <2>3. HeldCreated'
    BY <1>9 DEF RecordStart, HeldCreated, QueueType, ItemType, WorkerType, InQueue
  <2> QED
    BY <1>9, <2>1, <2>2, <2>3, Frames DEF RecordStart
<1> QED
  BY <1>1, <1>2, <1>3, <1>4, <1>5, <1>6, <1>7, <1>8, <1>9 DEF ChooseItem

LEMMA WorkerTInv == TInv /\ Worker => TInv'
<1> SUFFICES ASSUME TInv, Worker PROVE TInv'
  OBVIOUS
<1>f. UNCHANGED <<inserterVars, modifierVars, lock>>
  BY DEF Worker
<1>c. ASSUME ChooseItem, UNCHANGED <<alarmVars, outputVars>> PROVE TInv'
  <2>1. UNCHANGED itemVars
    BY <1>c DEF ChooseItem, LoopHead, Pop, PopPublished, Look, WhilePaused, Resume,
       ResumePublished, Take, RecordStart
  <2> QED
    BY <1>c, <1>f, <2>1, ChoosingTInv
<1> USE DEF TInv, TypeOK
<1>1. CASE Fetch
  <2>1. ItemType'
    BY <1>1, <1>f DEF Fetch, ItemType, WorkerType, HeldCreated, ModifierType,
       QueueType
  <2>2. WorkerType'
    BY <1>1, <1>f DEF Fetch, WorkerType
  <2>3. HeldCreated'
    BY <1>1, <1>f DEF Fetch, HeldCreated, ItemType, WorkerType, InQueue
  <2> QED
    BY <1>1, <1>f, <2>1, <2>2, <2>3, Frames DEF Fetch
<1>2. CASE Exhaust
  <2>1. ItemType'
    BY <1>2, <1>f DEF Exhaust, CountsScan, ItemType, WorkerType, HeldCreated,
       ModifierType, QueueType
  <2>2. OutputType'
    BY <1>2, <1>f DEF Exhaust, CountsScan, OutputType, WorkerType, ItemType
  <2>3. HeldCreated'
    BY <1>2, <1>f DEF Exhaust, CountsScan, HeldCreated, ItemType, WorkerType,
       InQueue
  <2> QED
    BY <1>2, <1>f, <2>1, <2>2, <2>3, Frames DEF Exhaust, CountsScan
<1>3. CASE Spin
  <2>1. HeldCreated'
    BY <1>3, <1>f DEF Spin, HeldCreated, ItemType, WorkerType, InQueue
  <2> QED
    BY <1>3, <1>f, <2>1, Frames DEF Spin
<1>4. CASE Finish
  <2>1. WorkerType'
    BY <1>4, <1>f DEF Finish, WorkerType
  <2>2. HeldCreated'
    BY <1>4, <1>f DEF Finish, HeldCreated, ItemType, WorkerType, InQueue
  <2> QED
    BY <1>4, <1>f, <2>1, <2>2, Frames DEF Finish
<1>5. CASE FetchFails
  <2>1. ItemType'
    BY <1>5, <1>f DEF FetchFails, RaiseAlarm, ItemType, WorkerType, HeldCreated,
       ModifierType, QueueType
  <2>2. WorkerType'
    BY <1>5, <1>f DEF FetchFails, RaiseAlarm, WorkerType
  <2>3. AlarmType'
    BY <1>5, <1>f DEF FetchFails, RaiseAlarm, AlarmType, WorkerType, HeldCreated
  <2>4. HeldCreated'
    BY <1>5, <1>f DEF FetchFails, RaiseAlarm, HeldCreated, ItemType, WorkerType,
       InQueue
  <2> QED
    BY <1>5, <1>f, <2>1, <2>2, <2>3, <2>4, Frames DEF FetchFails, RaiseAlarm
<1>6. CASE SetActive
  <2>1. WorkerType'
    BY <1>6, <1>f DEF SetActive, WorkerType
  <2>2. HeldCreated'
    BY <1>6, <1>f DEF SetActive, HeldCreated, ItemType, WorkerType, InQueue
  <2> QED
    BY <1>6, <1>f, <2>1, <2>2, Frames DEF SetActive
<1>7. ASSUME WriteItemStatus, UNCHANGED alarmVars PROVE TInv'
  <2>1. ItemType'
    BY <1>7, <1>f DEF WriteItemStatus, ItemType, WorkerType, HeldCreated,
       ModifierType, QueueType
  <2>2. WorkerType'
    BY <1>7, <1>f DEF WriteItemStatus, WorkerType
  <2>3. HeldCreated'
    BY <1>7, <1>f DEF WriteItemStatus, HeldCreated, ItemType, WorkerType, InQueue
  <2> QED
    BY <1>7, <1>f, <2>1, <2>2, <2>3, Frames DEF WriteItemStatus
<1>8. ASSUME WriteOwnStatus, UNCHANGED alarmVars PROVE TInv'
  <2>1. WorkerType'
    BY <1>8, <1>f DEF WriteOwnStatus, WorkerType
  <2>2. HeldCreated'
    BY <1>8, <1>f DEF WriteOwnStatus, HeldCreated, ItemType, WorkerType, InQueue
  <2> QED
    BY <1>8, <1>f, <2>1, <2>2, Frames DEF WriteOwnStatus
<1>9. ASSUME ActivePublished, UNCHANGED alarmVars PROVE TInv'
  <2>1. WorkerType'
    BY <1>9, <1>f DEF ActivePublished, WorkerType
  <2>2. HeldCreated'
    BY <1>9, <1>f DEF ActivePublished, HeldCreated, ItemType, WorkerType, InQueue
  <2> QED
    BY <1>9, <1>f, <2>1, <2>2, Frames DEF ActivePublished
<1>10. ASSUME Report, UNCHANGED alarmVars PROVE TInv'
  <2>1. OutputType'
    BY <1>10, <1>f DEF Report, HeldCreated, OutputType, WorkerType, ItemType
  <2>2. WorkerType'
    BY <1>10, <1>f DEF Report, WorkerType
  <2>3. HeldCreated'
    BY <1>10, <1>f DEF Report, HeldCreated, ItemType, WorkerType, InQueue
  <2> QED
    BY <1>10, <1>f, <2>1, <2>2, <2>3, Frames DEF Report
<1>11. CASE BeginInstruction
  <2>1. WorkerType'
    BY <1>11, <1>f DEF BeginInstruction, WorkerType
  <2>2. HeldCreated'
    BY <1>11, <1>f DEF BeginInstruction, HeldCreated, ItemType, WorkerType, InQueue
  <2> QED
    BY <1>11, <1>f, <2>1, <2>2, Frames DEF BeginInstruction
<1>12. CASE EndInstruction
  <2>1. WorkerType'
    BY <1>12, <1>f DEF EndInstruction, WorkerType
  <2>2. OutputType'
    BY <1>12, <1>f DEF EndInstruction, OutputType, WorkerType, ItemType
  <2>3. HeldCreated'
    BY <1>12, <1>f DEF EndInstruction, HeldCreated, ItemType, WorkerType, InQueue
  <2> QED
    BY <1>12, <1>f, <2>1, <2>2, <2>3, Frames DEF EndInstruction
<1>13. CASE InstructionFails
  <2>1. WorkerType'
    BY <1>13, <1>f DEF InstructionFails, RaiseAlarm, WorkerType
  <2>2. AlarmType'
    BY <1>13, <1>f DEF InstructionFails, RaiseAlarm, AlarmType, WorkerType,
       HeldCreated
  <2>3. HeldCreated'
    BY <1>13, <1>f DEF InstructionFails, RaiseAlarm, HeldCreated, ItemType,
       WorkerType, InQueue
  <2> QED
    BY <1>13, <1>f, <2>1, <2>2, <2>3, Frames DEF InstructionFails, RaiseAlarm
<1>14. CASE AnnouncePause
  <2>1. OutputType'
    BY <1>14, <1>f DEF AnnouncePause, Interruptible, OutputType, WorkerType,
       ItemType
  <2>2. HeldCreated'
    BY <1>14, <1>f DEF AnnouncePause, Interruptible, HeldCreated, ItemType,
       WorkerType, InQueue
  <2> QED
    BY <1>14, <1>f, <2>1, <2>2, Frames DEF AnnouncePause, Interruptible
<1>15. CASE Interrupted
  <2>1. WorkerType'
    BY <1>15, <1>f DEF Interrupted, Interruptible, WorkerType
  <2>2. HeldCreated'
    BY <1>15, <1>f DEF Interrupted, Interruptible, HeldCreated, ItemType,
       WorkerType, InQueue
  <2> QED
    BY <1>15, <1>f, <2>1, <2>2, Frames DEF Interrupted, Interruptible
<1>16. CASE BeginCleanup
  <2>1. ItemType'
    BY <1>16, <1>f DEF BeginCleanup, ItemType, WorkerType, HeldCreated,
       ModifierType, QueueType
  <2>2. WorkerType'
    BY <1>16, <1>f DEF BeginCleanup, WorkerType
  <2>3. HeldCreated'
    BY <1>16, <1>f DEF BeginCleanup, HeldCreated, ItemType, WorkerType, InQueue
  <2> QED
    BY <1>16, <1>f, <2>1, <2>2, <2>3, Frames DEF BeginCleanup
<1>17. CASE EndCleanup
  <2>1. WorkerType'
    BY <1>17, <1>f DEF EndCleanup, WorkerType
  <2>2. HeldCreated'
    BY <1>17, <1>f DEF EndCleanup, HeldCreated, ItemType, WorkerType, InQueue
  <2> QED
    BY <1>17, <1>f, <2>1, <2>2, Frames DEF EndCleanup
<1>18. CASE Aborted
  <2>1. WorkerType'
    BY <1>18, <1>f DEF Aborted, WorkerDies, CountsScan, WorkerType
  <2>2. OutputType'
    <3>1. scan_number' \in Nat
      BY <1>18 DEF Aborted, CountsScan, OutputType
    <3>2. published' \in [Items -> ScanStatus]
      <4> DEFINE last == IF ReturnToStart(cur) THEN "aborted" ELSE "halted"
      <4>1. published' = published \/ published' = [published EXCEPT ![scanid] = last]
        BY <1>18 DEF Aborted
      <4> QED
        BY <4>1 DEF OutputType
    <3> QED
      BY <1>18, <3>1, <3>2 DEF Aborted, OutputType
  <2>3. HeldCreated'
    BY <1>18, <1>f DEF Aborted, WorkerDies, CountsScan, HeldCreated, ItemType,
       WorkerType, InQueue
  <2>4. AlarmType'
    BY <1>18 DEF Aborted, WorkerDies, AlarmType
  <2> QED
    BY <1>18, <1>f, <2>1, <2>2, <2>3, <2>4, Frames DEF Aborted, CountsScan
<1>19. CASE StartFails
  <2>1. QueueType'
    BY <1>19 DEF StartFails, QueueType
  <2>2. WorkerType' /\ AlarmType'
    BY <1>19 DEF StartFails, WorkerDies, WorkerType, AlarmType
  <2>3. HeldCreated'
    BY <1>19, <1>f DEF StartFails, WorkerDies, HeldCreated, InQueue
  <2> QED
    BY <1>19, <1>f, <2>1, <2>2, <2>3, Frames DEF StartFails
<1> QED
  BY <1>c, <1>1, <1>2, <1>3, <1>4, <1>5, <1>6, <1>7, <1>8, <1>9, <1>10, <1>11,
     <1>12, <1>13, <1>14, <1>15, <1>16, <1>17, <1>18, <1>19 DEF Worker,
     IterateItem, WriteStatus, ExecuteInstruction, AbortItem

LEMMA InserterTInv == TInv /\ Inserter => TInv'
<1> SUFFICES ASSUME TInv, Inserter PROVE TInv'
  OBVIOUS
<1> USE DEF TInv, TypeOK
<1>f. InserterFrame
  BY DEF Inserter
<1>1. ASSUME NEW i \in Items, InsertItem(i) PROVE TInv'
  <2>1. QueueType'
    BY <1>1, <1>f DEF InsertItem, CreateItem, Fresh, InserterFrame, QueueType
  <2>2. ItemType'
    BY <1>1, <1>f, SizeAssumption DEF InsertItem, CreateItem, Fresh, InserterFrame,
       ItemType, WorkerType, HeldCreated, ModifierType, QueueType
  <2>3. InserterType'
    BY <1>1, <1>f DEF InsertItem, CreateItem, Fresh, InserterFrame, InserterType
  <2>4. HeldCreated'
    BY <1>1, <1>f, AppendAdds DEF InsertItem, CreateItem, Fresh, InserterFrame,
       HeldCreated, ItemType, WorkerType, ModifierType
  <2> QED
    BY <1>1, <1>f, <2>1, <2>2, <2>3, <2>4, Frames DEF InsertItem, CreateItem, Fresh,
       InserterFrame
<1>2. ASSUME NEW i \in Items, FindMacro(i) PROVE TInv'
  <2>1. InserterType'
    BY <1>2, <1>f DEF FindMacro, InserterFrame, InserterType
  <2>2. HeldCreated'
    BY <1>2, <1>f DEF FindMacro, InserterFrame, HeldCreated, ItemType, WorkerType,
       InQueue
  <2> QED
    BY <1>2, <1>f, <2>1, <2>2, Frames DEF FindMacro, InserterFrame
<1>3. CASE RejectScan
  <2>1. AlarmType'
    BY <1>3, <1>f DEF RejectScan, RaiseAlarm, InserterFrame, AlarmType, WorkerType,
       HeldCreated
  <2>2. InserterType'
    BY <1>3, <1>f DEF RejectScan, RaiseAlarm, InserterFrame, InserterType
  <2>3. HeldCreated'
    BY <1>3, <1>f DEF RejectScan, RaiseAlarm, InserterFrame, HeldCreated, ItemType,
       WorkerType, InQueue
  <2> QED
    BY <1>3, <1>f, <2>1, <2>2, <2>3, Frames DEF RejectScan, RaiseAlarm,
       InserterFrame
<1>4. CASE AppendClose
  <2>1. ItemType'
    BY <1>4, <1>f, ItemsAssumption DEF AppendClose, InserterFrame, ItemType,
       WorkerType, HeldCreated, ModifierType, QueueType
  <2>2. InserterType'
    BY <1>4, <1>f DEF AppendClose, InserterFrame, InserterType
  <2>3. HeldCreated'
    BY <1>4, <1>f, ItemsAssumption DEF AppendClose, InserterFrame, HeldCreated,
       ItemType, WorkerType, InQueue
  <2> QED
    BY <1>4, <1>f, <2>1, <2>2, <2>3, Frames DEF AppendClose, InserterFrame
<1>5. CASE ReceiveScan
  <2>1. InserterType'
    BY <1>5, <1>f DEF ReceiveScan, InserterFrame, InserterType
  <2>2. HeldCreated'
    BY <1>5, <1>f DEF ReceiveScan, InserterFrame, HeldCreated, ItemType, WorkerType,
       InQueue
  <2> QED
    BY <1>5, <1>f, <2>1, <2>2, Frames DEF ReceiveScan, InserterFrame
<1> QED
  BY <1>1, <1>2, <1>3, <1>4, <1>5 DEF Inserter

LEMMA ReceiveTInv == TInv /\ ReceiveModification => TInv'
<1> SUFFICES ASSUME TInv, ReceiveModification PROVE TInv'
  OBVIOUS
<1> USE DEF TInv, TypeOK
<1>f. ModifierFrame
  BY DEF ReceiveModification
<1>1. ASSUME NEW a \in Requests, NEW i \in ItemOrNone, ReceiveRequest(a, i) PROVE TInv'
  <2>1. ItemType'
    BY <1>1, <1>f DEF ReceiveRequest, ActiveScan, ModifierFrame, Modifications,
       ItemType, WorkerType, HeldCreated, ModifierType, QueueType
  <2>2. WorkerType'
    BY <1>1, <1>f DEF ReceiveRequest, ActiveScan, ModifierFrame, Modifications,
       WorkerType
  <2>3. ModifierType'
    BY <1>1, <1>f, RequestsAssumption, HeadInQueue DEF ReceiveRequest, ActiveScan,
       ModifierFrame, Modifications, ModifierType, QueueType
  <2>4. HeldCreated'
    BY <1>1, <1>f DEF ReceiveRequest, ActiveScan, ModifierFrame, Modifications,
       HeldCreated, ItemType, WorkerType, InQueue
  <2> QED
    BY <1>1, <1>f, <2>1, <2>2, <2>3, <2>4, Frames DEF ReceiveRequest, ActiveScan,
       ModifierFrame, Modifications
<1>2. CASE ReceiveAlarm
  <2>1. AlarmType'
    BY <1>2, <1>f, TailElements DEF ReceiveAlarm, ModifierFrame, Modifications,
       AlarmType, WorkerType, HeldCreated
  <2>2. WorkerType'
    BY <1>2, <1>f DEF ReceiveAlarm, ModifierFrame, Modifications, WorkerType
  <2>3. ModifierType'
    BY <1>2, <1>f, TailElements DEF ReceiveAlarm, ModifierFrame, Modifications,
       ModifierType, AlarmType
  <2>4. HeldCreated'
    BY <1>2, <1>f DEF ReceiveAlarm, ModifierFrame, Modifications, HeldCreated,
       ItemType, WorkerType, InQueue
  <2> QED
    BY <1>2, <1>f, <2>1, <2>2, <2>3, <2>4, Frames DEF ReceiveAlarm, ModifierFrame,
       Modifications
<1> QED
  BY <1>1, <1>2 DEF ReceiveModification

LEMMA ModifierTInv == ASSUME TInv, NEW m \in Modifiers, Modifier(m) PROVE TInv'
<1> USE DEF TInv, TypeOK
<1>f. ModifierFrame
  BY DEF Modifier
<1>1. CASE TestQueue(m)
  <2>1. WorkerType'
    BY <1>1, <1>f DEF TestQueue, ModifierFrame, WorkerType
  <2>2. ModifierType'
    BY <1>1, <1>f DEF TestQueue, ModifierFrame, ModifierType, QueueType
  <2>3. HeldCreated'
    BY <1>1, <1>f DEF TestQueue, ModifierFrame, HeldCreated, ItemType, WorkerType,
       InQueue
  <2> QED
    BY <1>1, <1>f, <2>1, <2>2, <2>3, Frames DEF TestQueue, ModifierFrame
<1>2. CASE SetQueueStatus(m)
  <2>1. WorkerType'
    BY <1>2, <1>f DEF SetQueueStatus, ModifierFrame, WorkerType
  <2>2. QueueType'
    BY <1>2, <1>f DEF SetQueueStatus, ModifierFrame, QueueType
  <2>3. ModifierType'
    BY <1>2, <1>f DEF SetQueueStatus, ModifierFrame, ModifierType, QueueType
  <2>4. HeldCreated'
    BY <1>2, <1>f DEF SetQueueStatus, ModifierFrame, HeldCreated, ItemType,
       WorkerType, InQueue
  <2> QED
    BY <1>2, <1>f, <2>1, <2>2, <2>3, <2>4, Frames DEF SetQueueStatus, ModifierFrame
<1>3. CASE TestLength(m)
  <2>1. WorkerType'
    BY <1>3, <1>f DEF TestLength, ModifierFrame, WorkerType
  <2>2. ModifierType'
    BY <1>3, <1>f DEF TestLength, ModifierFrame, ModifierType, QueueType
  <2>3. HeldCreated'
    BY <1>3, <1>f DEF TestLength, ModifierFrame, HeldCreated, ItemType, WorkerType,
       InQueue
  <2> QED
    BY <1>3, <1>f, <2>1, <2>2, <2>3, Frames DEF TestLength, ModifierFrame
<1>4. CASE ReadHead(m)
  <2>1. WorkerType'
    BY <1>4, <1>f DEF ReadHead, ModifierFrame, WorkerType
  <2>2. ModifierType'
    BY <1>4, <1>f, HeadInQueue DEF ReadHead, ModifierFrame, ModifierType, QueueType
  <2>3. HeldCreated'
    BY <1>4, <1>f, HeadInQueue DEF ReadHead, ModifierFrame, HeldCreated, QueueType, ItemType,
       WorkerType, InQueue, ModifierType
  <2> QED
    BY <1>4, <1>f, <2>1, <2>2, <2>3, Frames DEF ReadHead, ModifierFrame
<1>5. CASE SetItemStatus(m)
  <2>1. WorkerType'
    BY <1>5, <1>f DEF SetItemStatus, ModifierFrame, WorkerValue, WorkerType
  <2>2. ItemType'
    BY <1>5, <1>f DEF SetItemStatus, ModifierFrame, WorkerValue, ItemType,
       WorkerType, HeldCreated, ModifierType, QueueType
  <2>3. ModifierType'
    BY <1>5, <1>f DEF SetItemStatus, ModifierFrame, WorkerValue, ModifierType,
       QueueType
  <2>4. HeldCreated'
    BY <1>5, <1>f DEF SetItemStatus, ModifierFrame, WorkerValue, HeldCreated,
       ItemType, WorkerType, InQueue, ModifierType
  <2> QED
    BY <1>5, <1>f, <2>1, <2>2, <2>3, <2>4, Frames DEF SetItemStatus, ModifierFrame,
       WorkerValue
<1>6. CASE SetWorkerStatus(m)
  <2>1. WorkerType'
    BY <1>6, <1>f DEF SetWorkerStatus, ModifierFrame, WorkerValue, WorkerType
  <2>2. ModifierType'
    BY <1>6, <1>f DEF SetWorkerStatus, ModifierFrame, WorkerValue, ModifierType,
       QueueType
  <2>3. HeldCreated'
    BY <1>6, <1>f DEF SetWorkerStatus, ModifierFrame, WorkerValue, HeldCreated,
       ItemType, WorkerType, InQueue, ModifierType
  <2> QED
    BY <1>6, <1>f, <2>1, <2>2, <2>3, Frames DEF SetWorkerStatus, ModifierFrame,
       WorkerValue
<1>7. CASE Then(m)
  <2>1. WorkerType'
    BY <1>7, <1>f DEF Then, ModifierFrame, Modifications, WorkerType
  <2>2. QueueType'
    BY <1>7, <1>f, EmptySequence DEF Then, ModifierFrame, Modifications, QueueType
  <2>3. ModifierType'
    BY <1>7, <1>f DEF Then, ModifierFrame, Modifications, ModifierType, QueueType
  <2>4. HeldCreated'
    BY <1>7, <1>f DEF Then, ModifierFrame, Modifications, HeldCreated, ItemType,
       WorkerType, InQueue
  <2> QED
    BY <1>7, <1>f, <2>1, <2>2, <2>3, <2>4, Frames DEF Then, ModifierFrame,
       Modifications
<1>8. CASE ForgetActive(m)
  <2>1. WorkerType'
    BY <1>8, <1>f DEF ForgetActive, ModifierFrame, Modifications, WorkerType
  <2>2. QueueType'
    BY <1>8, <1>f DEF ForgetActive, ModifierFrame, Modifications, QueueType
  <2>3. ModifierType'
    BY <1>8, <1>f DEF ForgetActive, ModifierFrame, Modifications, ModifierType,
       QueueType
  <2>4. HeldCreated'
    BY <1>8, <1>f DEF ForgetActive, ModifierFrame, Modifications, HeldCreated,
       ItemType, WorkerType, InQueue
  <2> QED
    BY <1>8, <1>f, <2>1, <2>2, <2>3, <2>4, Frames DEF ForgetActive, ModifierFrame,
       Modifications
<1>9. CASE FoundInHistory(m)
  <2>1. WorkerType'
    BY <1>9, <1>f DEF FoundInHistory, ModifierFrame, WorkerType
  <2>2. ModifierType'
    BY <1>9, <1>f DEF FoundInHistory, ModifierFrame, ModifierType, QueueType
  <2>3. HeldCreated'
    BY <1>9, <1>f DEF FoundInHistory, ModifierFrame, HeldCreated, ItemType,
       WorkerType, InQueue
  <2> QED
    BY <1>9, <1>f, <2>1, <2>2, <2>3, Frames DEF FoundInHistory, ModifierFrame
<1>10. CASE RestartTimesOut(m)
  <2>1. WorkerType'
    BY <1>10, <1>f DEF RestartTimesOut, ModifierFrame, WorkerType
  <2>2. ModifierType'
    BY <1>10, <1>f DEF RestartTimesOut, ModifierFrame, ModifierType, QueueType
  <2>3. HeldCreated'
    BY <1>10, <1>f DEF RestartTimesOut, ModifierFrame, HeldCreated, ItemType,
       WorkerType, InQueue
  <2> QED
    BY <1>10, <1>f, <2>1, <2>2, <2>3, Frames DEF RestartTimesOut, ModifierFrame
<1>11. CASE Reinsert(m)
  <2>1. WorkerType'
    BY <1>11, <1>f DEF Reinsert, ModifierFrame, CreateItem, Fresh, Modifications,
       WorkerType
  <2>2. QueueType'
    BY <1>11, <1>f, InsertAdds DEF Reinsert, ModifierFrame, CreateItem, Fresh,
       Modifications, QueueType
  <2>3. ItemType'
    BY <1>11, <1>f, SizeAssumption DEF Reinsert, ModifierFrame, CreateItem, Fresh,
       Modifications, ItemType, WorkerType, HeldCreated, ModifierType, QueueType
  <2>4. ModifierType'
    BY <1>11, <1>f DEF Reinsert, ModifierFrame, CreateItem, Fresh, Modifications,
       ModifierType, QueueType
  <2>5. HeldCreated'
    <3>1. PICK i \in Items : /\ queue' = <<i>> \o queue
                             /\ istatus' = [istatus EXCEPT ![i] = "PENDING"]
      BY <1>11 DEF Reinsert, CreateItem, Fresh
    <3>2. \A j \in Items : Created(j) \/ j = i => Created(j)'
      BY <3>1 DEF ItemType
    <3>3. \A j \in Items : InQueue(j)' => Created(j)'
      BY <3>1, <3>2, InsertAdds DEF HeldCreated
    <3> QED
      BY <1>11, <1>f, <3>2, <3>3, ItemsAssumption DEF Reinsert, ModifierFrame, HeldCreated, QueueType,
         WorkerType, ModifierType
  <2> QED
    BY <1>11, <1>f, <2>1, <2>2, <2>3, <2>4, <2>5, Frames DEF Reinsert,
       ModifierFrame, CreateItem, Fresh, Modifications
<1> QED
  BY <1>1, <1>2, <1>3, <1>4, <1>5, <1>6, <1>7, <1>8, <1>9, <1>10, <1>11 DEF
     Modifier, SetStatus, Restart

LEMMA NextTInv == TInv /\ [Next]_vars => TInv'
<1> SUFFICES ASSUME TInv, [Next]_vars PROVE TInv'
  OBVIOUS
<1>1. CASE UNCHANGED vars
  BY <1>1, Frames DEF vars, TInv, TypeOK, HeldCreated, InQueue
<1> QED
  BY <1>1, WorkerTInv, InserterTInv, ReceiveTInv, ModifierTInv DEF Next

\* Every variable keeps its type and no thread ever holds anything but an item that
\* was created: the deque of ScanQueue never contains a None.
THEOREM TypeCorrect == Spec => [](TypeOK /\ HeldCreated)
<1>1. TInv => TypeOK /\ HeldCreated
  BY DEF TInv
<1> QED
  BY <1>1, InitTInv, NextTInv, PTL DEF Spec

-----------------------------------------------------------------------------
(* What the worker alone is responsible for, whatever the consumers do. An  *)
(* item whose instructions it handles has an active request block; ...      *)

HasBlock == \/ wpc \in {"activate", "check", "exec", "abortion", "cleanup", "aborted"}
            \/ wpc \in {"item", "worker", "publish"} /\ wval = "RUNNING"
BlockInv == HasBlock => cur \in blocks

\* ... what it processes is what it started last; ...
RecordInv == /\ RecordsFollowStarts
             /\ wpc \in Processing => history # <<>> /\ history[Len(history)] = cur

\* ... its scanID is that of its item; ...
ScanidInv == scanid \in (IF wpc \in Processing THEN {NoItem, cur} ELSE {NoItem})

\* ... and a scan number is used up before anybody else can take it: the scan that holds
\* the present one is the worker's, and its block, which counts when it ends, is still
\* there. (A scan definition that is aborted before it was closed does not count.)
Plain == Items \ Macros
Unfinished == /\ wpc \in Processing
              /\ wpc \in {"item", "worker", "publish"} => wval = "RUNNING"
Holds(i) == wpc = "dead" \/ (i = cur /\ Unfinished /\ i \in blocks)
NumberInv ==
  \A i \in Plain : /\ number[i] <= scan_number
                   /\ number[i] = scan_number => Holds(i)
                   /\ \A j \in Plain : i # j /\ number[i] # 0 => number[i] # number[j]

PInv == BlockInv /\ RecordInv /\ ScanidInv /\ NumberInv

processed == <<wpc, wval, cur, scanid, blocks, history, records, number, scan_number>>

LEMMA InitPInv == Init => PInv
  BY DEF Init, PInv, BlockInv, HasBlock, RecordInv, RecordsFollowStarts, ScanidInv, NumberInv, Plain

\* The consumers leave all of that alone.
LEMMA ConsumersLeave ==
  ASSUME Inserter \/ ReceiveModification \/ \E m \in Modifiers : Modifier(m)
  PROVE  UNCHANGED processed
<1> USE DEF processed
<1>1. CASE Inserter
  BY <1>1 DEF Inserter, InserterFrame, ReceiveScan, InsertItem, CreateItem, FindMacro, RejectScan, AppendClose
<1>2. CASE ReceiveModification
  BY <1>2 DEF ReceiveModification, ModifierFrame, ReceiveRequest, ReceiveAlarm
<1>3. ASSUME NEW m \in Modifiers, Modifier(m) PROVE UNCHANGED processed
  BY <1>3 DEF Modifier, ModifierFrame, SetStatus, TestQueue, SetQueueStatus, TestLength, ReadHead, SetItemStatus,
     SetWorkerStatus, Then, ForgetActive, Restart, FoundInHistory, RestartTimesOut, Reinsert, CreateItem
<1> QED
  BY <1>1, <1>2, <1>3

LEMMA ProcessedFrame == ASSUME PInv, UNCHANGED processed PROVE PInv'
<1> USE DEF processed
<1>1. BlockInv' /\ RecordInv' /\ ScanidInv'
  BY DEF PInv, BlockInv, HasBlock, RecordInv, RecordsFollowStarts, ScanidInv
<1>2. NumberInv'
  BY DEF PInv, NumberInv, Holds, Unfinished
<1> QED
  BY <1>1, <1>2 DEF PInv

LEMMA ChoosingLeaves == ASSUME Worker, ChooseItem PROVE UNCHANGED <<itemVars, outputVars>>
<1>1. UNCHANGED itemVars /\ wpc \in Choosing
  BY DEF ChooseItem, LoopHead, Pop, PopPublished, Look, WhilePaused, Resume, ResumePublished, Take,
     RecordStart
<1>2. UNCHANGED outputVars
  BY <1>1 DEF Worker, StartFails, IterateItem, Fetch, Exhaust, Spin, Finish, FetchFails, SetActive, WriteStatus,
     WriteItemStatus, WriteOwnStatus, ActivePublished, Report, ExecuteInstruction, BeginInstruction,
     EndInstruction, InstructionFails, AnnouncePause, Interrupted, Interruptible, AbortItem,
     BeginCleanup, EndCleanup, Aborted
<1> QED
  BY <1>1, <1>2

\* Choosing an item disturbs nothing of what was processed before.
LEMMA ChoosingSteps ==
  ASSUME ChooseItem
  PROVE  /\ wpc \in Choosing /\ UNCHANGED <<scanid, wval>>
         /\ \/ wpc' \in Choosing /\ UNCHANGED <<history, cur>>
            \/ wpc' = "fetch" /\ cur' = active /\ history' = Append(history, active)
  BY DEF ChooseItem, LoopHead, Pop, PopPublished, Look, WhilePaused, Resume, ResumePublished, Take,
     RecordStart

LEMMA WorkerBlocks == ASSUME TInv, PInv, Worker PROVE BlockInv'
<1> USE DEF PInv, BlockInv, HasBlock, TInv, TypeOK, ItemType, HeldCreated
<1>1. CASE ChooseItem
  BY <1>1, ChoosingSteps
<1>2. CASE StartFails
  BY <1>2 DEF StartFails, WorkerDies
<1>3. CASE IterateItem
  BY <1>3 DEF IterateItem, Fetch, Exhaust, Spin, Finish, FetchFails, SetActive
<1>4. CASE WriteStatus
  BY <1>4 DEF WriteStatus, WriteItemStatus, WriteOwnStatus, ActivePublished, Report
<1>5. CASE ExecuteInstruction
  BY <1>5 DEF ExecuteInstruction, BeginInstruction, EndInstruction, InstructionFails, AnnouncePause,
     Interrupted, Interruptible
<1>6. CASE AbortItem
  BY <1>6 DEF AbortItem, BeginCleanup, EndCleanup, Aborted, WorkerDies
<1> QED
  BY <1>1, <1>2, <1>3, <1>4, <1>5, <1>6 DEF Worker

LEMMA WorkerScanid == ASSUME TInv, PInv, Worker PROVE ScanidInv'
<1> USE DEF PInv, ScanidInv
<1>1. CASE ChooseItem
  BY <1>1, ChoosingSteps
<1>2. CASE StartFails
  BY <1>2 DEF StartFails, WorkerDies
<1>3. CASE IterateItem
  BY <1>3 DEF IterateItem, Fetch, Exhaust, Spin, Finish, FetchFails, SetActive
<1>4. CASE WriteStatus
  BY <1>4 DEF WriteStatus, WriteItemStatus, WriteOwnStatus, ActivePublished, Report
<1>5. CASE ExecuteInstruction
  BY <1>5 DEF ExecuteInstruction, BeginInstruction, EndInstruction, InstructionFails, AnnouncePause,
     Interrupted, Interruptible
<1>6. CASE AbortItem
  BY <1>6 DEF AbortItem, BeginCleanup, EndCleanup, Aborted, WorkerDies
<1> QED
  BY <1>1, <1>2, <1>3, <1>4, <1>5, <1>6 DEF Worker

LEMMA WorkerRecords == ASSUME TInv, PInv, Worker PROVE RecordInv'
<1> USE DEF PInv, RecordInv, RecordsFollowStarts
<1>q. /\ history \in Seq(ItemOrNone) /\ Len(history) \in Nat /\ active \in ItemOrNone
      /\ records \in Seq([item : ItemOrNone, status : ItemStatus]) /\ Len(records) \in Nat
  BY DEF TInv, TypeOK, QueueType, OutputType
<1>a. ASSUME history' = Append(history, active)
      PROVE  /\ Len(history') = Len(history) + 1 /\ history'[Len(history')] = active
             /\ \A k \in 1..Len(history) : history'[k] = history[k]
  BY <1>q, <1>a
<1>1. CASE ChooseItem
  <2>1. UNCHANGED records
    BY <1>1, ChoosingLeaves
  <2>2. CASE wpc' \in Choosing /\ UNCHANGED <<history, cur>>
    BY <1>1, <2>1, <2>2, ChoosingSteps
  <2>3. CASE wpc' = "fetch" /\ cur' = active /\ history' = Append(history, active)
    <3>1. Len(history) = Len(records) /\ \A k \in 1..Len(records) : records[k].item = history[k]
      BY <1>1, ChoosingSteps, <1>q
    <3>2. history' # <<>>
      BY <1>q, <2>3
    <3> QED
      BY <1>q, <1>a, <2>1, <2>3, <3>1, <3>2
  <2> QED
    BY <1>1, <2>2, <2>3, ChoosingSteps
<1>2. CASE StartFails
  <2>1. history' = Append(history, active) /\ UNCHANGED records /\ wpc = "record" /\ wpc' = "dead"
    BY <1>2 DEF StartFails, WorkerDies
  <2>2. Len(history) = Len(records) /\ \A k \in 1..Len(records) : records[k].item = history[k]
    BY <1>q, <2>1
  <2> QED
    BY <1>q, <1>a, <2>1, <2>2
<1>3. CASE Report
  <2>1. /\ wpc = "publish" /\ wpc' = "head" /\ UNCHANGED history
        /\ records' = Append(records, [item |-> cur, status |-> istatus[cur]])
    BY <1>3 DEF Report
  <2>2. /\ Len(records') = Len(records) + 1
        /\ \A k \in 1..Len(records) : records'[k] = records[k]
        /\ records'[Len(records) + 1].item = cur
    BY <1>q, <2>1
  <2>3. Len(history) = Len(records) + 1 /\ history[Len(records) + 1] = cur
    BY <1>q, <2>1
  <2> QED
    BY <1>q, <2>1, <2>2, <2>3
<1>4. CASE ~ChooseItem /\ ~StartFails /\ ~Report
  <2>1. /\ wpc \in Processing /\ wpc' \in Processing \cup {"dead"}
        /\ UNCHANGED <<history, records, cur>>
    <3>1. CASE IterateItem
      BY <3>1 DEF IterateItem, Fetch, Exhaust, Spin, Finish, FetchFails, SetActive
    <3>2. CASE WriteStatus
      BY <1>4, <3>2 DEF WriteStatus, WriteItemStatus, WriteOwnStatus, ActivePublished
    <3>3. CASE ExecuteInstruction
      BY <3>3 DEF ExecuteInstruction, BeginInstruction, EndInstruction, InstructionFails, AnnouncePause,
         Interrupted, Interruptible
    <3>4. CASE AbortItem
      BY <3>4 DEF AbortItem, BeginCleanup, EndCleanup, Aborted, WorkerDies
    <3> QED
      BY <1>4, <3>1, <3>2, <3>3, <3>4 DEF Worker
  <2> QED
    BY <2>1
<1> QED
  BY <1>1, <1>2, <1>3, <1>4

\* A step that neither opens nor ends a scan keeps the numbers, if the scan that holds
\* the present one goes on with it.
LEMMA NumbersStay ==
  ASSUME TInv, NumberInv, UNCHANGED <<number, scan_number>>,
         \A i \in Plain : Holds(i) /\ number[i] = scan_number => Holds(i)'
  PROVE  NumberInv'
  BY DEF NumberInv

\* A number that was used up is held by nobody.
LEMMA NumbersGrow ==
  ASSUME TInv, NumberInv, UNCHANGED number, scan_number' = scan_number + 1
  PROVE  NumberInv'
  BY DEF NumberInv, Plain, TInv, TypeOK, OutputType

LEMMA WorkerNumbers == ASSUME TInv, PInv, Worker PROVE NumberInv'
<1> USE DEF PInv
<1>c. ASSUME NEW i \in Plain, i = cur PROVE CountsScan(cur)
  BY <1>c DEF Plain, CountsScan
<1>1. CASE ChooseItem
  BY <1>1, ChoosingSteps, ChoosingLeaves, NumbersStay DEF Holds, Unfinished
<1>2. CASE StartFails
  BY <1>2, NumbersStay DEF StartFails, WorkerDies, Holds, Unfinished
<1>3. CASE IterateItem
  <2>1. CASE Exhaust
    <3>1. CASE CountsScan(cur)
      BY <2>1, <3>1, NumbersGrow DEF Exhaust, TInv, TypeOK, OutputType
    <3>2. CASE ~CountsScan(cur)
      BY <1>c, <2>1, <3>2, NumbersStay DEF Exhaust, TInv, TypeOK, OutputType, Holds, Unfinished
    <3> QED
      BY <3>1, <3>2
  <2>2. CASE Fetch \/ Spin \/ Finish \/ FetchFails \/ SetActive
    BY <2>2, NumbersStay DEF Fetch, Spin, Finish, FetchFails, SetActive, Holds, Unfinished
  <2> QED
    BY <1>3, <2>1, <2>2 DEF IterateItem
<1>4. CASE WriteStatus
  BY <1>4, NumbersStay DEF WriteStatus, WriteItemStatus, WriteOwnStatus, ActivePublished, Report, Holds, Unfinished
<1>5. CASE ExecuteInstruction
  <2>1. CASE EndInstruction /\ Opens
    <3>1. /\ cur \in Items /\ cur \in blocks /\ wpc = "exec" /\ wpc' = "fetch"
          /\ number' = [number EXCEPT ![cur] = scan_number]
          /\ UNCHANGED <<scan_number, cur, blocks>>
      BY <2>1 DEF EndInstruction, BlockInv, HasBlock, TInv, HeldCreated
    <3>2. \A i \in Plain : i # cur => number[i] < scan_number
      BY <3>1 DEF NumberInv, Plain, Holds, TInv, TypeOK, OutputType
    <3>3. Holds(cur)'
      BY <3>1 DEF Holds, Unfinished
    <3>4. \A i \in Plain : number'[i] = IF i = cur THEN scan_number ELSE number[i]
      BY <3>1 DEF Plain, TInv, TypeOK, OutputType
    <3>5. scan_number \in Nat /\ \A i \in Plain : number[i] \in Nat
      BY DEF Plain, TInv, TypeOK, OutputType
    <3>6. \A i \in Plain : /\ number'[i] <= scan_number'
                           /\ number'[i] = scan_number' => i = cur
      BY <3>1, <3>2, <3>4, <3>5
    <3>7. ASSUME NEW i \in Plain, NEW j \in Plain, i # j, number'[i] # 0
          PROVE  number'[i] # number'[j]
      BY <3>2, <3>4, <3>5, <3>7 DEF NumberInv
    <3> QED
      BY <3>1, <3>3, <3>6, <3>7 DEF NumberInv
  <2>2. CASE EndInstruction /\ ~Opens
    BY <2>2, NumbersStay DEF EndInstruction, Holds, Unfinished
  <2>3. CASE BeginInstruction \/ InstructionFails \/ AnnouncePause \/ Interrupted
    BY <2>3, NumbersStay DEF BeginInstruction, InstructionFails, AnnouncePause, Interrupted, Interruptible,
       Holds, Unfinished
  <2> QED
    BY <1>5, <2>1, <2>2, <2>3 DEF ExecuteInstruction
<1>6. CASE AbortItem
  <2>1. CASE Aborted
    <3>1. cur \in blocks /\ UNCHANGED number
          /\ scan_number' = scan_number + (IF CountsScan(cur) THEN 1 ELSE 0)
      BY <2>1 DEF Aborted, BlockInv, HasBlock
    <3>2. CASE CountsScan(cur)
      BY <3>1, <3>2, NumbersGrow DEF TInv, TypeOK, OutputType
    <3>3. CASE ~CountsScan(cur)
      BY <1>c, <2>1, <3>1, <3>3, NumbersStay DEF Aborted, TInv, TypeOK, OutputType, Holds, Unfinished
    <3> QED
      BY <3>2, <3>3
  <2>2. CASE BeginCleanup \/ EndCleanup
    BY <2>2, NumbersStay DEF BeginCleanup, EndCleanup, Holds, Unfinished
  <2> QED
    BY <1>6, <2>1, <2>2 DEF AbortItem
<1> QED
  BY <1>1, <1>2, <1>3, <1>4, <1>5, <1>6 DEF Worker

LEMMA NextPInv == ASSUME TInv, PInv, [Next]_vars PROVE PInv'
<1>1. CASE UNCHANGED vars
  BY <1>1, ProcessedFrame DEF vars, processed
<1>2. CASE Worker
  BY <1>2, WorkerBlocks, WorkerScanid, WorkerRecords, WorkerNumbers DEF PInv
<1> QED
  BY <1>1, <1>2, ConsumersLeave, ProcessedFrame DEF Next

LEMMA ProcessingInvariance == Spec => [](TInv /\ PInv)
<1>1. Init => TInv /\ PInv
  BY InitTInv, InitPInv
<1>2. TInv /\ PInv /\ [Next]_vars => (TInv /\ PInv)'
  BY NextTInv, NextPInv
<1> QED
  BY <1>1, <1>2, PTL DEF Spec

\* Cleared, restarted or interrupted: scan_queue_history in redis has one record of each
\* start, in their order, and lacks only the one in progress or that ended the thread.
THEOREM RecordsEveryStart == Spec => []RecordsFollowStarts
<1>1. PInv => RecordsFollowStarts
  BY DEF PInv, RecordInv
<1> QED
  BY <1>1, ProcessingInvariance, PTL

\* Two scans that are not scan definitions never have the same scan number, so without
\* definitions no two scans have.
THEOREM NumbersAreUnique ==
  /\ Spec => [](\A i, j \in Plain : i # j /\ number[i] # 0 => number[i] # number[j])
  /\ Macros = {} => (Spec => []UniqueScanNumbers)
<1>1. PInv => \A i, j \in Plain : i # j /\ number[i] # 0 => number[i] # number[j]
  BY DEF PInv, NumberInv
<1>2. Spec => [](\A i, j \in Plain : i # j /\ number[i] # 0 => number[i] # number[j])
  BY <1>1, ProcessingInvariance, PTL
<1>3. ASSUME Macros = {} PROVE Spec => []UniqueScanNumbers
  <2>1. PInv => UniqueScanNumbers
    BY <1>1, <1>3 DEF Plain, UniqueScanNumbers
  <2> QED
    BY <2>1, ProcessingInvariance, PTL
<1> QED
  BY <1>2, <1>3
=============================================================================
