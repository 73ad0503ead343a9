----------------------------- MODULE ScanQueue -----------------------------
(***************************************************************************)
(* One queue of the scan server: the QueueManager, its ScanQueue, the      *)
(* InstructionQueueItems in it and the ScanWorker that processes them      *)
(* (scan_server/scan_server/scan_queue.py and scan_worker.py).             *)
(*                                                                         *)
(* Four threads share that state:                                          *)
(*   - the worker, which takes items from the head of the queue;           *)
(*   - the scan_queue_insert consumer, which appends items;                *)
(*   - the scan_queue_modification consumer, which pauses, continues,      *)
(*     aborts, clears and restarts under the manager's RLock;              *)
(*   - the alarm consumer, which aborts WITHOUT that lock.                 *)
(* A step is one access to the shared state, so everything that may        *)
(* happen between a test and the write that relies on it does happen.      *)
(*                                                                         *)
(* An item is abstracted to the number of device instructions it has left. *)
(* Its first instruction opens the scan and its last one closes it.        *)
(***************************************************************************)
EXTENDS Naturals, Sequences, FiniteSets

CONSTANTS
  Items,        (* InstructionQueueItems, each created at most once.         *)
  Macros,       (* The items that an open_scan_def request starts.           *)
  Returning,    (* The items whose scan has return_to_start_after_abort.     *)
  NoItem,       (* Python's None.                                            *)
  Size,         (* Instructions of a request.                                *)
  Requests,     (* The modifications that clients send.                      *)
  MaxRequests,  (* Bounds the modification messages.                         *)
  MaxAlarms,    (* Bounds the alarms of severity MAJOR.                      *)
  Timeouts      (* Whether the 10 s of a restart may run out.                *)

Modifications == {"pause", "deferred_pause", "continue", "abort", "halt",
                  "clear", "restart"}

ASSUME ItemsAssumption == /\ NoItem \notin Items
                          /\ Macros \subseteq Items
                          /\ Returning \subseteq Items
ASSUME SizeAssumption == Size \in Nat /\ Size >= 2
ASSUME RequestsAssumption == Requests \subseteq Modifications
ASSUME BoundsAssumption == MaxRequests \in Nat /\ MaxAlarms \in Nat
ASSUME TimeoutsAssumption == Timeouts \in BOOLEAN

VARIABLES
  \* ScanQueue
  queue,        (* deque of items; the worker's item stays at its head       *)
  qstatus,      (* ScanQueueStatus                                           *)
  active,       (* active_instruction_queue                                  *)
  history,      (* history_queue: the items in the order they were started   *)
  \* InstructionQueueItem
  istatus,      (* _status of each item, "NONE" before it is created         *)
  left,         (* instructions the item has not yet handed out              *)
  macro,        (* items whose scan_def_ids is not empty                     *)
  closing,      (* items to which the close_scan_def request was appended    *)
  blocks,       (* items whose active_rb is not None                         *)
  halted,       (* items whose return_to_start was set to False              *)
  stopped,      (* items with stopped = True: their clean-up was begun       *)
  \* ScanWorker
  wpc,          (* the worker's program counter                              *)
  wstatus,      (* ScanWorker.status                                         *)
  wval,         (* the status the worker is about to write                   *)
  cur,          (* the item it processes                                     *)
  scanid,       (* current_scanID                                            *)
  \* the consumers
  ipc,          (* the insert consumer's program counter                     *)
  inserting,    (* the macro it found for a close request                    *)
  mpc,          (* program counters of the modification and alarm consumers  *)
  act,          (* the modification each of them carries out                 *)
  target,       (* the item whose status it is setting                       *)
  named,        (* the item that the restart in progress is about            *)
  lock,         (* holder of QueueManager._lock                              *)
  requests,     (* modification messages received so far                     *)
  alarms,       (* alarms raised and not yet received                        *)
  raised,       (* alarms raised so far                                      *)
  \* what the outside sees
  scan_number,  (* the counter in redis                                      *)
  number,       (* scan number published when an item's scan was opened      *)
  published,    (* last scan status published for an item                    *)
  records       (* scan_queue_history in redis                               *)

queueVars == <<queue, qstatus, active, history>>
itemVars == <<istatus, left, macro, closing, blocks, halted, stopped>>
workerVars == <<wpc, wstatus, wval, cur, scanid>>
modifierVars == <<mpc, act, target, named, requests>>
alarmVars == <<alarms, raised>>
outputVars == <<scan_number, number, published, records>>
inserterVars == <<ipc, inserting>>
vars == <<queueVars, itemVars, workerVars, inserterVars, modifierVars, lock,
          alarmVars, outputVars>>

-----------------------------------------------------------------------------

QueueStatus == {"PAUSED", "RUNNING"}
ItemStatus == {"STOPPED", "PENDING", "PAUSED", "DEFERRED_PAUSE", "RUNNING",
               "COMPLETED"}
ScanStatus == {"none", "open", "paused", "closed", "aborted", "halted"}
Modifiers == {"modification", "alarm"}
ItemOrNone == Items \cup {NoItem}

\* The worker is inside ScanQueue.__next__ ...
Choosing == {"head", "pop", "popped", "look", "paused", "resume", "resumed",
             "take", "record"}
\* ... or between there and the record it leaves of the item.
Processing == {"fetch", "activate", "check", "exec", "abortion", "cleanup",
               "aborted", "item", "worker", "publish"}

\* A consumer between two messages, in the setters, or in a restart.
ModifierSteps == {"idle", "queue", "status", "publish", "length", "head", "item",
                  "worker", "then", "forget", "history", "again", "dead"}

Created(i) == istatus[i] # "NONE"
Fresh == {i \in Items : ~Created(i)}
InQueue(i) == \E k \in 1..Len(queue) : queue[k] = i
Started(i) == \E k \in 1..Len(history) : history[k] = i
ReturnToStart(i) == i \in Returning /\ i \notin halted /\ i \in blocks

\* send_queue_status takes the lock for an instant; an RLock lets its holder in.
CanPublish(thread) == lock \in {"free", thread}

QueueType == /\ queue \in Seq(Items) /\ qstatus \in QueueStatus
             /\ active \in ItemOrNone /\ history \in Seq(ItemOrNone)
ItemType == /\ istatus \in [Items -> ItemStatus \cup {"NONE"}]
            /\ left \in [Items -> Nat]
            /\ macro \subseteq Macros /\ closing \subseteq Macros
            /\ blocks \subseteq Items /\ halted \subseteq Items /\ stopped \subseteq Items
WorkerType == /\ wpc \in Choosing \cup Processing \cup {"dead"}
              /\ wstatus \in ItemStatus \cup {"IDLE"}
              /\ wval \in {"RUNNING", "COMPLETED", "STOPPED"}
              /\ cur \in ItemOrNone /\ scanid \in ItemOrNone
ModifierType == /\ mpc \in [Modifiers -> ModifierSteps]
                /\ act \in [Modifiers -> Modifications \cup {"none"}]
                /\ target \in [Modifiers -> ItemOrNone]
                /\ named \in ItemOrNone
                /\ requests \in Nat
AlarmType == alarms \in Nat /\ raised \in Nat
OutputType == /\ scan_number \in Nat
              /\ number \in [Items -> Nat]
              /\ published \in [Items -> ScanStatus]
              /\ records \in Seq([item : ItemOrNone, status : ItemStatus])

InserterType == ipc \in {"idle", "insert", "append"} /\ inserting \in ItemOrNone

TypeOK == /\ QueueType /\ ItemType /\ WorkerType /\ InserterType
          /\ ModifierType /\ lock \in {"free", "modification"}
          /\ AlarmType /\ OutputType

\* Whatever a thread has in its hands was created.
HeldCreated ==
  /\ \A i \in Items : InQueue(i) => Created(i)
  /\ active # NoItem => Created(active)
  /\ wpc \in Processing => cur \in Items /\ Created(cur)
  /\ ipc = "append" => inserting \in Macros /\ Created(inserting)
  /\ \A m \in Modifiers : target[m] # NoItem => Created(target[m])

Init ==
  /\ queue = <<>> /\ qstatus = "RUNNING" /\ active = NoItem /\ history = <<>>
  /\ istatus = [i \in Items |-> "NONE"]
  /\ left = [i \in Items |-> 0]
  /\ macro = {} /\ closing = {} /\ blocks = {} /\ halted = {} /\ stopped = {}
  /\ wpc = "head" /\ wstatus = "IDLE" /\ wval = "RUNNING"
  /\ cur = NoItem /\ scanid = NoItem
  /\ ipc = "idle" /\ inserting = NoItem
  /\ mpc = [m \in Modifiers |-> "idle"]
  /\ act = [m \in Modifiers |-> "none"]
  /\ target = [m \in Modifiers |-> NoItem]
  /\ named = NoItem
  /\ lock = "free"
  /\ requests = 0 /\ alarms = 0 /\ raised = 0
  /\ scan_number = 1 /\ number = [i \in Items |-> 0]
  /\ published = [i \in Items |-> "none"]
  /\ records = <<>>

-----------------------------------------------------------------------------
(* The worker in ScanQueue.__next__                                         *)

Goto(from, to) == wpc = from /\ wpc' = to

\* The item the worker last took is still in the queue and has to go.
LoopHead ==
  /\ wpc = "head"
  /\ wpc' = IF active # NoItem /\ queue # <<>> THEN "pop" ELSE "look"
  /\ UNCHANGED <<queueVars, itemVars, wstatus, wval, cur, scanid>>

\* Mutant of Pop: pop() for popleft().
PopLast ==
  /\ wpc = "pop"
  /\ IF queue = <<>> THEN wpc' = "head" /\ UNCHANGED queue
                    ELSE wpc' = "popped" /\ queue' = SubSeq(queue, 1, Len(queue) - 1)
  /\ UNCHANGED <<qstatus, active, history, itemVars, wstatus, wval, cur, scanid>>

\* popleft, which raises the IndexError that __next__ catches when a clear was
\* faster.
Pop ==
  /\ wpc = "pop"
  /\ IF queue = <<>> THEN wpc' = "head" /\ UNCHANGED queue
                    ELSE wpc' = "popped" /\ queue' = Tail(queue)
  /\ UNCHANGED <<qstatus, active, history, itemVars, wstatus, wval, cur, scanid>>

PopPublished ==
  /\ CanPublish("worker")
  /\ Goto("popped", "look")
  /\ UNCHANGED <<queueVars, itemVars, wstatus, wval, cur, scanid>>

\* Mutant of Look: the reset of active_instruction_queue is missing.
LookKeepsActive ==
  /\ wpc = "look"
  /\ wpc' = IF qstatus = "PAUSED" THEN "paused" ELSE IF queue = <<>> THEN "head" ELSE "take"
  /\ UNCHANGED <<queueVars, itemVars, wstatus, wval, cur, scanid>>

Look ==
  /\ wpc = "look"
  /\ IF qstatus = "PAUSED" THEN wpc' = "paused" /\ UNCHANGED active
     ELSE IF queue = <<>>  THEN wpc' = "head" /\ active' = NoItem
                           ELSE wpc' = "take" /\ UNCHANGED active
  /\ UNCHANGED <<queue, qstatus, history, itemVars, wstatus, wval, cur, scanid>>

\* One turn of the loop that sleeps while the queue is paused.
WhilePaused ==
  /\ wpc = "paused"
  /\ wpc' = IF qstatus # "PAUSED" THEN "take"
            ELSE IF queue = <<>> THEN "resume" ELSE "paused"
  /\ UNCHANGED <<queueVars, itemVars, wstatus, wval, cur, scanid>>

\* "we don't need to pause if there is no scan enqueued"
Resume ==
  /\ Goto("resume", "resumed")
  /\ qstatus' = "RUNNING"
  /\ UNCHANGED <<queue, active, history, itemVars, wstatus, wval, cur, scanid>>

ResumePublished ==
  /\ CanPublish("worker")
  /\ Goto("resumed", "paused")
  /\ UNCHANGED <<queueVars, itemVars, wstatus, wval, cur, scanid>>

\* queue[0]; the IndexError of an empty queue leads back to the loop head and
\* leaves active_instruction_queue as it was.
Take ==
  /\ wpc = "take"
  /\ IF queue = <<>> THEN wpc' = "head" /\ UNCHANGED active
                    ELSE wpc' = "record" /\ active' = Head(queue)
  /\ UNCHANGED <<queue, qstatus, history, itemVars, wstatus, wval, cur, scanid>>

\* __next__ returns active_instruction_queue.
RecordStart ==
  /\ Goto("record", "fetch")
  /\ active # NoItem
  /\ history' = Append(history, active)
  /\ cur' = active
  /\ UNCHANGED <<queue, qstatus, active, itemVars, wstatus, wval, scanid>>

\* The last resort of run: what is not a ScanAbortion ends the thread with an alarm.
WorkerDies == /\ wpc' = "dead" /\ scanid' = NoItem
              /\ alarms' = alarms + 1 /\ raised' = raised + 1

\* When a clear has reset active_instruction_queue in between, __next__ returns None
\* and _process_instructions fails on it.
StartFails ==
  /\ wpc = "record" /\ active = NoItem
  /\ WorkerDies
  /\ history' = Append(history, NoItem)
  /\ UNCHANGED <<queue, qstatus, active, itemVars, wstatus, wval, cur, outputVars>>

ChooseItem == LoopHead \/ Pop \/ PopPublished \/ Look \/ WhilePaused \/ Resume
              \/ ResumePublished \/ Take \/ RecordStart

-----------------------------------------------------------------------------
(* The worker in InstructionQueueItem.__next__                              *)

\* The next instruction; handing out close_scan_def closes the scan macro.
Fetch ==
  /\ Goto("fetch", "activate")
  /\ left[cur] > 0
  /\ left' = [left EXCEPT ![cur] = @ - 1]
  /\ blocks' = blocks \cup {cur}
  /\ macro' = IF left[cur] = 1 /\ cur \in closing THEN macro \ {cur} ELSE macro
  /\ UNCHANGED <<queueVars, istatus, closing, halted, stopped, wstatus, wval, cur,
                 scanid, alarmVars, outputVars>>

\* The request block is exhausted: increase_scan_number, active_rb = None.
CountsScan(i) == i \notin Macros \/ (i \in closing /\ left[i] = 0)
Exhaust ==
  /\ wpc = "fetch" /\ left[cur] = 0 /\ cur \in blocks
  /\ blocks' = blocks \ {cur}
  /\ scan_number' = scan_number + (IF CountsScan(cur) THEN 1 ELSE 0)
  /\ UNCHANGED <<queueVars, istatus, left, macro, closing, halted, stopped,
                 workerVars, alarmVars, number, published, records>>

\* Nothing left but an open macro, or the item is PAUSED: __next__ returns None
\* and the worker asks again, without looking at its own status.
Spin ==
  /\ wpc = "fetch" /\ left[cur] = 0 /\ cur \notin blocks
  /\ cur \in macro \/ istatus[cur] = "PAUSED"
  /\ UNCHANGED <<queueVars, itemVars, workerVars, alarmVars, outputVars>>

\* Mutant of Finish: scan_macros_complete is not consulted.
FinishOpenMacro ==
  /\ Goto("fetch", "item")
  /\ left[cur] = 0 /\ cur \notin blocks /\ istatus[cur] # "PAUSED"
  /\ wval' = "COMPLETED"
  /\ UNCHANGED <<queueVars, itemVars, wstatus, cur, scanid, alarmVars, outputVars>>

\* Mutant of Finish: only a RUNNING item may finish.
FinishRunning ==
  /\ Goto("fetch", "item")
  /\ left[cur] = 0 /\ cur \notin blocks
  /\ cur \notin macro /\ istatus[cur] = "RUNNING"
  /\ wval' = "COMPLETED"
  /\ UNCHANGED <<queueVars, itemVars, wstatus, cur, scanid, alarmVars, outputVars>>

Finish ==
  /\ Goto("fetch", "item")
  /\ left[cur] = 0 /\ cur \notin blocks
  /\ cur \notin macro /\ istatus[cur] # "PAUSED"
  /\ wval' = "COMPLETED"
  /\ UNCHANGED <<queueVars, itemVars, wstatus, cur, scanid, alarmVars, outputVars>>

RaiseAlarm == /\ raised < MaxAlarms /\ raised' = raised + 1
              /\ alarms' = alarms + 1

\* The scan raises: a limit violation or any other exception becomes an alarm
\* and a ScanAbortion. The single instruction of a close_scan_def cannot fail.
FetchFails ==
  /\ Goto("fetch", "abortion")
  /\ left[cur] > (IF cur \in closing THEN 1 ELSE 0)
  /\ RaiseAlarm
  /\ blocks' = blocks \cup {cur}
  /\ UNCHANGED <<queueVars, istatus, left, macro, closing, halted, stopped,
                 wstatus, wval, cur, scanid, outputVars>>

\* set_active: the test, then the status setter.
SetActive ==
  /\ wpc = "activate"
  /\ IF istatus[cur] = "PENDING" THEN wpc' = "item" /\ wval' = "RUNNING"
                                ELSE wpc' = "check" /\ UNCHANGED wval
  /\ UNCHANGED <<queueVars, itemVars, wstatus, cur, scanid, alarmVars, outputVars>>

IterateItem == Fetch \/ Exhaust \/ Spin \/ Finish \/ FetchFails \/ SetActive

-----------------------------------------------------------------------------
(* The status setter of an item, as the worker uses it                      *)

WriteItemStatus ==
  /\ Goto("item", "worker")
  /\ istatus' = [istatus EXCEPT ![cur] = wval]
  /\ UNCHANGED <<queueVars, left, macro, closing, blocks, halted, stopped, wstatus,
                 wval, cur, scanid, outputVars>>

WriteOwnStatus ==
  /\ Goto("worker", "publish")
  /\ wstatus' = wval
  /\ UNCHANGED <<queueVars, itemVars, wval, cur, scanid, outputVars>>

ActivePublished ==
  /\ CanPublish("worker") /\ wval = "RUNNING"
  /\ Goto("publish", "check")
  /\ UNCHANGED <<queueVars, itemVars, wstatus, wval, cur, scanid, outputVars>>

\* Mutant of Report: the record is made of active_instruction_queue.
ReportActive ==
  /\ CanPublish("worker") /\ wval # "RUNNING"
  /\ Goto("publish", "head")
  /\ records' = Append(records, [item |-> active, status |-> istatus[cur]])
  /\ cur' = NoItem /\ scanid' = NoItem /\ wval' = "RUNNING"
  /\ UNCHANGED <<queueVars, itemVars, wstatus, scan_number, number, published>>

\* Mutant of Report: reset() forgets current_scanID.
ReportKeepsScanID ==
  /\ CanPublish("worker") /\ wval # "RUNNING"
  /\ Goto("publish", "head")
  /\ records' = Append(records, [item |-> cur, status |-> istatus[cur]])
  /\ cur' = NoItem /\ wval' = "RUNNING"
  /\ UNCHANGED <<queueVars, itemVars, wstatus, scanid, scan_number, number, published>>

\* The item is over: append_to_queue_history and reset.
Report ==
  /\ CanPublish("worker") /\ wval # "RUNNING"
  /\ Goto("publish", "head")
  /\ records' = Append(records, [item |-> cur, status |-> istatus[cur]])
  /\ cur' = NoItem /\ scanid' = NoItem /\ wval' = "RUNNING"
  /\ UNCHANGED <<queueVars, itemVars, wstatus, scan_number, number, published>>

WriteStatus == WriteItemStatus \/ WriteOwnStatus \/ ActivePublished \/ Report

-----------------------------------------------------------------------------
(* The worker executes an instruction: _process_instructions tests for an   *)
(* interruption, _instruction_step takes over the scanID and tests again,   *)
(* and the instructions that wait for devices keep testing while they wait. *)

Opens == left[cur] = Size - 1 + (IF cur \in closing THEN 1 ELSE 0)
Closes == left[cur] = 0 /\ cur \notin macro
Interruptible == wpc \in {"check", "exec", "cleanup"}

BeginInstruction ==
  /\ Goto("check", "exec")
  /\ wstatus \notin {"PAUSED", "STOPPED"}
  /\ scanid' = cur
  /\ UNCHANGED <<queueVars, itemVars, wstatus, wval, cur, alarmVars, outputVars>>

\* The last test passes, and _open_scan or _close_scan publishes a scan status.
EndInstruction ==
  /\ Goto("exec", "fetch")
  /\ wstatus \notin {"PAUSED", "STOPPED"}
  /\ Opens => CanPublish("worker")
  /\ number' = IF Opens THEN [number EXCEPT ![cur] = scan_number] ELSE number
  /\ published' = IF Opens \/ Closes
                  THEN [published EXCEPT ![cur] = IF Opens THEN "open" ELSE "closed"]
                  ELSE published
  /\ UNCHANGED <<queueVars, itemVars, wstatus, wval, cur, scanid, alarmVars,
                 scan_number, records>>

\* _check_for_failed_movements: an alarm and a ScanAbortion.
InstructionFails ==
  /\ \/ Goto("exec", "abortion") /\ ~Opens /\ ~Closes
     \/ Goto("cleanup", "aborted")
  /\ RaiseAlarm
  /\ UNCHANGED <<queueVars, itemVars, wstatus, wval, cur, scanid, outputVars>>

\* _check_for_interruption announces a pause for the current scanID and sleeps
\* for as long as it lasts.
AnnouncePause ==
  /\ Interruptible /\ wstatus = "PAUSED"
  /\ published' = IF scanid = NoItem THEN published
                  ELSE [published EXCEPT ![scanid] = "paused"]
  /\ UNCHANGED <<queueVars, itemVars, workerVars, alarmVars, scan_number, number, records>>

\* _check_for_interruption raises ScanAbortion.
Interrupted ==
  /\ Interruptible /\ wstatus = "STOPPED"
  /\ wpc' = IF wpc = "cleanup" THEN "aborted" ELSE "abortion"
  /\ UNCHANGED <<queueVars, itemVars, wstatus, wval, cur, scanid, alarmVars, outputVars>>

\* The handler of the first ScanAbortion: return_to_start unless it is a halt.
BeginCleanup ==
  /\ wpc = "abortion"
  /\ IF cur \in stopped \/ ~ReturnToStart(cur)
       THEN wpc' = "aborted" /\ UNCHANGED <<stopped, wstatus>>
       ELSE /\ wpc' = "cleanup"
            /\ stopped' = stopped \cup {cur}
            /\ wstatus' = "RUNNING"
  /\ UNCHANGED <<queueVars, istatus, left, macro, closing, blocks, halted, wval, cur,
                 scanid, alarmVars, outputVars>>

EndCleanup ==
  /\ Goto("cleanup", "aborted")
  /\ wstatus \notin {"PAUSED", "STOPPED"}
  /\ UNCHANGED <<queueVars, itemVars, wstatus, wval, cur, scanid, alarmVars, outputVars>>

\* Mutant of Aborted: the number of an aborted scan is not used up.
AbortedUncounted ==
  /\ Goto("aborted", "item")
  /\ wval' = "STOPPED"
  /\ published' = IF scanid = NoItem THEN published
                  ELSE [published EXCEPT ![scanid] = "aborted"]
  /\ UNCHANGED <<queueVars, itemVars, wstatus, cur, scanid, alarmVars, scan_number,
                 number, records>>

\* The handler in run; without an active request block increase_scan_number
\* raises an AttributeError, which ends the thread.
Aborted ==
  /\ wpc = "aborted"
  /\ IF cur \notin blocks
       THEN WorkerDies /\ UNCHANGED <<wval, scan_number, published>>
       ELSE /\ wpc' = "item" /\ UNCHANGED <<scanid, alarmVars>>
            /\ wval' = "STOPPED"
            /\ scan_number' = scan_number + (IF CountsScan(cur) THEN 1 ELSE 0)
            /\ published' =
                 IF scanid = NoItem THEN published
                 ELSE [published EXCEPT ![scanid] =
                         IF ReturnToStart(cur) THEN "aborted" ELSE "halted"]
  /\ UNCHANGED <<queueVars, itemVars, wstatus, cur, number, records>>

ExecuteInstruction == BeginInstruction \/ EndInstruction \/ InstructionFails
                      \/ AnnouncePause \/ Interrupted
AbortItem == BeginCleanup \/ EndCleanup \/ Aborted

Worker == /\ \/ ChooseItem /\ UNCHANGED <<alarmVars, outputVars>>
             \/ StartFails
             \/ IterateItem
             \/ WriteStatus /\ UNCHANGED alarmVars
             \/ ExecuteInstruction
             \/ AbortItem
          /\ UNCHANGED <<inserterVars, modifierVars, lock>>

-----------------------------------------------------------------------------
(* The scan_queue_insert consumer. add_queue, and send_queue_status after   *)
(* the previous message, take the lock for an instant; insert runs without. *)

CreateItem(i) ==
  /\ istatus' = [istatus EXCEPT ![i] = "PENDING"]
  /\ left' = [left EXCEPT ![i] = Size]
  /\ macro' = macro \cup ({i} \cap Macros)
  /\ UNCHANGED <<closing, blocks, halted, stopped>>

ReceiveScan ==
  /\ CanPublish("insert")
  /\ ipc = "idle" /\ ipc' = "insert"
  /\ UNCHANGED <<queueVars, itemVars, alarmVars, inserting>>

\* Mutant of InsertItem: position 0 for every message.
InsertAtHead(i) ==
  /\ ipc = "insert" /\ ipc' = "idle"
  /\ i \in Fresh
  /\ queue' = <<i>> \o queue
  /\ CreateItem(i)
  /\ UNCHANGED <<qstatus, active, history, alarmVars, inserting>>

InsertItem(i) ==
  /\ ipc = "insert" /\ ipc' = "idle"
  /\ i \in Fresh
  /\ queue' = Append(queue, i)
  /\ CreateItem(i)
  /\ UNCHANGED <<qstatus, active, history, alarmVars, inserting>>

\* The assembler rejects the request: add_to_queue raises an alarm.
RejectScan ==
  /\ ipc = "insert" /\ ipc' = "idle"
  /\ RaiseAlarm
  /\ UNCHANGED <<queueVars, itemVars, inserting>>

\* A close_scan_def request: get_queue_item finds its item in the queue, ...
FindMacro(i) ==
  /\ ipc = "insert" /\ ipc' = "append"
  /\ i \in Macros \ closing /\ InQueue(i)
  /\ inserting' = i
  /\ UNCHANGED <<queueVars, itemVars, alarmVars>>

\* ... append_scan_request adds the request to it.
AppendClose ==
  /\ ipc = "append" /\ ipc' = "idle"
  /\ inserting' = NoItem
  /\ left' = [left EXCEPT ![inserting] = @ + 1]
  /\ closing' = closing \cup {inserting}
  /\ UNCHANGED <<queueVars, istatus, macro, blocks, halted, stopped, alarmVars>>

InserterFrame == UNCHANGED <<workerVars, modifierVars, lock, outputVars>>
Inserter == /\ \/ ReceiveScan
               \/ \E i \in Items : InsertItem(i) \/ FindMacro(i)
               \/ RejectScan
               \/ AppendClose
            /\ InserterFrame

-----------------------------------------------------------------------------
(* The modification consumer (scan_interception) and the alarm consumer     *)
(* (_alarm_callback) run the set_ methods of the QueueManager.              *)

GotoM(m, from, to) == mpc[m] = from /\ mpc' = [mpc EXCEPT ![m] = to]

\* The callback returns, and with it whoever holds the lock releases it.
Return(m, from) == /\ GotoM(m, from, "idle")
                   /\ act' = [act EXCEPT ![m] = "none"]
                   /\ named' = (IF m = "modification" THEN NoItem ELSE named)
                   /\ lock' = (IF lock = m THEN "free" ELSE lock)

WorkerValue(a) == IF a = "pause" THEN "PAUSED"
                  ELSE IF a = "deferred_pause" THEN "DEFERRED_PAUSE"
                  ELSE IF a = "continue" THEN "RUNNING" ELSE "STOPPED"

\* _get_active_scanID
ActiveScan == IF queue # <<>> /\ Head(queue) \in blocks THEN Head(queue) ELSE NoItem

\* The lock is taken; set_halt marks the active item; set_restart falls back on
\* the active scan when the message names none, and returns without one.
ReceiveRequest(a, i) ==
  LET scan == IF i = NoItem THEN ActiveScan ELSE i
      returns == a = "restart" /\ scan = NoItem
      m == "modification"
  IN
  /\ lock = "free" /\ requests < MaxRequests
  /\ requests' = requests + 1
  /\ GotoM(m, "idle", IF returns THEN "idle" ELSE
                     IF a \in {"abort", "halt"} THEN "queue" ELSE "status")
  /\ lock' = (IF returns THEN "free" ELSE m)
  /\ act' = [act EXCEPT ![m] = IF returns THEN "none" ELSE a]
  /\ named' = (IF a = "restart" THEN scan ELSE NoItem)
  /\ halted' = IF a = "halt" /\ active # NoItem THEN halted \cup {active} ELSE halted
  /\ UNCHANGED <<queueVars, istatus, left, macro, closing, blocks, stopped, wstatus,
                 target, alarmVars>>

ReceiveAlarm ==
  /\ GotoM("alarm", "idle", "queue")
  /\ alarms > 0 /\ alarms' = alarms - 1
  /\ act' = [act EXCEPT !["alarm"] = "abort"]
  /\ UNCHANGED <<queueVars, itemVars, wstatus, target, named, requests, lock, raised>>

\* set_abort leaves the status of an empty queue alone.
TestQueue(m) ==
  /\ GotoM(m, "queue", IF queue = <<>> THEN "length" ELSE "status")
  /\ UNCHANGED <<queueVars, itemVars, wstatus, act, target, named, requests, lock,
                 alarmVars>>

\* The status setter of the ScanQueue.
SetQueueStatus(m) ==
  /\ GotoM(m, "status", "publish")
  /\ qstatus' = IF act[m] = "continue" THEN "RUNNING" ELSE "PAUSED"
  /\ UNCHANGED <<queue, active, history, itemVars, wstatus, act, target, named,
                 requests, lock, alarmVars>>

\* Once that is published, the worker_status setter: len(queue) > 0, ...
TestLength(m) ==
  /\ mpc[m] = "length" \/ (mpc[m] = "publish" /\ CanPublish(m))
  /\ mpc' = [mpc EXCEPT ![m] = IF queue = <<>> THEN "then" ELSE "head"]
  /\ UNCHANGED <<queueVars, itemVars, wstatus, act, target, named, requests, lock,
                 alarmVars>>

\* ... queue[0], whose IndexError ends the consumer's thread, ...
ReadHead(m) ==
  /\ GotoM(m, "head", IF queue = <<>> THEN "dead" ELSE "item")
  /\ target' = [target EXCEPT ![m] = IF queue = <<>> THEN NoItem ELSE Head(queue)]
  /\ lock' = IF queue = <<>> /\ lock = m THEN "free" ELSE lock
  /\ UNCHANGED <<queueVars, itemVars, wstatus, act, named, requests, alarmVars>>

\* ... the item's status and then the worker's.
SetItemStatus(m) ==
  /\ GotoM(m, "item", "worker")
  /\ istatus' = [istatus EXCEPT ![target[m]] = WorkerValue(act[m])]
  /\ UNCHANGED <<queueVars, left, macro, closing, blocks, halted, stopped, wstatus,
                 act, target, named, requests, lock, alarmVars>>

SetWorkerStatus(m) ==
  /\ GotoM(m, "worker", "then")
  /\ wstatus' = WorkerValue(act[m])
  /\ target' = [target EXCEPT ![m] = NoItem]
  /\ UNCHANGED <<queueVars, itemVars, act, named, requests, lock, alarmVars>>

\* Mutant of Then: the restart waits with the lock in its hand.
ThenKeepsLock(m) ==
  /\ CanPublish(m)
  /\ act[m] = "restart" /\ GotoM(m, "then", "history")
  /\ UNCHANGED <<queueVars, itemVars, wstatus, act, target, named, requests, lock,
                 alarmVars>>

\* What follows the two setters: nothing, queue.clear(), or the lock is released
\* while a restart waits.
Then(m) ==
  /\ CanPublish(m)
  /\ \/ /\ act[m] = "clear" /\ GotoM(m, "then", "forget")
        /\ queue' = <<>> /\ UNCHANGED <<lock, act, named>>
     \/ /\ act[m] = "restart" /\ GotoM(m, "then", "history")
        /\ lock' = "free" /\ UNCHANGED <<queue, act, named>>
     \/ /\ act[m] \notin {"clear", "restart"} /\ Return(m, "then")
        /\ UNCHANGED queue
  /\ UNCHANGED <<qstatus, active, history, itemVars, wstatus, target,
                 requests, alarmVars>>

ForgetActive(m) ==
  /\ Return(m, "forget")
  /\ active' = NoItem
  /\ UNCHANGED <<queue, qstatus, history, itemVars, wstatus, target,
                 requests, alarmVars>>

\* _wait_for_queue_to_appear_in_history polls: the scan was started last and is
\* no longer at the head of the queue.
InHistory == /\ history # <<>> /\ history[Len(history)] = named
             /\ queue # <<>> => Head(queue) # named

FoundInHistory(m) ==
  /\ InHistory
  /\ GotoM(m, "history", "again")
  /\ UNCHANGED <<queueVars, itemVars, wstatus, act, target, named, requests, lock,
                 alarmVars>>

\* The TimeoutError leaves scan_interception without the lock that its decorator
\* wants to release.
RestartTimesOut(m) ==
  /\ Timeouts /\ ~InHistory
  /\ GotoM(m, "history", "dead")
  /\ UNCHANGED <<queueVars, itemVars, wstatus, act, target, named, requests, lock,
                 alarmVars>>

\* add_to_queue(queue, scan_msg, 0): the item's first message, in a new item.
Reinsert(m) ==
  /\ lock = "free"
  /\ Return(m, "again")
  /\ \E i \in Fresh :
       /\ (i \in Macros <=> named \in Macros)
       /\ (i \in Returning <=> named \in Returning)
       /\ queue' = <<i>> \o queue
       /\ CreateItem(i)
  /\ UNCHANGED <<qstatus, active, history, wstatus, target, requests, alarmVars>>

SetStatus(m) == TestQueue(m) \/ SetQueueStatus(m) \/ TestLength(m) \/ ReadHead(m)
                \/ SetItemStatus(m) \/ SetWorkerStatus(m) \/ Then(m) \/ ForgetActive(m)
Restart(m) == FoundInHistory(m) \/ RestartTimesOut(m) \/ Reinsert(m)

ModifierFrame == UNCHANGED <<wpc, wval, cur, scanid, inserterVars, outputVars>>
Modifier(m) == (SetStatus(m) \/ Restart(m)) /\ ModifierFrame
ReceiveModification == /\ \/ \E a \in Requests, i \in ItemOrNone :
                             /\ i # NoItem => a = "restart" /\ Started(i)
                             /\ ReceiveRequest(a, i)
                          \/ ReceiveAlarm
                       /\ ModifierFrame

Next == \/ Worker
        \/ Inserter
        \/ ReceiveModification
        \/ \E m \in Modifiers : Modifier(m)

Spec == Init /\ [][Next]_vars

\* The threads run; nothing obliges clients to send anything.
Fairness == /\ WF_vars(Worker)
            /\ WF_vars(AppendClose /\ InserterFrame)
            /\ WF_vars(ReceiveAlarm /\ ModifierFrame)
            /\ \A m \in Modifiers : WF_vars(Modifier(m))
FairSpec == Spec /\ Fairness

-----------------------------------------------------------------------------
(* Properties                                                               *)

\* The modification and alarm consumers reach the running scan through queue[0]
\* and halt through active_instruction_queue: while the worker processes an item,
\* both are that item.
WorkerOnHead == wpc \in Processing => /\ queue # <<>> /\ Head(queue) = cur
                                      /\ active = cur

\* The loop of ScanQueue.__next__ hands every item to the worker at most once.
RunsOnce == \A j, k \in 1..Len(history) : history[j] = history[k] => j = k

\* scan_queue_history in redis has exactly one record of each item that was
\* started, in that order, and lacks only the one in progress.
RecordsFollowStarts ==
  /\ Len(history) = Len(records) + (IF wpc \in Processing \cup {"dead"} THEN 1 ELSE 0)
  /\ \A k \in 1..Len(records) : records[k].item = history[k]

\* An item is recorded as COMPLETED only if its scan was closed, whatever status
\* the other threads wrote in the meantime.
CompletedWasClosed ==
  \A k \in 1..Len(records) :
    records[k].status = "COMPLETED" => published[records[k].item] = "closed"

\* No interleaving of requests makes run() or _process_instructions fail with
\* another exception than ScanAbortion, which would end the worker's thread.
WorkerLives == wpc # "dead"

\* insert() promises nothing about a pending popleft, and a queue that was emptied
\* by an interruption forgets to reset active_instruction_queue: an item can be
\* dropped unseen, but no more than one for each interruption.
LostItems == {i \in Items : Created(i) /\ ~InQueue(i) /\ ~Started(i)}
OneLossPerInterruption == Cardinality(LostItems) <= requests + raised

\* "It can be used to identify a scan within an experiment": two items never open
\* their scans under the same scan_number.
UniqueScanNumbers ==
  \A i, j \in Items : i # j /\ number[i] # 0 => number[i] # number[j]

\* The scan status of a scan that is closed, aborted or halted never changes again:
\* the file writer and the clients act on it once.
FinalScanStatus ==
  [][\A i \in Items : published[i] \in {"closed", "aborted", "halted"}
                        => published'[i] = published[i]]_vars

\* Every item that was inserted is in the queue or was started.
NoScanLost == LostItems = {}

\* A started item ends and is recorded, unless the scan or its worker is left
\* paused or a scan macro is left open.
Held(i) == istatus[i] = "PAUSED" \/ wstatus = "PAUSED" \/ i \in macro
Recorded(i) == \E k \in 1..Len(records) : records[k].item = i
StartedEnds ==
  \A i \in Items : []<>~Held(i) => (Started(i) ~> Recorded(i))

\* While it waits for the scan to end, a restart lets go of the lock that the worker
\* needs to get there. With another item behind it nothing else can be started.
RestartGoesOn ==
  mpc["modification"] = "history" /\ named = cur /\ Len(queue) > 1
    ~> mpc["modification"] # "history"

\* The queue implements the sequential execution of its items: an item waits until
\* it is started, runs until its record is written, and items overtake nobody.
HeadStarted == queue # <<>> /\ Started(Head(queue))
Abstract == INSTANCE SequentialExecution WITH
  submitted <- {i \in Items : Created(i)},
  waiting   <- IF HeadStarted THEN Tail(queue) ELSE queue,
  running   <- IF wpc \in Processing THEN cur ELSE NoItem,
  ended     <- [k \in 1..Len(records) |-> records[k].item]
Sequential == Abstract!Spec
=============================================================================
