--------------------------- MODULE ScanExecution ---------------------------
(***************************************************************************)
(* Scans carried out: the scan worker (scan_server/scan_worker.py) takes   *)
(* the instructions of the programs of ScanPrograms one by one, sends them *)
(* to the device server (device_server/device_server.py) and waits for the *)
(* states that the device server leaves in redis.                          *)
(*                                                                         *)
(* The device server hands every instruction to a pool of threads: the     *)
(* instructions start in order and end in any order. What a device does    *)
(* after that (a movement, an exposure, a flight) ends later still, in a   *)
(* callback. The worker knows an answer by the metadata it carries: the    *)
(* scanID, the request and DIID, the number of the instruction in it.      *)
(*                                                                         *)
(* The queue, its states and the order of the items are in ScanQueue; here *)
(* an item is aborted at most once.                                        *)
(***************************************************************************)
EXTENDS ScanPrograms, FiniteSets

CONSTANTS
  Motors, Monitors, Detectors, Flyers,   (* Disjoint sets of devices.       *)
  Limits,      (* Device -> <<low, high>>, without effect if low >= high.   *)
  Scenarios,   (* Sequence of [items, event]: what the worker is given, and *)
               (* what may happen to it: "abort", "halt" or "failed trigger". *)
  Threads,     (* max_workers of the executor, 4 in the code.               *)
  FlyPoints,   (* Points of a flight that was not told how many.            *)
  MaxPolls     (* Bound: rounds of a loop that waits for a flyer.           *)

Devices == Motors \cup Monitors \cup Detectors \cup Flyers
Async == Flyers        (* devices whose schedule is not "sync"              *)

ASSUME ThreadsAssumption == Threads \in Nat \ {0}
ASSUME LimitsAssumption == \A d \in Devices: Limits[d] \in Int \X Int

\* The steps name devices, and a loop goes back within its program.
IsProgram(b) ==
  /\ b.motors \in Seq(Devices) /\ b.zeros \in Nat /\ b.num_pos \in Int /\ b.type \in {"step", "fly"}
  /\ b.steps \in Seq(ToSet(b.steps))
  /\ \A k \in DOMAIN b.steps:
       /\ b.steps[k].device \subseteq Devices
       /\ b.steps[k].action = "until" => b.steps[k].value.plus \in 0..(k - 1)
IsItem(item) ==
  /\ item.def \in BOOLEAN /\ item.blocks \in Seq(ToSet(item.blocks)) \ {<<>>}
  /\ \A b \in ToSet(item.blocks): IsProgram(b)
ASSUME ScenariosAssumption ==
  \A scenario \in ToSet(Scenarios): /\ scenario.items \in Seq(ToSet(scenario.items)) \ {<<>>}
                                   /\ \A item \in ToSet(scenario.items): IsItem(item)
ASSUME FlyPointsAssumption == FlyPoints \in Nat

VARIABLES
  scen,        (* the member of Scenarios                                   *)
  it, bl, pc,  (* item, request block and next step of its generator        *)
  wpc,         (* "pull", "wait", "abort", "aborted", "dead" or "done"      *)
  scan,        (* attributes of the scan object of the block                *)
  cur,         (* the instruction the worker waits with, and its metadata   *)
  work,        (* attributes of the worker                                  *)
  groups,      (* _groups: <<wait group, device, DIID>>                     *)
  status,      (* worker.status: "RUNNING" or "STOPPED"                     *)
  tasks, running,       (* instructions queued, and those in a thread       *)
  metadata,    (* DSDevice.metadata                                         *)
  stdout,      (* whose buffer sys.stdout is; NoMd is the terminal          *)
  pos, goal, flight, exposing, settling, stagedDevs,   (* the devices       *)
  req, sts, staged, reported, replies, progress,       (* redis             *)
  stopMsg,     (* the abort is on its way to the device server              *)
  reordered,   (* an instruction was carried out before an earlier one      *)
  log          (* what happened, for the properties                         *)

place == <<scen, it, bl, pc>>
device == <<metadata, stdout, pos, goal, flight, exposing, settling, stagedDevs>>
redis == <<req, sts, staged, reported, replies, progress>>
vars == <<place, wpc, scan, cur, work, groups, status, tasks, running, device, redis, stopMsg, reordered, log>>

-----------------------------------------------------------------------------
Items == scen.items
Item == Items[it]
Block == Item.blocks[bl]
Steps == IF work.returning THEN ReturnToStart(Block.motors, scan.start_pos) ELSE Block.steps

NoMd == [scan |-> <<0, 0>>, rid |-> <<0, 0>>, DIID |-> 0]
Md == [scan |-> IF Item.def THEN <<it, 0>> ELSE <<it, bl>>, rid |-> <<it, bl>>, DIID |-> scan.DIID]
Empty == [md |-> NoMd, on |-> FALSE, set |-> FALSE]
Entry(md, on) == [md |-> md, on |-> on, set |-> TRUE]
Idle == [md |-> NoMd, to |-> 0, moves |-> FALSE, response |-> FALSE]
Grounded == [kick |-> NoMd, complete |-> NoMd, flies |-> FALSE, told |-> FALSE, asked |-> FALSE,
             sent |-> 0]

NewScan(block, point) ==
  [DIID |-> 0, start_pos |-> [i \in 1..block.zeros |-> 0], pointID |-> point,
   num_pos |-> block.num_pos, target |-> 0, polls |-> 0, fresh |-> TRUE, reading |-> FALSE]

Value(v) == v.plus + (IF v.from = 0 THEN 0 ELSE scan.start_pos[v.from])

MonitoredDevices == (Monitors \cup work.readout) \ (Detectors \cup Async)
InstructionDevices(i) ==
  IF i.device # {} THEN i.device
  ELSE CASE i.group = "primary" -> MonitoredDevices
         [] i.group = "scan_motor" -> work.scan_motors
         [] OTHER -> {}

-----------------------------------------------------------------------------
(* What the properties look at. An instruction is answered when its answer *)
(* is in redis; the worker must not go on before those it waits for are.   *)

NewLog ==
  [answered |-> {},     (* <<device, metadata>> of the answers              *)
   early |-> {},        (* waits that ended before an answer: <<type, item>> *)
   points |-> {},       (* points read since the scan was opened            *)
   opened |-> 0,        (* the number of points last announced              *)
   ends |-> {},         (* closed scans                                     *)
   outside |-> {},      (* items that set a motor beyond its limits         *)
   home |-> pos,        (* positions when the item began                    *)
   returned |-> FALSE,  (* the way back to the start is done                *)
   overlap |-> FALSE,   (* two calls of rpc at a time                       *)
   failed |-> FALSE,    (* a trigger failed                                 *)
   late |-> FALSE,      (* an instruction of an earlier item was answered   *)
   stopped |-> FALSE]   (* the operator's request is out                    *)

\* The status of an instruction; late when its item is over.
Told(d, md) == [log EXCEPT !.answered = @ \cup {<<d, md>>}, !.late = @ \/ md.rid[1] # it]

-----------------------------------------------------------------------------
(* The scan object: one step of its generator between two instructions.    *)

Next1 == pc' = pc + 1
Step == Steps[pc]
AtStep(a) == wpc = "pull" /\ pc \in DOMAIN Steps /\ Step.action = a

ScanKeeps == UNCHANGED <<scen, it, bl, wpc, cur, work, groups, status, tasks, running, device,
                         redis, stopMsg, reordered, log>>

YieldNone ==
  /\ AtStep("yield None") /\ Next1 /\ scan' = [scan EXCEPT !.fresh = FALSE] /\ ScanKeeps
Initialize == AtStep("initialize") /\ Next1 /\ UNCHANGED scan /\ ScanKeeps
NewOffset == AtStep("start_pos = []") /\ Next1 /\ scan' = [scan EXCEPT !.start_pos = <<>>] /\ ScanKeeps
CountPoint == AtStep("pointID += 1") /\ Next1 /\ scan' = [scan EXCEPT !.pointID = @ + 1] /\ ScanKeeps
CountPosition == AtStep("num_pos += 1") /\ Next1 /\ scan' = [scan EXCEPT !.num_pos = @ + 1] /\ ScanKeeps
SetTarget ==
  /\ AtStep("target_diid = DIID - 1")
  /\ Next1 /\ scan' = [scan EXCEPT !.target = scan.DIID - 1, !.polls = 0] /\ ScanKeeps
TakeProgress ==
  /\ AtStep("num_pos = progress") /\ Next1 /\ ScanKeeps
  /\ \E f \in Step.device:
       scan' = IF progress[f].md.rid = Md.rid /\ progress[f].n > 0
                 THEN [scan EXCEPT !.num_pos = progress[f].n] ELSE scan

\* _get_from_rpc polls for the reply and looks at nothing else.
Reply(d) == [d |-> d, md |-> [Md EXCEPT !.DIID = scan.DIID - 1]]
GetFromRpc ==
  /\ AtStep("_get_from_rpc")
  /\ \E d \in Step.device: \E r \in replies: r.key = Reply(d)
  /\ Next1 /\ UNCHANGED scan /\ ScanKeeps
AppendStart ==
  /\ AtStep("start_pos.append")
  /\ \E d \in Step.device: \E r \in replies:
       /\ r.key = Reply(d)
       /\ scan' = [scan EXCEPT !.start_pos = Append(@, r.value)]
  /\ Next1 /\ ScanKeeps

Requested == [Md EXCEPT !.DIID = scan.target]
FlyerDone(f) ==
  CASE Step.type = "req" -> req[f].set /\ req[f].md.rid = Md.rid /\ req[f].md.DIID = scan.target
    [] Step.type = "status" -> sts[f] = Entry(Requested, FALSE)
    [] Step.type = "report" -> \E md \in reported: md.rid = Md.rid
LeaveLoop ==
  /\ AtStep("until") /\ \E f \in Step.device: FlyerDone(f)
  /\ Next1 /\ UNCHANGED scan /\ ScanKeeps
NextRound ==
  /\ AtStep("until") /\ \A f \in Step.device: ~FlyerDone(f)
  /\ Step.value.plus > 0 /\ scan.polls < MaxPolls
  /\ pc' = pc - Step.value.plus /\ scan' = [scan EXCEPT !.polls = @ + 1] /\ ScanKeeps

LocalActions ==
  {"yield None", "initialize", "start_pos = []", "pointID += 1", "num_pos += 1", "until", "pass",
   "target_diid = DIID - 1", "num_pos = progress", "_get_from_rpc", "start_pos.append", "raise",
   "_check_limits"}

\* What an exception of the generator does. RequestBlockQueue.__next__ makes it a
\* ScanAbortion, but not while it starts the next block, and the way back is not its own.
Raise ==
  /\ wpc' = IF work.returning \/ (bl > 1 /\ scan.fresh) THEN "dead" ELSE "abort"
  /\ UNCHANGED <<place, scan, cur, work, groups, status, tasks, running, device, redis, stopMsg, reordered, log>>
RaiseStep == AtStep("raise") /\ Raise

\* The check ends at the first motor without limits.
Checked(i) == \A j \in 1..i: Limits[Block.motors[j]][1] < Limits[Block.motors[j]][2]
InLimits(m, v) == Limits[m][1] >= Limits[m][2] \/ v \in Limits[m][1]..Limits[m][2]
\* Mutant of BadPosition: the check ignores the offset of a relative scan.
BadPositionAbsolute(p, i) == i \in DOMAIN p => ~InLimits(Block.motors[i], p[i].plus)
BadPosition(p, i) == i \in DOMAIN p => ~InLimits(Block.motors[i], Value(p[i]))
LimitError ==
  \E i \in DOMAIN Block.motors: Checked(i) /\ \E k \in DOMAIN Step.value: BadPosition(Step.value[k], i)
LimitsPass == AtStep("_check_limits") /\ ~LimitError /\ Next1 /\ UNCHANGED scan /\ ScanKeeps
LimitsFail == AtStep("_check_limits") /\ LimitError /\ Raise

\* ContLineScan: the motor is at the next point, or already behind it.
Reached == AtStep("pass") /\ (\E m \in Step.device: pos[m] = Step.value.plus)
             /\ Next1 /\ UNCHANGED scan /\ ScanKeeps
Skipped == AtStep("pass") /\ (\E m \in Step.device: pos[m] > Step.value.plus) /\ Raise

Generator ==
  \/ YieldNone \/ Initialize \/ NewOffset \/ CountPoint \/ CountPosition \/ SetTarget
  \/ TakeProgress \/ GetFromRpc \/ AppendStart \/ LeaveLoop \/ NextRound
  \/ RaiseStep \/ LimitsPass \/ LimitsFail \/ Reached \/ Skipped

-----------------------------------------------------------------------------
(* The worker: one instruction.                                            *)

Message(i, md, devs) ==
  [action |-> IF i.action = "baseline_reading" THEN "read" ELSE i.action, device |-> devs,
   value |-> Value(i.value), md |-> md, response |-> i.response,
   point |-> IF i.pointID THEN scan.pointID ELSE -1, no |-> work.sent]

Targets(i) ==
  CASE i.action = "read" /\ i.group # "" -> MonitoredDevices
    [] i.action = "trigger" -> Detectors
    [] i.action = "baseline_reading" -> Motors \ work.readout
    [] i.action \in {"stage", "unstage", "pre_scan"} -> Devices
    [] OTHER -> i.device

Awaits(i) == i.action \in {"wait", "stage", "unstage", "pre_scan"}

\* next(queue): the instruction takes its DIID, and the worker enters its wait groups.
Pull ==
  /\ wpc = "pull" /\ status = "RUNNING" /\ pc \in DOMAIN Steps
  /\ Next1 /\ UNCHANGED <<scen, it, bl, status, running, device, redis, stopMsg, reordered>>
  /\ scan' = [scan EXCEPT !.DIID = @ + 1, !.fresh = FALSE]
  /\ groups' = IF Step.wait_group = "" \/ Step.action = "wait" THEN groups
               ELSE LET devs == InstructionDevices(Step)
                    IN  {g \in groups: ~(g[1] = Step.wait_group /\ g[2] \in devs)}
                          \cup {<<Step.wait_group, d, scan.DIID>>: d \in devs}
Counted == [work EXCEPT !.max_point_id = IF Step.pointID THEN scan.pointID ELSE @]

SendInstruction ==
  /\ Pull /\ Step.action \in {"set", "read", "trigger", "kickoff", "complete",
                              "baseline_reading", "rpc"}
  /\ tasks' = Append(tasks, Message(Step, Md, Targets(Step)))
  /\ work' = [Counted EXCEPT !.sent = @ + 1,
                 !.last_trigger = IF Step.action = "trigger" THEN Md ELSE @]
  /\ UNCHANGED <<wpc, cur, log>>

SendAndWait ==
  /\ Pull /\ Step.action \in {"stage", "unstage", "pre_scan"}
  /\ tasks' = Append(tasks, Message(Step, Md, Devices))
  /\ work' = [work EXCEPT !.sent = @ + 1,
                 !.staged = CASE Step.action = "stage" -> Devices
                              [] Step.action = "unstage" -> {}
                              [] OTHER -> @]
  /\ cur' = [step |-> Step, md |-> Md] /\ wpc' = "wait"
  /\ UNCHANGED log

BeginWait ==
  /\ Pull /\ Step.action = "wait"
  /\ cur' = [step |-> Step, md |-> Md] /\ wpc' = "wait"
  /\ UNCHANGED <<tasks, work, log>>

NumPoints(carried) == carried + scan.num_pos + (IF carried # 0 THEN 1 ELSE 0)
OpenScanStep ==
  LET first == work.scan_id = NoMd.scan
      carried == IF Item.def THEN work.max_point_id ELSE 0
      w == [work EXCEPT !.max_point_id = carried]
  IN  /\ Pull /\ Step.action = "open_scan"
      /\ work' = IF first THEN [w EXCEPT !.scan_id = Md.scan, !.scan_type = Block.type,
                                  !.scan_motors = ToSet(Block.motors), !.readout = ToSet(Block.motors)]
                 ELSE w
      \* None + int
      /\ wpc' = IF scan.num_pos = -1 THEN "dead" ELSE wpc
      /\ log' = [log EXCEPT !.opened = NumPoints(carried), !.points = IF first THEN {} ELSE @]
      /\ UNCHANGED <<cur, tasks>>

\* Points whose reading is still to come.
Pending == {p \in {m.point: m \in ToSet(tasks) \cup {t.m: t \in running}}: p >= 0}
CloseScanStep ==
  LET closing == work.scan_id = Md.scan /\ (Step.action = "close_scan_def" \/ ~Item.def)
      flying == work.scan_type = "fly"
      num_points == IF flying THEN scan.num_pos ELSE work.max_point_id + 1
  IN  /\ Pull /\ Step.action \in {"close_scan", "close_scan_def"}
      /\ work' = IF closing THEN [work EXCEPT !.scan_id = NoMd.scan] ELSE work
      \* A request that closes a definition has no num_pos.
      /\ wpc' = IF closing /\ flying /\ scan.num_pos = -1 THEN "dead" ELSE wpc
      /\ log' = IF closing THEN [log EXCEPT !.ends = @ \cup {[it |-> it, fly |-> flying,
                    opened |-> log.opened, closed |-> num_points, read |-> log.points,
                    pending |-> Pending]}] ELSE log
      /\ UNCHANGED <<cur, tasks>>

\* Its readback becomes the reading.
PublishStep ==
  /\ Pull /\ Step.action = "publish_data_as_read" /\ work' = Counted
  /\ log' = [log EXCEPT !.points = @ \cup {scan.pointID}] /\ UNCHANGED <<wpc, cur, tasks>>

OtherStep ==
  /\ Pull /\ Step.action \in {"open_scan_def", "close_scan_group", "scan_report_instruction"}
  /\ UNCHANGED <<wpc, cur, tasks, work, log>>

-----------------------------------------------------------------------------
(* The worker: waiting. A device whose key is not in redis keeps it waiting. *)

Type == IF cur.step.action = "wait" THEN cur.step.type ELSE cur.step.action
Awaited == {g \in groups: g[1] = cur.step.wait_group /\ g[2] \in InstructionDevices(cur.step)}
SameScan(e) == e.set /\ e.md.scan = cur.md.scan

\* Mutant of MovesOver: a movement of the scan, whichever it was.
MovesOverByScan == \A g \in Awaited: SameScan(req[g[2]]) /\ req[g[2]].on
MovesOver == \A g \in Awaited: LET e == req[g[2]] IN
  SameScan(e) /\ e.on /\ e.md.rid = cur.md.rid /\ e.md.DIID = g[3]
ReadsOver == \A g \in Awaited: LET e == sts[g[2]] IN SameScan(e) /\ ~e.on /\ e.md.DIID = g[3]
TriggersOver == \A d \in Detectors: LET e == req[d] IN
  e.set /\ e.on /\ e.md.scan = work.last_trigger.scan /\ e.md.DIID = work.last_trigger.DIID
\* Mutants of StagesOver: nobody waits; the device stays staged for ever.
StagesUnawaited == TRUE
StagesOverStaged == \A d \in Devices: LET e == staged[d] IN
  SameScan(e) /\ e.md.DIID = cur.md.DIID /\ e.on
StagesOver == \A d \in Devices: LET e == staged[d] IN
  SameScan(e) /\ e.md.DIID = cur.md.DIID /\ e.on = (Type = "stage")
PreScansOver == \A d \in Devices: LET e == req[d] IN SameScan(e) /\ e.on /\ e.md.DIID = cur.md.DIID

WaitOver ==
  CASE Type = "move" -> MovesOver
    [] Type = "read" -> ReadsOver
    [] Type = "trigger" -> TriggersOver
    [] Type = "pre_scan" -> PreScansOver
    [] OTHER -> StagesOver

\* The answers a wait is for.
Expected ==
  CASE Type \in {"move", "read"} -> {<<g[2], [cur.md EXCEPT !.DIID = g[3]]>>: g \in Awaited}
    [] Type = "trigger" -> {<<d, work.last_trigger>>: d \in Detectors}
    [] OTHER -> {<<d, cur.md>>: d \in Devices}

EndWait ==
  /\ wpc = "wait" /\ status = "RUNNING" /\ WaitOver
  /\ wpc' = "pull" /\ groups' = groups \ Awaited
  /\ log' = IF Expected \subseteq log.answered THEN log
            ELSE [log EXCEPT !.early = @ \cup {<<Type, it>>}]
  /\ UNCHANGED <<place, scan, cur, work, status, tasks, running, device, redis, stopMsg, reordered>>

MovementFailed ==
  /\ wpc = "wait" /\ status = "RUNNING" /\ Type = "move"
  /\ \A g \in Awaited: req[g[2]].set
  /\ \E g \in Awaited: LET e == req[g[2]] IN
       ~e.on /\ e.md.DIID = g[3] /\ e.md.rid = cur.md.rid
  /\ wpc' = "abort"
  /\ UNCHANGED <<place, scan, cur, work, groups, status, tasks, running, device, redis, stopMsg, reordered, log>>

AtInstruction == wpc = "pull" /\ pc \in DOMAIN Steps /\ Step.action \notin LocalActions
CheckForInterruption ==
  /\ status = "STOPPED" /\ (wpc = "wait" \/ AtInstruction) /\ wpc' = "abort"
  /\ UNCHANGED <<place, scan, cur, work, groups, status, tasks, running, device, redis, stopMsg, reordered, log>>

-----------------------------------------------------------------------------
(* The worker: blocks, items and what an abort leads to.                   *)

BlockEnds == wpc = "pull" /\ pc > Len(Steps) /\ ~work.returning
\* Mutant of EndBlock: the points of a scan definition are counted from zero in each scan.
EndBlockRecounts ==
  /\ BlockEnds /\ bl < Len(Item.blocks)
  /\ bl' = bl + 1 /\ pc' = 1 /\ scan' = NewScan(Item.blocks[bl + 1], 0)
  /\ UNCHANGED <<scen, it, wpc, cur, work, groups, status, tasks, running, device, redis, stopMsg, reordered, log>>
EndBlock ==
  /\ BlockEnds /\ bl < Len(Item.blocks)
  /\ bl' = bl + 1 /\ pc' = 1
  /\ scan' = NewScan(Item.blocks[bl + 1], IF Item.def THEN scan.pointID ELSE 0)
  /\ UNCHANGED <<scen, it, wpc, cur, work, groups, status, tasks, running, device, redis, stopMsg, reordered, log>>

\* reset; readout_priority and _staged_devices stay.
NextItem ==
  /\ groups' = {} /\ status' = "RUNNING"
  /\ IF it < Len(Items)
       THEN /\ it' = it + 1 /\ bl' = 1 /\ pc' = 1 /\ wpc' = "pull"
            /\ scan' = NewScan(Items[it + 1].blocks[1], 0)
       ELSE wpc' = "done" /\ UNCHANGED <<it, bl, pc, scan>>
  /\ log' = [log EXCEPT !.home = pos, !.returned = FALSE]
  /\ UNCHANGED <<scen, cur, running, device, redis, stopMsg, reordered>>
Reset ==
  [work EXCEPT !.scan_id = NoMd.scan, !.scan_motors = {}, !.returning = FALSE, !.max_point_id = 0]

EndItem == BlockEnds /\ bl = Len(Item.blocks) /\ NextItem /\ work' = Reset /\ UNCHANGED tasks

\* A halt overrides the return_to_start of the class.
Returns == Block.returns /\ (scen.event = "halt" => ~log.stopped)
BeginReturn ==
  /\ wpc = "abort" /\ groups' = {}
  /\ IF work.returning \/ ~Returns
       THEN wpc' = "aborted" /\ UNCHANGED <<pc, work, status>>
       ELSE /\ wpc' = IF Block.back THEN "pull" ELSE "dead"
            /\ pc' = 1 /\ status' = "RUNNING" /\ work' = [work EXCEPT !.returning = TRUE]
  /\ UNCHANGED <<scen, it, bl, scan, cur, tasks, running, device, redis, stopMsg, reordered, log>>
EndReturn ==
  /\ wpc = "pull" /\ work.returning /\ pc > Len(Steps)
  /\ wpc' = "aborted"
  /\ log' = [log EXCEPT !.returned = work.scan_id = Md.scan]
  /\ UNCHANGED <<place, scan, cur, work, groups, status, tasks, running, device, redis, stopMsg, reordered>>

\* run: the clean-up unstages the devices, all of them when none is left, and does not wait.
Aborted ==
  /\ wpc = "aborted" /\ NextItem /\ work' = [Reset EXCEPT !.staged = {}, !.sent = @ + 1]
  /\ tasks' = Append(tasks, Message(Instr("unstage", {}), NoMd,
                                     IF work.staged = {} THEN Devices ELSE work.staged))

\* An operator's request: the worker is told, the device server hears of an abort.
Interrupt ==
  /\ scen.event \in {"abort", "halt"} /\ ~log.stopped /\ wpc \in {"pull", "wait"}
  /\ status' = "STOPPED" /\ stopMsg' = (scen.event = "abort")
  /\ log' = [log EXCEPT !.stopped = TRUE]
  /\ UNCHANGED <<place, wpc, scan, cur, work, groups, tasks, running, device, redis, reordered>>

Worker ==
  \/ Generator \/ SendInstruction \/ SendAndWait \/ BeginWait \/ OpenScanStep \/ CloseScanStep
  \/ PublishStep \/ OtherStep \/ EndWait \/ MovementFailed \/ CheckForInterruption
  \/ EndBlock \/ EndItem \/ BeginReturn \/ EndReturn \/ Aborted

-----------------------------------------------------------------------------
(* The device server: a pool of threads.                                   *)

WorkerKeeps == UNCHANGED <<place, wpc, scan, cur, work, groups, status>>
ServerKeeps == WorkerKeeps /\ UNCHANGED <<tasks, stopMsg>>

\* handle_device_instructions; one without devices is dropped.
StartTask ==
  /\ tasks # <<>> /\ Cardinality(running) < Threads
  /\ LET m == Head(tasks)
         rpc == m.action = "rpc" /\ m.device # {}
     IN  /\ tasks' = Tail(tasks)
         /\ metadata' = [d \in Devices |-> IF d \in m.device THEN m.md ELSE metadata[d]]
         /\ running' = IF m.device = {} THEN running
                       ELSE running \cup {[m |-> m, saved |-> stdout, replied |-> FALSE]}
         /\ stdout' = IF rpc THEN m.md ELSE stdout
         /\ log' = [log EXCEPT !.overlap = @ \/ (rpc /\ \E r \in running: r.m.action = "rpc")]
  /\ WorkerKeeps
  /\ UNCHANGED <<pos, goal, flight, exposing, settling, stagedDevs, redis, stopMsg, reordered>>

Handles(t, action) ==
  /\ t.m.action = action /\ running' = running \ {t} /\ ServerKeeps
  /\ reordered' = (reordered \/ \E u \in running:
       u.m.no < t.m.no /\ u.m.device \cap t.m.device # {} /\ ~u.replied)
In(t, e, f) == [d \in Devices |-> IF d \in t.m.device THEN e ELSE f[d]]
Answers(t) == log.answered \cup (t.m.device \X {t.m.md})

\* The movement begins; its status will be for this instruction.
SetDevice(t) ==
  /\ Handles(t, "set")
  /\ goal' = In(t, [md |-> t.m.md, to |-> t.m.value, moves |-> TRUE, response |-> t.m.response], goal)
  /\ sts' = [d \in Devices |-> IF d \in t.m.device THEN Entry(metadata[d], TRUE) ELSE sts[d]]
  /\ log' = IF \E d \in t.m.device: ~InLimits(d, t.m.value)
              THEN [log EXCEPT !.outside = @ \cup {t.m.md.rid[1]}] ELSE log
  /\ UNCHANGED <<metadata, stdout, pos, flight, exposing, settling, stagedDevs,
                 req, staged, reported, replies, progress>>
ReadDevice(t) ==
  /\ Handles(t, "read") /\ sts' = In(t, Entry(t.m.md, FALSE), sts)
  /\ log' = [log EXCEPT !.answered = Answers(t),
                        !.points = IF t.m.point >= 0 THEN @ \cup {t.m.point} ELSE @]
  /\ UNCHANGED <<device, req, staged, reported, replies, progress>>
TriggerDevice(t) ==
  /\ Handles(t, "trigger") /\ exposing' = In(t, Entry(t.m.md, TRUE), exposing)
  /\ UNCHANGED <<metadata, stdout, pos, goal, flight, settling, stagedDevs, redis, log>>
KickoffDevice(t) ==
  /\ Handles(t, "kickoff")
  /\ flight' = [d \in Devices |-> IF d \in t.m.device
                   THEN [flight[d] EXCEPT !.kick = t.m.md, !.flies = TRUE, !.told = FALSE, !.sent = 0]
                   ELSE flight[d]]
  /\ sts' = [d \in Devices |-> IF d \in t.m.device \cap Flyers THEN Entry(t.m.md, TRUE) ELSE sts[d]]
  /\ UNCHANGED <<metadata, stdout, pos, goal, exposing, settling, stagedDevs,
                 req, staged, reported, replies, progress, log>>
CompleteDevice(t) ==
  /\ Handles(t, "complete")
  /\ flight' = [d \in Devices |-> IF d \in t.m.device
                   THEN [flight[d] EXCEPT !.complete = t.m.md, !.asked = TRUE] ELSE flight[d]]
  /\ UNCHANGED <<metadata, stdout, pos, goal, exposing, settling, stagedDevs, redis, log>>
PreScanDevice(t) ==
  /\ Handles(t, "pre_scan") /\ req' = In(t, Entry(t.m.md, TRUE), req)
  /\ log' = [log EXCEPT !.answered = Answers(t)]
  /\ UNCHANGED <<device, sts, staged, reported, replies, progress>>
StageDevice(t) ==
  /\ Handles(t, "stage") /\ staged' = In(t, Entry(t.m.md, TRUE), staged)
  /\ stagedDevs' = stagedDevs \cup t.m.device
  /\ log' = [log EXCEPT !.answered = Answers(t)]
  /\ UNCHANGED <<metadata, stdout, pos, goal, flight, exposing, settling,
                 req, sts, reported, replies, progress>>
UnstageDevice(t) ==
  /\ Handles(t, "unstage") /\ staged' = In(t, Entry(t.m.md, FALSE), staged)
  /\ stagedDevs' = stagedDevs \ t.m.device
  /\ log' = [log EXCEPT !.answered = Answers(t)]
  /\ UNCHANGED <<metadata, stdout, pos, goal, flight, exposing, settling,
                 req, sts, reported, replies, progress>>

\* The reply is out before sys.stdout is restored.
RunRpc(t) ==
  /\ t.m.action = "rpc" /\ ~t.replied
  /\ running' = (running \ {t}) \cup {[t EXCEPT !.replied = TRUE]}
  /\ replies' = replies \cup {[key |-> [d |-> d, md |-> t.m.md], value |-> pos[d]]: d \in t.m.device}
  /\ ServerKeeps /\ UNCHANGED <<device, req, sts, staged, reported, progress, reordered, log>>
RestoreStdout(t) ==
  /\ t.replied /\ Handles(t, "rpc") /\ stdout' = t.saved
  /\ UNCHANGED <<metadata, pos, goal, flight, exposing, settling, stagedDevs, redis, log>>

HandleTask ==
  \E t \in running:
    \/ SetDevice(t) \/ ReadDevice(t) \/ TriggerDevice(t) \/ KickoffDevice(t) \/ CompleteDevice(t)
    \/ PreScanDevice(t) \/ StageDevice(t) \/ UnstageDevice(t) \/ RunRpc(t) \/ RestoreStdout(t)

-----------------------------------------------------------------------------
(* The devices and the callbacks they make.                                *)

DeviceKeeps == WorkerKeeps /\ UNCHANGED <<tasks, running, reordered, metadata, stdout, stagedDevs, staged, replies>>
Responses(m) == IF goal[m].response THEN reported \cup {goal[m].md} ELSE reported

Advance(m) ==
  /\ goal[m].moves /\ pos[m] # goal[m].to
  /\ pos' = [pos EXCEPT ![m] = @ + (IF @ < goal[m].to THEN 1 ELSE -1)]
  /\ DeviceKeeps
  /\ UNCHANGED <<goal, flight, exposing, settling, req, sts, reported, progress, stopMsg, log>>

\* _status_callback, then _obj_callback_is_moving: with the metadata that the device has then.
Arrive(m) ==
  /\ goal[m].moves /\ pos[m] = goal[m].to
  /\ goal' = [goal EXCEPT ![m].moves = FALSE]
  /\ req' = [req EXCEPT ![m] = Entry(goal[m].md, TRUE)]
  /\ reported' = Responses(m)
  /\ settling' = settling \cup {m}
  /\ log' = Told(m, goal[m].md)
  /\ DeviceKeeps /\ UNCHANGED <<pos, flight, exposing, sts, progress, stopMsg>>
IsMovingCallback(m) ==
  /\ m \in settling /\ settling' = settling \ {m}
  /\ sts' = [sts EXCEPT ![m] = Entry(metadata[m], FALSE)]
  /\ DeviceKeeps
  /\ UNCHANGED <<pos, goal, flight, exposing, req, reported, progress, stopMsg, log>>

TriggerDone(d) ==
  \E success \in (IF scen.event = "failed trigger" THEN BOOLEAN ELSE {TRUE}):
    /\ exposing[d].on /\ exposing' = [exposing EXCEPT ![d].on = FALSE]
    /\ req' = [req EXCEPT ![d] = Entry(exposing[d].md, success)]
    /\ log' = [Told(d, exposing[d].md) EXCEPT !.failed = @ \/ ~success]
    /\ DeviceKeeps /\ UNCHANGED <<pos, goal, flight, settling, sts, reported, progress, stopMsg>>

\* The status of kickoff, where the device gives one, and the points of the flight.
KickedOff(f) ==
  /\ flight[f].flies /\ ~flight[f].told
  /\ flight' = [flight EXCEPT ![f].told = TRUE]
  /\ req' = [req EXCEPT ![f] = Entry(flight[f].kick, TRUE)]
  /\ log' = Told(f, flight[f].kick)
  /\ DeviceKeeps /\ UNCHANGED <<pos, goal, exposing, settling, sts, reported, progress, stopMsg>>
Emit(f) ==
  /\ flight[f].flies /\ flight[f].told /\ flight[f].sent < FlyPoints
  /\ flight' = [flight EXCEPT ![f].sent = @ + 1]
  /\ progress' = [progress EXCEPT ![f] = [md |-> metadata[f], n |-> flight[f].sent + 1]]
  /\ DeviceKeeps /\ UNCHANGED <<pos, goal, exposing, settling, req, sts, reported, stopMsg, log>>
Land(f) ==
  /\ flight[f].flies /\ flight[f].sent = FlyPoints
  /\ flight' = [flight EXCEPT ![f].flies = FALSE]
  /\ sts' = IF f \in Flyers THEN [sts EXCEPT ![f] = Entry(flight[f].kick, FALSE)] ELSE sts
  /\ DeviceKeeps /\ UNCHANGED <<pos, goal, exposing, settling, req, reported, progress, stopMsg, log>>
Completed(f) ==
  /\ flight[f].asked /\ ~flight[f].flies
  /\ flight' = [flight EXCEPT ![f].asked = FALSE]
  /\ req' = [req EXCEPT ![f] = Entry(flight[f].complete, TRUE)]
  /\ log' = Told(f, flight[f].complete)
  /\ DeviceKeeps /\ UNCHANGED <<pos, goal, exposing, settling, sts, reported, progress, stopMsg>>

\* stop_devices: a movement that is stopped has failed.
StopDevices ==
  LET stopped == {m \in Devices: goal[m].moves}
  IN  /\ stopMsg /\ stopMsg' = FALSE
      /\ goal' = [m \in Devices |-> [goal[m] EXCEPT !.moves = FALSE]]
      /\ flight' = [f \in Devices |-> [flight[f] EXCEPT !.flies = FALSE]]
      /\ req' = [m \in Devices |-> IF m \in stopped THEN Entry(goal[m].md, FALSE) ELSE req[m]]
      /\ reported' = reported \cup {goal[m].md: m \in {n \in stopped: goal[n].response}}
      /\ settling' = settling \cup stopped
      /\ log' = [log EXCEPT !.answered = @ \cup {<<m, goal[m].md>>: m \in stopped}]
      /\ DeviceKeeps /\ UNCHANGED <<pos, exposing, sts, progress>>

Callback == \E d \in Devices:
  \/ Advance(d) \/ Arrive(d) \/ IsMovingCallback(d) \/ TriggerDone(d)
  \/ KickedOff(d) \/ Emit(d) \/ Land(d) \/ Completed(d)

-----------------------------------------------------------------------------
Init ==
  /\ scen \in ToSet(Scenarios)
  /\ it = 1 /\ bl = 1 /\ pc = 1 /\ wpc = "pull"
  /\ scan = NewScan(Block, 0) /\ cur = [step |-> Instr("", {}), md |-> NoMd]
  /\ work = [scan_id |-> NoMd.scan, scan_type |-> "", scan_motors |-> {}, readout |-> {},
             max_point_id |-> 0, staged |-> {}, returning |-> FALSE, last_trigger |-> NoMd,
             sent |-> 0]
  /\ groups = {} /\ status = "RUNNING" /\ tasks = <<>> /\ running = {}
  /\ metadata = [d \in Devices |-> NoMd] /\ stdout = NoMd
  /\ pos = [d \in Devices |-> 0] /\ goal = [d \in Devices |-> Idle]
  /\ flight = [d \in Devices |-> Grounded] /\ exposing = [d \in Devices |-> Empty]
  /\ settling = {} /\ stagedDevs = {}
  /\ req = [d \in Devices |-> Empty] /\ sts = [d \in Devices |-> Empty]
  /\ staged = [d \in Devices |-> Empty] /\ reported = {} /\ replies = {}
  /\ progress = [d \in Devices |-> [md |-> NoMd, n |-> 0]]
  /\ stopMsg = FALSE /\ reordered = FALSE /\ log = NewLog

\* Each wait is a loop that looks into redis.
Polls == (wpc = "wait" \/ AtStep("until") \/ AtStep("_get_from_rpc") \/ AtStep("start_pos.append"))
           /\ UNCHANGED vars
Finished == wpc \in {"done", "dead"} /\ UNCHANGED vars
Next ==
  \/ Worker \/ Interrupt \/ Polls \/ Finished
  \/ StartTask \/ HandleTask \/ StopDevices \/ Callback

\* Whatever can go on goes on, in any order; no client has to interrupt.
Fairness == WF_vars(Worker \/ StartTask \/ HandleTask \/ StopDevices \/ Callback)
Spec == Init /\ [][Next]_vars /\ Fairness

-----------------------------------------------------------------------------
(* Properties.                                                             *)

Marks == [scan: Nat \X Nat, rid: Nat \X Nat, DIID: Nat]
TypeOK ==
  /\ wpc \in {"pull", "wait", "abort", "aborted", "done", "dead"} /\ status \in {"RUNNING", "STOPPED"}
  /\ it \in DOMAIN Items /\ bl \in DOMAIN Item.blocks /\ pc \in Nat
  /\ \A t \in running: t.m.md \in Marks /\ t.m.device \subseteq Devices
  /\ \A d \in Devices: {metadata[d], req[d].md, sts[d].md, staged[d].md, goal[d].md} \subseteq Marks
  /\ \A g \in groups: g[2] \in Devices /\ g[3] \in Nat

\* A device_req_status is told by scanID, RID and DIID, or comes from an instruction to all
\* devices: only the device_status of a read, and in a scan definition the trigger, can be
\* taken for that of an earlier instruction.
MovesAreAwaited == \A e \in log.early: e[1] = "read" \/ (e[1] = "trigger" /\ Items[e[2]].def)

FirstScan(i) == SelectSeq(Items[i].blocks, LAMBDA b: b.is_scan)[1]
\* The number of points a closed scan reports is the number of its readings, counted from
\* zero, over all scans of a definition; an empty scan reports one. It is the number that
\* was last announced, unless the first scan has less than two points.
PointsAreCounted ==
  \A e \in log.ends: LET all == e.read \cup e.pending IN
    IF e.fly THEN all \subseteq 0..(e.closed - 1)
    ELSE /\ all \in {{}, 0..(e.closed - 1)}
         /\ e.opened = e.closed \/ FirstScan(e.it).num_pos < 2

HomeRestored ==
  wpc = "aborted" /\ log.returned /\ ~reordered =>
    \A m \in ToSet(Block.motors): pos[m] = log.home[m]
StdoutRestored == running = {} => stdout = NoMd \/ log.overlap
\* A scan that went back to its start after an abort is where it began; and sys.stdout of
\* the device server is the terminal again after the last rpc, unless two calls overlapped:
\* each restores what it found.
Restored == HomeRestored /\ StdoutRestored

\* No motor is sent beyond its limits unless a motor before it in the scan has none.
LimitsHold ==
  \A i \in log.outside: \E b \in ToSet(Items[i].blocks): \E m \in ToSet(b.motors):
    Limits[m][1] >= Limits[m][2]

\* Devices stay staged from the end of stage to unstage, if the clean-up of the item before
\* is not overtaken by the new scan.
StagedWhileScanning ==
  wpc = "pull" /\ ~work.returning /\ work.staged # {} /\ ~reordered => stagedDevs = Devices

\* What ends the thread of the worker: a scan without num_pos, a return_to_start that yields
\* None or has no positions, an exception at the start of a later request.
DiesForReason ==
  wpc = "dead" => \/ scan.num_pos = -1 \/ ~Block.back \/ (bl > 1 /\ scan.fresh)
                  \/ Len(scan.start_pos) < Len(Block.motors)

\* The worker comes to the end of its items, or its thread ends for one of these reasons:
\* no wait is for an answer that does not come, unless threads changed the order of two instructions, a trigger failed, or the status of
\* an interrupted item came after it and replaced the one that is waited for.
ItemsEnd == []DiesForReason /\ <>(wpc \in {"done", "dead"} \/ reordered \/ log.failed \/ log.late)

=============================================================================
