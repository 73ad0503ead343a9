---------------------------- MODULE ScanPrograms ----------------------------
(***************************************************************************)
(* The scan classes (scan_server/scans.py and the scan plug-ins) as the    *)
(* programs they generate. A program is a sequence of steps: the device    *)
(* instructions that the generator run() yields, made by the stubs of      *)
(* scan_stubs.py, and the steps it takes between two instructions, which   *)
(* may read what a device has answered, loop or raise.                     *)
(*                                                                         *)
(* A scan is a record with one field for each method that a subclass of    *)
(* ScanBase may override, and Run puts them together. Positions are small  *)
(* numbers: the spiral and the rings keep the order and the number of      *)
(* their points, not their geometry, and orders of equal length are alike. *)
(***************************************************************************)
EXTENDS Integers, Sequences, SequencesExt

-----------------------------------------------------------------------------
(* Positions. A position of a motor is a number, counted from zero or from *)
(* the start_pos of the motor with that index.                             *)

At(n) == [from |-> 0, plus |-> n]
Start(i) == [from |-> i, plus |-> 0]

GridPositions(axes) ==
  IF Len(axes) = 1
    THEN [i \in 1..Len(axes[1]) |-> <<At(axes[1][i])>>]
    ELSE LET Row(i) == IF i % 2 = 1 THEN Reverse(axes[2]) ELSE axes[2]
         IN  FlattenSeq([i \in 1..Len(axes[1]) |->
               [j \in 1..Len(axes[2]) |-> <<At(axes[1][i]), At(Row(i)[j])>>]])

\* Those of the points 1..n of the spiral that are inside the ranges.
SpiralPositions(n, inside) ==
  LET kept == SelectSeq([ii \in 1..n |-> ii], LAMBDA ii: ii \in inside)
  IN  [k \in 1..Len(kept) |-> <<At(kept[k]), At(kept[k])>>]

Ring(ir, nth) == [ith \in 1..(nth * ir) |-> <<At(ir), At(ith - 1)>>]
RoundPositions(nr, nth) == FlattenSeq([ir \in 1..(nr + 1) |-> Ring(ir, nth)])
RoundRoiPositions(nr, nth, inside) ==
  SelectSeq(RoundPositions(nr, nth), LAMBDA p: p[1].plus \in inside)

LinePositions(axes) == [k \in 1..Len(axes[1]) |-> [i \in 1..Len(axes) |-> At(axes[i][k])]]

\* positions += start_pos on an array moves every point.
ArrayOffset(positions) ==
  [k \in DOMAIN positions |-> [i \in DOMAIN positions[k] |->
     [from |-> i, plus |-> positions[k][i].plus]]]
\* On a list it appends the start positions, bare numbers, as further points.
ListOffset(positions, motors) == positions \o [i \in DOMAIN motors |-> <<Start(i)>>]
\* For _check_limits a bare number has no entry for any motor.
Subscripts(positions, motors) == positions \o [i \in DOMAIN motors |-> <<>>]

-----------------------------------------------------------------------------
(* The stubs. A device set is {} when the instruction names a group.       *)

Instr(action, devices) ==
  [action |-> action, device |-> devices, group |-> "", wait_group |-> "",
   type |-> "", value |-> At(0), pointID |-> FALSE, response |-> FALSE]

Set(dev, value, group) ==
  <<[Instr("set", {dev}) EXCEPT !.value = value, !.wait_group = group]>>
ReadDevices(devs, group, point) ==
  <<[Instr("read", devs) EXCEPT !.wait_group = group, !.pointID = point]>>
Read(group, wait_group, point) ==
  <<[Instr("read", {}) EXCEPT !.group = group, !.wait_group = wait_group, !.pointID = point]>>
Wait(type, group, wait_group) ==
  <<[Instr("wait", {}) EXCEPT !.type = type, !.group = group, !.wait_group = wait_group]>>
WaitDevices(type, devs, wait_group) ==
  <<[Instr("wait", devs) EXCEPT !.type = type, !.wait_group = wait_group]>>
Trigger == <<[Instr("trigger", {}) EXCEPT !.group = "trigger", !.pointID = TRUE]>>
PublishAsRead(dev) == <<[Instr("publish_data_as_read", {dev}) EXCEPT !.pointID = TRUE]>>
Kickoff(dev) == <<[Instr("kickoff", {dev}) EXCEPT !.wait_group = "kickoff"]>>
Complete(dev) == <<Instr("complete", {dev})>>
OpenScan == <<Instr("open_scan", {})>>
CloseScan == <<Instr("close_scan", {})>>
Stage == <<Instr("stage", {})>>
Unstage == <<Instr("unstage", {})>>
PreScan == <<Instr("pre_scan", {})>>
Baseline == <<Instr("baseline_reading", {})>>
Report == <<Instr("scan_report_instruction", {})>>
OpenDef == <<Instr("open_scan_def", {})>>
CloseDef == <<Instr("close_scan_def", {})>>
CloseGroup == <<Instr("close_scan_group", {})>>
Rpc(dev) == <<Instr("rpc", {dev})>>

ReadAndWaitDevices(devs, wait_group, point) ==
  ReadDevices(devs, wait_group, point) \o WaitDevices("read", devs, wait_group)
ReadAndWait(wait_group, point) ==
  Read("primary", wait_group, point) \o Wait("read", "primary", wait_group)
SetAndWait(devs, values) ==
  FlattenSeq([i \in DOMAIN devs |-> Set(devs[i], values[i], "scan_motor")])
    \o WaitDevices("move", ToSet(devs), "scan_motor")

(* Steps between two instructions. yield None is one the worker skips.     *)
Local(action) == <<Instr(action, {})>>
Nothing == Local("yield None")
NextPoint == Local("pointID += 1")
RpcAndWait(dev) == <<[Instr("rpc", {dev}) EXCEPT !.response = TRUE]>> \o <<Instr("_get_from_rpc", {dev})>>
\* while True: body, until the request before the loop is done. It is looked up in the
\* request status of the device, in its status, or among the responses to the request.
Until(dev, key, body) ==
  Local("target_diid = DIID - 1") \o body
    \o <<[Instr("until", {dev}) EXCEPT !.type = key, !.value = At(Len(body))]>>
Progress(dev) == <<Instr("num_pos = progress", {dev})>>

-----------------------------------------------------------------------------
(* ScanBase.                                                               *)

MoveAndWait(motors, pos) ==
  IF pos = <<>> THEN <<>>
  ELSE FlattenSeq([i \in DOMAIN motors |->
         IF i \in DOMAIN pos THEN Set(motors[i], pos[i], "scan_motor") ELSE Local("raise")])
       \o Wait("move", "scan_motor", "scan_motor")

\* Mutant of ReturnToStart: nobody waits for the motors.
ReturnUnawaited(motors, start_pos) ==
  FlattenSeq([i \in DOMAIN start_pos |-> Set(motors[i], Start(i), "scan_motor")])
\* What return_to_start yields: start_pos may have another length than scan_motors.
ReturnToStart(motors, start_pos) ==
  MoveAndWait(motors, [i \in DOMAIN start_pos |-> Start(i)])

SetPositionOffset(motors) ==
  Local("start_pos = []") \o FlattenSeq([i \in DOMAIN motors |->
    RpcAndWait(motors[i]) \o <<Instr("start_pos.append", {motors[i]})>>])

CheckLimits(positions) == <<[Instr("_check_limits", {}) EXCEPT !.value = positions]>>

Exposure(point) ==
  Trigger \o Wait("trigger", "trigger", "") \o Read("primary", "readout_primary", point)

AtEachPoint(motors, ind, pos) ==
  MoveAndWait(motors, pos)
    \o (IF ind > 1 THEN Wait("read", "primary", "readout_primary") ELSE <<>>)
    \o Exposure(TRUE) \o Wait("read", "scan_motor", "readout_primary") \o NextPoint

StepCore(p) ==
  FlattenSeq([ind \in DOMAIN p.positions |->
    FlattenSeq([burst \in 1..p.burst |-> AtEachPoint(p.motors, ind, p.positions[ind])])])

ScanBase(p) ==
  [motors |-> p.motors, type |-> "step", is_scan |-> TRUE, zeros |-> Len(p.motors),
   returns |-> TRUE, back |-> TRUE, num_pos |-> Len(p.positions) * p.burst,
   read |-> ReadAndWaitDevices(ToSet(p.motors), "scan_motor", FALSE),
   prepare |-> SetPositionOffset(p.motors) \o CheckLimits(p.positions),
   report |-> Nothing,
   pre_scan |-> (IF p.positions = <<>> THEN <<>> ELSE MoveAndWait(p.motors, p.positions[1]))
                  \o PreScan,
   core |-> StepCore(p),
   finalize |-> FlattenSeq([i \in DOMAIN p.motors |-> Set(p.motors[i], Start(i), "scan_motor")])
                  \o (IF p.motors = <<>> THEN <<>> ELSE Wait("move", "scan_motor", "scan_motor"))
                  \o Wait("read", "primary", "readout_primary")]

Run(s) ==
  Local("initialize") \o s.read \o s.prepare \o s.report \o OpenScan \o Stage \o Baseline
    \o s.pre_scan \o s.core \o s.finalize \o Unstage \o CloseScan

Program(s, run) ==
  [motors |-> s.motors, type |-> s.type, is_scan |-> s.is_scan, zeros |-> s.zeros,
   returns |-> s.returns, back |-> s.back, num_pos |-> s.num_pos, steps |-> run]
Scan(s) == Program(s, Run(s))

StepScan(motors, positions, burst, relative) ==
  Scan(ScanBase([motors |-> motors, burst |-> burst,
                 positions |-> IF relative THEN ArrayOffset(positions) ELSE positions]))

-----------------------------------------------------------------------------
(* The step scans.                                                         *)

GridScan(motors, axes, relative) == StepScan(motors, GridPositions(axes), 1, relative)
FermatSpiralScan(motors, n, inside, burst) == StepScan(motors, SpiralPositions(n, inside), burst, FALSE)
RoundScan(motors, nr, nth) == StepScan(motors, RoundPositions(nr, nth), 1, FALSE)
RoundROIScan(motors, nr, nth, inside) == StepScan(motors, RoundRoiPositions(nr, nth, inside), 1, FALSE)
LineScan(motors, axes, burst, relative) == StepScan(motors, LinePositions(axes), burst, relative)

\* num_pos is set before the start positions are appended.
ListScan(motors, axes, relative) ==
  LET given == LinePositions(axes)
      positions == IF relative THEN ListOffset(given, motors) ELSE given
      checked == IF relative THEN Subscripts(given, motors) ELSE given
  IN  Scan([ScanBase([motors |-> motors, positions |-> positions, burst |-> 1]) EXCEPT
              !.num_pos = Len(given),
              !.prepare = SetPositionOffset(motors) \o CheckLimits(checked)])

\* The motor passes the points, which are read without waiting for it.
ContLineScan(motors, axis, offset) ==
  LET p == [motors |-> motors, positions |-> LinePositions(<<axis>>), burst |-> 1]
      Pass(k) == <<[Instr("pass", {motors[1]}) EXCEPT !.value = At(axis[k])]>>
                   \o Trigger \o Read("primary", "primary", TRUE) \o NextPoint
  IN  Scan([ScanBase(p) EXCEPT !.core =
        MoveAndWait(motors, <<At(axis[1] - offset)>>)
          \o Set(motors[1], At(axis[Len(axis)]), "scan_motor")
          \o FlattenSeq([k \in DOMAIN axis |-> Pass(k)])])

NoPositions(motors) == [motors |-> motors, positions |-> <<>>, burst |-> 1]

TimeScan(points) ==
  LET Point(ind) == (IF ind > 1 THEN Wait("read", "primary", "readout_primary") ELSE <<>>)
                      \o Exposure(TRUE) \o Wait("trigger", "trigger", "") \o NextPoint
  IN  Scan([ScanBase(NoPositions(<<>>)) EXCEPT !.num_pos = points, !.prepare = Nothing,
              !.core = FlattenSeq([ind \in 1..points |-> Point(ind)])])

Acquire(burst) ==
  LET Point(ind) == (IF ind > 1 THEN Wait("read", "primary", "readout_primary") ELSE <<>>)
                      \o Exposure(TRUE) \o NextPoint
      s == [ScanBase(NoPositions(<<>>)) EXCEPT !.num_pos = burst,
              !.core = FlattenSeq([ind \in 1..burst |-> Point(ind)])]
  IN  Program(s, Local("initialize") \o OpenScan \o Stage \o Baseline \o s.core \o s.finalize
                   \o Unstage \o CloseScan)

-----------------------------------------------------------------------------
(* The fly scans: num_pos is what the scan object says when it is closed.  *)

RoundScanFlySim(flyer, nr, nth) ==
  LET positions == RoundPositions(nr, nth)
      s == ScanBase([motors |-> <<flyer>>, positions |-> positions, burst |-> 1])
  IN  Scan([s EXCEPT !.type = "fly", !.prepare = CheckLimits(positions) \o Nothing,
              !.pre_scan = PreScan, !.finalize = Nothing,
              !.core = Kickoff(flyer) \o Until(flyer, "status", ReadAndWait("readout_primary", FALSE))])

\* positions is a list: a relative scan moves to the absolute positions all the same.
MonitorScan(device, start, stop, relative) ==
  LET given == <<<<At(start)>>, <<At(stop)>>>>
      p == [motors |-> <<device>>, positions |-> given, burst |-> 1]
      checked == IF relative THEN Subscripts(given, <<device>>) ELSE given
      answer == <<[Instr("set", {device}) EXCEPT !.value = At(stop), !.response = TRUE,
                                                 !.wait_group = "scan_motor"]>>
  IN  Scan([ScanBase(p) EXCEPT !.type = "fly", !.num_pos = 0,
        !.prepare = SetPositionOffset(<<device>>) \o CheckLimits(checked),
        !.core = Set(device, At(start), "scan_motor")
                   \o WaitDevices("move", {device}, "scan_motor") \o answer
                   \o Until(device, "report", PublishAsRead(device) \o NextPoint \o Local("num_pos += 1"))])

\* FlyScanBase neither reads the motors nor prepares positions.
FlyScanBase(flyer) ==
  [ScanBase(NoPositions(<<>>)) EXCEPT !.type = "fly", !.read = Nothing, !.prepare = Nothing,
     !.pre_scan = PreScan,
     !.core = Kickoff(flyer) \o Complete(flyer) \o Until(flyer, "req", <<>>) \o Progress(flyer)]

OTFScan(mono, otf) ==
  Scan([FlyScanBase(otf) EXCEPT !.num_pos = 0, !.pre_scan = Nothing,
    !.core = Set(mono, At(1), "flyer") \o WaitDevices("move", {mono}, "flyer")
               \o Kickoff(otf) \o WaitDevices("move", {otf}, "kickoff") \o Complete(otf)
               \o Until(otf, "req", ReadAndWait("readout_primary", FALSE)) \o Progress(otf)])

SgalilGrid(motors, start, controllers) ==
  Scan([FlyScanBase(motors[1]) EXCEPT !.report = Report, !.motors = motors, !.num_pos = 1,
    !.pre_scan = MoveAndWait(motors, start) \o PreScan,
    !.core = FlattenSeq([i \in DOMAIN controllers |-> RpcAndWait(controllers[i])])
               \o Kickoff(motors[1]) \o Until(motors[1], "req", ReadAndWait("readout_primary", FALSE))])

\* The field is ramped while the energy motor goes to and fro. Its positions are for one
\* motor and it has two; and its return_to_start yields None.
HystScan(energy, flyer, stop) ==
  LET s == ScanBase([motors |-> <<energy, flyer>>, positions |-> <<<<At(0)>>>>, burst |-> 1])
  IN  Scan([s EXCEPT !.num_pos = 0, !.prepare = Nothing \o CheckLimits(<<<<At(0)>>>>), !.zeros = 0,
        !.back = FALSE,
        !.core = RpcAndWait(flyer) \o Set(flyer, At(0), "flyer")
                   \o WaitDevices("move", {flyer}, "flyer") \o RpcAndWait(flyer)
                   \o Set(flyer, At(stop), "flyer")
                   \o Until(flyer, "req", Set(energy, At(0), "mono")
                        \o WaitDevices("move", {energy}, "mono")
                        \o ReadAndWaitDevices({energy, flyer}, "readout_primary", TRUE)
                        \o NextPoint)
                   \o RpcAndWait(flyer),
        !.finalize = Nothing \o Wait("read", "primary", "readout_primary")])

-----------------------------------------------------------------------------
(* LamNI: the stage is centred in at most two iterations, whose number     *)
(* depends on the drift that the interferometer shows.                     *)

NewScanCenter(rt, lsam, iterations) ==
  LET Readings(ds) == FlattenSeq([i \in DOMAIN ds |-> RpcAndWait(ds[i])])
      Centre == SetAndWait(lsam, [i \in DOMAIN lsam |-> At(1)]) \o Readings(rt)
  IN  RpcAndWait(rt[1]) \o Readings(rt \o lsam)
        \o (IF iterations = 0 THEN Readings(rt) ELSE Centre)
        \o (IF iterations = 2 THEN Centre ELSE <<>>) \o RpcAndWait(rt[1])

LamNIMoveToScanCenter(rt, lsam, iterations) ==
  Program([ScanBase(NoPositions(<<>>)) EXCEPT !.is_scan = FALSE, !.returns = FALSE],
          NewScanCenter(rt, lsam, iterations))

\* min_positions is 20 in the code. scan_motors are set by initialize, after __init__.
LamNIFermatScan(rt, lsam, rot, n, min_positions, iterations, fly) ==
  LET positions == SpiralPositions(n, 1..n)
      s == [ScanBase([motors |-> rt, positions |-> positions, burst |-> 1]) EXCEPT
              !.zeros = 0, !.type = IF fly THEN "fly" ELSE "step",
              !.finalize = Wait("read", "primary", "readout_primary")]
      setup == RpcAndWait(rt[1]) \o RpcAndWait(rot) \o Report \o SetAndWait(<<rot>>, <<At(1)>>)
                 \o NewScanCenter(rt, lsam, iterations)
                 \o (IF fly THEN RpcAndWait(rt[1]) ELSE <<>>)
  IN  Program(s, Local("initialize") \o s.read
        \o (IF n < min_positions THEN Local("raise") ELSE <<>>)
        \o setup \o OpenScan \o Stage \o Baseline
        \o (IF fly THEN Kickoff(rt[1]) \o Until(rt[1], "status", ReadAndWait("readout_primary", FALSE))
                   ELSE s.core)
        \o s.finalize \o Unstage \o CloseScan)

-----------------------------------------------------------------------------
(* Requests that are no scans of their own, and the interactive scan.      *)

Stub(steps) ==
  Program([ScanBase(NoPositions(<<>>)) EXCEPT !.is_scan = FALSE, !.returns = FALSE,
                                              !.num_pos = -1], steps)
OpenScanDef == Stub(OpenDef)
CloseScanDef == Stub(CloseDef)
CloseScanGroup == Stub(CloseGroup)
DeviceRPC(dev) == Stub(Rpc(dev))

PrepareMove(motors, positions) ==
  Local("initialize") \o SetPositionOffset(motors) \o CheckLimits(positions)

Move(motors, pos) ==
  Stub(PrepareMove(motors, <<pos>>) \o Nothing
         \o FlattenSeq([i \in DOMAIN motors |->
              <<[Instr("set", {motors[i]}) EXCEPT !.value = pos[i], !.response = TRUE,
                                                 !.wait_group = "scan_motor"]>>]))
UpdatedMove(motors, pos) ==
  Stub(PrepareMove(motors, <<pos>>) \o Report
         \o FlattenSeq([i \in DOMAIN motors |-> Set(motors[i], pos[i], "scan_motor")])
         \o FlattenSeq([i \in DOMAIN motors |-> WaitDevices("move", {motors[i]}, "scan_motor")]))

\* None of the interactive requests prepares positions: num_pos stays None, here -1.
OpenInteractiveScan(motors) ==
  LET s == [ScanBase(NoPositions(motors)) EXCEPT !.num_pos = -1]
  IN  Program(s, OpenDef \o Local("initialize") \o s.read \o OpenScan \o Stage \o Baseline)
AddInteractiveScanPoint(motors) ==
  Program([ScanBase(NoPositions(motors)) EXCEPT !.num_pos = -1],
          OpenScan \o Trigger \o Wait("trigger", "trigger", "")
            \o ReadAndWait("readout_primary", TRUE) \o NextPoint \o CloseScan)
CloseInteractiveScan ==
  LET s == ScanBase(NoPositions(<<>>)) IN Program(s, s.finalize \o Unstage \o CloseScan \o CloseDef)

=============================================================================
