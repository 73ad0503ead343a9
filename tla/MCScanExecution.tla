-------------------------- MODULE MCScanExecution --------------------------
(* Small scans for TLC: two motors, a monitor, a detector and a flyer; m1  *)
(* has limits. One scenario for each scan class, and some for sequences.   *)
EXTENDS ScanExecution

CONSTANTS m1, m2, mon, det, fly

LimitsDef == [d \in {m1, m2, mon, det, fly} |-> IF d = m1 THEN <<0, 2>> ELSE <<0, 0>>]

Item1(program) == [def |-> FALSE, blocks |-> <<program>>]
One(program, event) == [items |-> <<Item1(program)>>, event |-> event]
Two(first, second, event) == [items |-> <<Item1(first), Item1(second)>>, event |-> event]
Definition(programs) == [def |-> TRUE, blocks |-> <<OpenScanDef>> \o programs \o <<CloseScanDef>>]
Def(programs) == [items |-> <<Definition(programs)>>, event |-> ""]

Line == LineScan(<<m1>>, <<<<1, 2>>>>, 1, FALSE)
Point == LineScan(<<m1>>, <<<<1>>>>, 1, FALSE)
Both == <<m1, m2>>

StepScans == <<
  One(Point, "abort"), One(Line, ""),
  One(GridScan(Both, <<<<0>>, <<1>>>>, TRUE), ""),
  One(FermatSpiralScan(Both, 2, {1}, 1), ""),
  One(RoundScan(Both, 0, 1), ""), One(RoundROIScan(Both, 1, 1, {1}), ""),
  One(ListScan(<<m2>>, <<<<1>>>>, FALSE), "failed trigger"), One(ListScan(<<m2>>, <<<<1>>>>, TRUE), ""),
  One(ListScan(Both, <<<<1>>, <<1>>>>, TRUE), ""), One(LineScan(<<m1>>, <<<<3>>>>, 1, FALSE), ""),
  One(LineScan(<<m1>>, <<<<>>>>, 1, FALSE), ""),
  One(ContLineScan(<<m2>>, <<1, 2>>, 1), ""), One(TimeScan(2), ""), One(Acquire(2), "")>>
FlyScans == <<
  One(RoundScanFlySim(fly, 1, 1), ""), One(MonitorScan(m1, 0, 1, FALSE), ""),
  One(Scan(FlyScanBase(fly)), ""), One(OTFScan(m1, fly), ""),
  One(SgalilGrid(<<m1, m2>>, <<At(0), At(1)>>, <<mon>>), ""), One(HystScan(m1, m2, 1), ""),
  One(LamNIFermatScan(<<m1>>, <<m2>>, m2, 1, 1, 0, FALSE), ""),
  One(LamNIFermatScan(Both, Both, m1, 1, 2, 1, TRUE), "")>>
Requests == <<
  Two(Move(<<m1>>, <<At(2)>>), LineScan(<<m1>>, <<<<1>>>>, 1, TRUE), ""),
  One(Move(Both, <<At(1), At(2)>>), "abort"), One(UpdatedMove(<<m1>>, <<At(1)>>), "abort"),
  One(LamNIMoveToScanCenter(<<m1>>, <<m2>>, 2), ""), One(OpenInteractiveScan(<<m1>>), ""),
  One(AddInteractiveScanPoint(<<m1>>), ""), One(CloseInteractiveScan, ""), One(DeviceRPC(m1), ""),
  [items |-> <<[def |-> FALSE, blocks |-> <<Acquire(1), DeviceRPC(m1), CloseScanGroup>>]>>, event |-> ""],
  Two(Acquire(1), Acquire(1), "abort"), Two(Acquire(1), Move(<<m1>>, <<At(1)>>), "halt")>>
Definitions == <<
  Def(<<Acquire(1), Acquire(1)>>), Def(<<Line, Point>>), Def(<<Point, Line>>),
  Def(<<Acquire(1), Scan(FlyScanBase(fly))>>)>>
ScansDef == StepScans \o FlyScans \o Requests \o Definitions
=============================================================================
