---------------------------- MODULE ScanBundler ----------------------------
(***************************************************************************)
(* The scan bundler (scan_bundler/scan_bundler/scan_bundler.py) collects   *)
(* the readings of the devices into points and emits a point when all its  *)
(* monitored devices were read.                                            *)
(*                                                                         *)
(* Two consumers feed it. The scan status consumer keeps the storages of   *)
(* the scans and runs in one thread. The device read consumer hands each   *)
(* reading to an executor, whose threads wait for the scan of the reading. *)
(* Readings and states arrive on different topics, so a reading may be     *)
(* early, late, or belong to a scan that the bundler never heard of.       *)
(*                                                                         *)
(* What the scan worker and the device server send is modelled with it:    *)
(* the worker asks for the readings of a point and waits for them before   *)
(* it asks for the next ones, and it waits for no baseline reading.        *)
(***************************************************************************)
EXTENDS Naturals, Sequences, FiniteSets, SequencesExt


CONSTANTS
  Scans,          (* The scanIDs.                                           *)
  Fly,            (* Those with scan_type "fly".                            *)
  Monitored,      (* The monitored devices.                                 *)
  Baseline,       (* The baseline devices.                                  *)
  Reports,        (* The states of a scan, apart from open, that occur.     *)
  NumPoints,      (* Points of a scan, from 1; a baseline reading has 0.    *)
  Workers,        (* Threads of the executor, 4 in the code.                *)
  HistoryLength   (* maxlen of scanID_history, 10 in the code.              *)

ASSUME ScansAssumption == Fly \subseteq Scans
ASSUME DevicesAssumption == Monitored # {} /\ Monitored \cap Baseline = {}
ASSUME ReportsAssumption == Reports \subseteq {"paused", "closed", "aborted", "halted"}
ASSUME NumPointsAssumption == NumPoints \in Nat
ASSUME WorkersAssumption == Workers \in Nat
ASSUME HistoryAssumption == HistoryLength \in Nat \ {0}

VARIABLES
  \* the scan worker and the device server
  phase,          (* what the worker did with a scan                        *)
  asked,          (* the point of each scan whose readings it asked for     *)
  published,      (* the readings that devices have published               *)
  \* topics
  scan_status,    (* the scan states published so far                       *)
  scan_segment,   (* the points that the emitter got, which sends them      *)
  scan_baseline,  (* the scans whose baseline was sent                      *)
  \* the scan status consumer
  seen,           (* how many states it has handled                         *)
  \* ScanBundler
  sync,           (* sync_storage[scanID]["status"], "absent" without entry *)
  info,           (* scans whose entry has the info of its open message     *)
  initialized,    (* storage_initialized                                    *)
  history,        (* scanID_history                                         *)
  stored,         (* the readings in sync_storage                           *)
  \* executor
  tasks           (* readings submitted to the executor and not yet done    *)

worldVars == <<phase, asked, published, scan_status>>
scanVars == <<seen, sync, info, initialized, history>>
emitterVars == <<scan_segment, scan_baseline>>
vars == <<worldVars, scanVars, stored, tasks, emitterVars>>

-----------------------------------------------------------------------------

Final == {"closed", "aborted", "halted"}
Status == {"open", "paused"} \cup Final
Points == 1..NumPoints
Readings == [scan : Scans, device : Monitored, point : Points]
            \cup [scan : Scans, device : Baseline, point : {0}]
Segments == [scan : Scans, point : Points, by : Monitored]

Reading(s, d, p) == [scan |-> s, device |-> d, point |-> p]
Segment(s, p, d) == [scan |-> s, point |-> p, by |-> d]
InSeq(seq, x) == \E k \in 1..Len(seq) : seq[k] = x
Complete(readings, s, p) == \A d \in Monitored : Reading(s, d, p) \in readings

TypeOK ==
  /\ phase \in [Scans -> Status \cup {"new"}]
  /\ asked \in [Scans -> 0..NumPoints]
  /\ published \subseteq Readings
  /\ scan_status \in Seq([scan : Scans, status : Status])
  /\ scan_segment \in Seq(Segments) /\ scan_baseline \subseteq Scans
  /\ seen \in 0..Len(scan_status)
  /\ sync \in [Scans -> Status \cup {"absent"}]
  /\ info \subseteq Scans /\ initialized \subseteq Scans /\ history \in Seq(Scans)
  /\ Len(history) <= HistoryLength
  /\ stored \subseteq Readings
  /\ tasks \in Seq(Readings)

\* A scan may be running when the bundler starts: it missed the open message.
Init ==
  /\ \E started \in SUBSET Scans :
       /\ \A s, t \in started : s = t
       /\ phase = [s \in Scans |-> IF s \in started THEN "open" ELSE "new"]
  /\ asked = [s \in Scans |-> 0] /\ published = {}
  /\ scan_status = <<>> /\ scan_segment = <<>> /\ scan_baseline = {}
  /\ seen = 0
  /\ sync = [s \in Scans |-> "absent"]
  /\ info = {} /\ initialized = {} /\ history = <<>> /\ stored = {}
  /\ tasks = <<>>

-----------------------------------------------------------------------------
(* The scan worker and the device server                                    *)

BundlerFrame == UNCHANGED <<scanVars, stored, emitterVars>>

Announce(s, status) ==
  /\ phase' = [phase EXCEPT ![s] = status]
  /\ scan_status' = Append(scan_status, [scan |-> s, status |-> status])
  /\ UNCHANGED <<asked, published, tasks>>

OpenScan(s) ==
  /\ phase[s] = "new"
  /\ \A t \in Scans : phase[t] \in Final \cup {"new"}
  /\ Announce(s, "open")

AllRead(s) == asked[s] = 0 \/ Complete(published, s, asked[s])

\* A scan is closed after its last point. A pause is announced, its end is not: the
\* scan goes on.
ReportScan(s, status) ==
  /\ phase[s] = "open" \/ (phase[s] = "paused" /\ status # "paused")
  /\ status = "closed" => asked[s] = NumPoints /\ AllRead(s)
  /\ Announce(s, status)

\* The worker has waited for the readings of the previous point.
AskReadings(s) ==
  /\ phase[s] \in {"open", "paused"}
  /\ asked[s] < NumPoints /\ AllRead(s)
  /\ asked' = [asked EXCEPT ![s] = @ + 1]
  /\ UNCHANGED <<phase, published, scan_status, tasks>>

\* A device publishes what it was asked for, possibly after the scan was aborted;
\* the device read consumer submits a task for it.
TakeReading(r) ==
  /\ phase[r.scan] # "new" /\ r \notin published
  /\ r.point \in {0, asked[r.scan]}
  /\ published' = published \cup {r}
  /\ tasks' = Append(tasks, r)
  /\ UNCHANGED <<phase, asked, scan_status>>

World == /\ \/ \E s \in Scans : \/ OpenScan(s) \/ AskReadings(s)
                                \/ \E status \in Reports : ReportScan(s, status)
            \/ \E r \in Readings : TakeReading(r)
         /\ BundlerFrame

-----------------------------------------------------------------------------
(* The scan status consumer: handle_scan_status_message. Only this thread   *)
(* writes scanVars, and a reading that comes in the middle of a clean-up    *)
(* fares as one that comes before or after it.                              *)

\* Mutant of Outdated: a clean-up that knows of closed scans only.
OutdatedClosed == {s \in Scans : sync[s] = "closed" /\ ~InSeq(history, s)}

\* What cleanup_storage removes.
Outdated == {s \in Scans : sync[s] \in {"closed", "aborted"} /\ ~InSeq(history, s)}

\* scanID_history, a deque with maxlen.
Remember(s) ==
  IF InSeq(history, s) THEN history
  ELSE IF Len(history) < HistoryLength THEN Append(history, s)
  ELSE Append(Tail(history), s)

\* After the clean-up, a scan that is not in the storage is initialised by its open
\* message; any other message makes an entry without info.
HandleStatus ==
  LET s == scan_status[seen + 1].scan
      status == scan_status[seen + 1].status
      known == sync[s] # "absent" /\ s \notin Outdated
  IN
  /\ seen < Len(scan_status)
  /\ seen' = seen + 1
  /\ sync' = [t \in Scans |-> IF t = s /\ ~(known /\ status = "open") THEN status
                             ELSE IF t \in Outdated THEN "absent" ELSE sync[t]]
  /\ info' = (info \ Outdated) \cup {t \in {s} : ~known /\ status = "open"}
  /\ initialized' = (initialized \ Outdated) \cup {s}
  /\ history' = IF known THEN history ELSE Remember(s)
  /\ stored' = {r \in stored : r.scan \notin Outdated}
  /\ UNCHANGED <<worldVars, tasks, emitterVars>>

-----------------------------------------------------------------------------
(* The executor: _add_device_to_storage                                     *)

\* The threads are busy with the oldest tasks, and any of them may be done first.
EndTask(r) ==
  /\ \E k \in 1..Len(tasks) : /\ k <= Workers /\ tasks[k] = r
                             /\ tasks' = RemoveAt(tasks, k)
  /\ UNCHANGED <<worldVars, scanVars>>

\* _wait_for_scanID ends after 10 s, which are long against the delivery of a message
\* that was published already.
Opening(s) == \E k \in (seen + 1)..Len(scan_status) :
                scan_status[k] = [scan |-> s, status |-> "open"]
GiveUp(r) ==
  /\ r.scan \notin initialized /\ ~Opening(r.scan)
  /\ EndTask(r)
  /\ UNCHANGED <<stored, emitterVars>>

\* Mutant of HasInfo: readings of scans that have ended are dropped.
HasInfoAndOpen(s) == s \in info /\ sync[s] \notin {"closed", "aborted"}

\* It ends too when the scan is initialised; _add_device_to_storage then looks for
\* the info of the scan. Without it the task returns, or it fails with a KeyError that
\* nobody sees.
HasInfo(s) == s \in info

Drop(r) ==
  /\ r.scan \in initialized /\ ~HasInfo(r.scan)
  /\ EndTask(r)
  /\ UNCHANGED <<stored, emitterVars>>

\* The updates run under a lock. A clean-up after the wait makes them fail, as one
\* before makes the wait.
Store(r) ==
  /\ r.scan \in initialized /\ HasInfo(r.scan)
  /\ EndTask(r)
  /\ stored' = stored \cup {r}

\* Into the buffer of the emitter; its thread sends what is there, in that order.
SendPoint(r) ==
  scan_segment' = Append(scan_segment, Segment(r.scan, r.point, r.device))

\* Mutant of StepScanUpdate: the point is sent with each of its readings.
StepScanUpdateAny(r) ==
  /\ r.point # 0 /\ r.scan \notin Fly
  /\ SendPoint(r)
  /\ UNCHANGED scan_baseline

\* Mutant of StepScanUpdate: points of a paused scan are not sent.
StepScanUpdateOpen(r) ==
  /\ r.point # 0 /\ r.scan \notin Fly
  /\ IF sync[r.scan] = "open" /\ Complete(stored', r.scan, r.point) THEN SendPoint(r)
     ELSE UNCHANGED scan_segment
  /\ UNCHANGED scan_baseline

StepScanUpdate(r) ==
  /\ r.point # 0 /\ r.scan \notin Fly
  /\ IF Complete(stored', r.scan, r.point) THEN SendPoint(r)
     ELSE UNCHANGED scan_segment
  /\ UNCHANGED scan_baseline

FlyScanUpdate(r) ==
  /\ r.point # 0 /\ r.scan \in Fly
  /\ SendPoint(r)
  /\ UNCHANGED scan_baseline

\* The baseline is sent when all its devices were read.
BaselineUpdate(r) ==
  /\ r.point = 0
  /\ scan_baseline' = IF \A d \in Baseline : Reading(r.scan, d, 0) \in stored'
                      THEN scan_baseline \cup {r.scan} ELSE scan_baseline
  /\ UNCHANGED scan_segment

Update(r) == Store(r) /\ (StepScanUpdate(r) \/ FlyScanUpdate(r) \/ BaselineUpdate(r))

Executor == \E r \in Readings : GiveUp(r) \/ Drop(r) \/ Update(r)

\* All scans are over and everything was dealt with.
Quiet == seen = Len(scan_status) /\ tasks = <<>>
Idle == /\ Quiet /\ \A s \in Scans : phase[s] \in Final
        /\ UNCHANGED vars

Next == World \/ HandleStatus \/ Executor \/ Idle
Spec == Init /\ [][Next]_vars

-----------------------------------------------------------------------------
(* Properties                                                               *)

\* _step_scan_update: a point of a step scan is emitted only when every monitored
\* device was read at that point, in whatever order the threads get the readings.
EmittedComplete ==
  \A k \in 1..Len(scan_segment) :
    LET e == scan_segment[k] IN e.scan \notin Fly => Complete(published, e.scan, e.point)

\* cleanup_storage, "remove old scanIDs to free memory": a closed or aborted scan that
\* is not in the history goes with the next message. It is there only if the last message
\* was its own, or the first one of a scan, which pushed it out of the history.
FirstMessage(k) == \A j \in 1..(k - 1) : scan_status[j].scan # scan_status[k].scan
StorageBounded ==
  \A s \in Scans : sync[s] \in {"closed", "aborted"} /\ ~InSeq(history, s) =>
                     scan_status[seen].scan = s \/ FirstMessage(seen)

\* Whatever order readings and states come in: while the bundler knows a scan, each
\* reading of it that was published is in the storage or still with the executor. None
\* was dropped by a wait that ended too early or by an entry that came too late.
ReadingsKept == \A r \in published : r.scan \in info => InSeq(tasks, r) \/ r \in stored

\* A point of which all readings are in the storage was emitted: the thread that brings
\* the last reading never leaves that to another one.
Sent(s, p) == \E d \in Monitored : InSeq(scan_segment, Segment(s, p, d))
CompleteIsSent == \A s \in Scans, p \in Points : Complete(stored, s, p) => Sent(s, p)

\* The bundler implements the stream of points that its readers rely on.
Stream == INSTANCE PointStream WITH Devices <- Monitored
EmitsOnce == Stream!Spec
=============================================================================
