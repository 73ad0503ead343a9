------------------------- MODULE ScanBundlerProofs -------------------------
(***************************************************************************)
(* Theorems about ScanBundler for every set of scans and devices, every    *)
(* number of points, threads and remembered scans.                         *)
(***************************************************************************)
EXTENDS ScanBundler, SequenceTheorems, TLAPS

-----------------------------------------------------------------------------
(* The inductive invariant. A reading is submitted once, and nothing is     *)
(* stored or sent of a reading that is still with the executor; ...         *)

Consumed(r) == r \in published /\ ~InSeq(tasks, r)
Distinct == \A j, k \in 1..Len(tasks) : tasks[j] = tasks[k] => j = k
TaskInv == /\ Distinct
           /\ \A r \in Readings : InSeq(tasks, r) => r \in published
           /\ \A r \in stored : Consumed(r)
           /\ \A r \in published : phase[r.scan] # "new"

\* ... what was sent is used up, in a step scan with all readings of the point; ...
UsedUp(e) == /\ Consumed(Reading(e.scan, e.by, e.point))
             /\ e.scan \notin Fly =>
                  \A d \in Monitored : Consumed(Reading(e.scan, d, e.point))
SegmentInv == \A k \in 1..Len(scan_segment) : UsedUp(scan_segment[k])

\* ... a scan begins with its open message, and what the bundler knows of a scan
\* comes from a message that it has handled; ...
OpenFirst == \A j, k \in 1..Len(scan_status) :
               j < k /\ scan_status[k].status = "open" => scan_status[j].scan # scan_status[k].scan
Heard(s) == \E k \in 1..seen : scan_status[k].scan = s
StatusInv == /\ \A k \in 1..Len(scan_status) : phase[scan_status[k].scan] # "new"
             /\ OpenFirst
             /\ \A s \in initialized : Heard(s)
             /\ info \subseteq initialized
             /\ \A s \in Scans : sync[s] # "absent" => s \in initialized

\* ... and no reading is lost of a scan that the bundler knows or is about to know.
KeptInv == \A r \in published :
             r.scan \in info \/ Opening(r.scan) => InSeq(tasks, r) \/ r \in stored

BInv == TypeOK /\ TaskInv /\ SegmentInv /\ StatusInv /\ KeptInv /\ CompleteIsSent

-----------------------------------------------------------------------------
(* Sequences                                                                *)

\* RemoveAt leaves the other elements, in their order.
LEMMA RemoveAtRest ==
  ASSUME NEW S, NEW seq \in Seq(S), NEW k \in 1..Len(seq)
  PROVE  /\ RemoveAt(seq, k) \in Seq(S)
         /\ Len(RemoveAt(seq, k)) = Len(seq) - 1
         /\ \A j \in 1..(Len(seq) - 1) :
              RemoveAt(seq, k)[j] = IF j < k THEN seq[j] ELSE seq[j + 1]
<1> DEFINE left == SubSeq(seq, 1, k - 1)
           right == SubSeq(seq, k + 1, Len(seq))
<1>1. /\ left \in Seq(S) /\ Len(left) = k - 1 /\ \A j \in 1..(k - 1) : left[j] = seq[j]
  BY SubSeqProperties, LenProperties
<1>2. /\ right \in Seq(S) /\ Len(right) = Len(seq) - k
      /\ \A j \in 1..(Len(seq) - k) : right[j] = seq[k + j]
  BY SubSeqProperties, LenProperties
<1>3. RemoveAt(seq, k) = left \o right
  BY DEF RemoveAt
<1> HIDE DEF left, right
<1> QED
  BY <1>1, <1>2, <1>3, ConcatProperties

LEMMA AppendIn ==
  ASSUME NEW S, NEW seq \in Seq(S), NEW e \in S
  PROVE  /\ Append(seq, e) \in Seq(S) /\ Len(Append(seq, e)) = Len(seq) + 1
         /\ \A k \in 1..Len(seq) : Append(seq, e)[k] = seq[k]
         /\ Append(seq, e)[Len(seq) + 1] = e
         /\ \A k \in 1..Len(Append(seq, e)) :
              \/ k \in 1..Len(seq) /\ Append(seq, e)[k] = seq[k]
              \/ k = Len(seq) + 1 /\ Append(seq, e)[k] = e
         /\ \A x : InSeq(Append(seq, e), x) <=> InSeq(seq, x) \/ x = e
  BY DEF InSeq

\* A task that ends is gone, and no other is.
LEMMA EndTaskRemoves ==
  ASSUME tasks \in Seq(Readings), Distinct, NEW r \in Readings, EndTask(r)
  PROVE  /\ tasks' \in Seq(Readings) /\ Distinct'
         /\ InSeq(tasks, r) /\ ~InSeq(tasks', r)
         /\ \A q : q # r => (InSeq(tasks', q) <=> InSeq(tasks, q))
<1>1. PICK k \in 1..Len(tasks) : tasks[k] = r /\ tasks' = RemoveAt(tasks, k)
  BY DEF EndTask
<1>2. /\ tasks' \in Seq(Readings) /\ Len(tasks') = Len(tasks) - 1
      /\ \A j \in 1..(Len(tasks) - 1) : tasks'[j] = IF j < k THEN tasks[j] ELSE tasks[j + 1]
  BY <1>1, RemoveAtRest
<1>3. Len(tasks) \in Nat
  OBVIOUS
<1>4. Distinct'
  <2> SUFFICES ASSUME NEW i \in 1..Len(tasks'), NEW j \in 1..Len(tasks'), tasks'[i] = tasks'[j]
               PROVE  i = j
    BY DEF Distinct
  <2> DEFINE old(n) == IF n < k THEN n ELSE n + 1
  <2>1. /\ old(i) \in 1..Len(tasks) /\ old(j) \in 1..Len(tasks)
        /\ tasks[old(i)] = tasks[old(j)]
    BY <1>2, <1>3
  <2>2. old(i) = old(j)
    BY <2>1 DEF Distinct
  <2> QED
    BY <2>2
<1>5. InSeq(tasks, r) /\ ~InSeq(tasks', r)
  BY <1>1, <1>2, <1>3 DEF Distinct, InSeq
<1>6. ASSUME NEW q, q # r, InSeq(tasks, q) PROVE InSeq(tasks', q)
  <2>1. PICK j \in 1..Len(tasks) : tasks[j] = q
    BY <1>6 DEF InSeq
  <2>2. CASE j < k
    BY <1>1, <1>2, <1>3, <2>1, <2>2 DEF InSeq
  <2>3. CASE j > k
    <3>1. j - 1 \in 1..(Len(tasks) - 1) /\ tasks'[j - 1] = q
      BY <1>1, <1>2, <1>3, <2>1, <2>3
    <3> QED
      BY <1>2, <3>1 DEF InSeq
  <2> QED
    BY <1>1, <1>6, <2>1, <2>2, <2>3
<1>7. ASSUME NEW q, InSeq(tasks', q) PROVE InSeq(tasks, q)
  BY <1>1, <1>2, <1>3, <1>7 DEF InSeq
<1> QED
  BY <1>2, <1>4, <1>5, <1>6, <1>7

-----------------------------------------------------------------------------
(* Types                                                                    *)

LEMMA InitBInv == Init => BInv
<1> SUFFICES ASSUME Init PROVE BInv
  OBVIOUS
<1>1. TypeOK
  BY NumPointsAssumption, HistoryAssumption DEF Init, TypeOK, Status, Final
<1>2. TaskInv /\ SegmentInv
  BY DEF Init, TaskInv, Distinct, SegmentInv, InSeq
<1>3. StatusInv /\ KeptInv
  BY DEF Init, StatusInv, OpenFirst, KeptInv, Opening
<1>4. CompleteIsSent
  BY DevicesAssumption DEF Init, CompleteIsSent, Complete
<1> QED
  BY <1>1, <1>2, <1>3, <1>4 DEF BInv

\* What a task that ends writes.
LEMMA UpdateIs ==
  ASSUME NEW r \in Readings, Update(r)
  PROVE  /\ r.scan \in info /\ EndTask(r)
         /\ stored' = stored \cup {r}
         /\ \/ /\ r.point # 0 /\ SendPoint(r)
               /\ r.scan \notin Fly => Complete(stored', r.scan, r.point)
            \/ /\ UNCHANGED scan_segment
               /\ r.point = 0 \/ ~Complete(stored', r.scan, r.point)
  BY DEF Update, Store, HasInfo, StepScanUpdate, FlyScanUpdate, BaselineUpdate

LEMMA RememberKeeps == ASSUME history \in Seq(Scans), Len(history) <= HistoryLength, NEW s \in Scans
                       PROVE  Remember(s) \in Seq(Scans) /\ Len(Remember(s)) <= HistoryLength
<1>1. Append(history, s) \in Seq(Scans) /\ Len(Append(history, s)) = Len(history) + 1
  OBVIOUS
<1>2. CASE InSeq(history, s) \/ Len(history) < HistoryLength
  BY <1>1, <1>2, HistoryAssumption DEF Remember
<1>3. CASE ~InSeq(history, s) /\ Len(history) = HistoryLength
  <2>1. history # <<>>
    BY <1>3, HistoryAssumption
  <2>2. Tail(history) \in Seq(Scans) /\ Len(Tail(history)) = Len(history) - 1
    BY <2>1, HeadTailProperties
  <2> HIDE DEF InSeq
  <2> QED
    BY <1>3, <2>2, HistoryAssumption DEF Remember
<1> QED
  BY <1>2, <1>3, HistoryAssumption

LEMMA NextTypeOK == ASSUME BInv, [Next]_vars PROVE TypeOK'
<1> USE DEF BInv, TypeOK, worldVars, scanVars, emitterVars, BundlerFrame
<1>1. CASE UNCHANGED vars
  BY <1>1 DEF vars
<1>2. ASSUME NEW s \in Scans, NEW status \in Status, Announce(s, status), BundlerFrame PROVE TypeOK'
  <2>1. [scan |-> s, status |-> status] \in [scan : Scans, status : Status]
    OBVIOUS
  <2> QED
    BY <1>2, <2>1, AppendIn DEF Announce
<1>3. ASSUME NEW s \in Scans, OpenScan(s), BundlerFrame PROVE TypeOK'
  BY <1>2, <1>3 DEF OpenScan, Status
<1>4. ASSUME NEW s \in Scans, NEW status \in Reports, ReportScan(s, status), BundlerFrame PROVE TypeOK'
  BY <1>2, <1>4, ReportsAssumption DEF ReportScan, Status, Final
<1>5. ASSUME NEW s \in Scans, AskReadings(s), BundlerFrame PROVE TypeOK'
  BY <1>5, NumPointsAssumption DEF AskReadings
<1>6. ASSUME NEW r \in Readings, TakeReading(r), BundlerFrame PROVE TypeOK'
  BY <1>6 DEF TakeReading
<1>7. CASE HandleStatus
  <2> DEFINE s == scan_status[seen + 1].scan
             status == scan_status[seen + 1].status
  <2>1. s \in Scans /\ status \in Status /\ seen + 1 \in 1..Len(scan_status)
    <3>1. seen + 1 \in 1..Len(scan_status)
      BY <1>7 DEF HandleStatus
    <3>2. scan_status[seen + 1] \in [scan : Scans, status : Status]
      BY <3>1, ElementOfSeq
    <3> QED
      BY <3>1, <3>2
  <2>2. history' \in Seq(Scans) /\ Len(history') <= HistoryLength
    BY <1>7, <2>1, RememberKeeps DEF HandleStatus
  <2>3. sync' \in [Scans -> Status \cup {"absent"}]
    BY <1>7, <2>1 DEF HandleStatus
  <2>4. info' \subseteq Scans /\ initialized' \subseteq Scans /\ stored' \subseteq Readings
    BY <1>7, <2>1 DEF HandleStatus
  <2> QED
    BY <1>7, <2>1, <2>2, <2>3, <2>4 DEF HandleStatus
<1>8. ASSUME NEW r \in Readings, GiveUp(r) \/ Drop(r) PROVE TypeOK'
  BY <1>8, EndTaskRemoves DEF GiveUp, Drop, EndTask, TaskInv
<1>9. ASSUME NEW r \in Readings, Update(r) PROVE TypeOK'
  <2>1. tasks' \in Seq(Readings) /\ UNCHANGED <<worldVars, scanVars>> /\ stored' \subseteq Readings
    BY <1>9, UpdateIs, EndTaskRemoves DEF EndTask, TaskInv
  <2>2. scan_segment' \in Seq(Segments)
    <3>1. CASE r.point # 0 /\ SendPoint(r)
      <4>1. Segment(r.scan, r.point, r.device) \in Segments
        BY <3>1 DEF Segment, Segments, Readings, Points
      <4> QED
        BY <3>1, <4>1 DEF SendPoint
    <3> QED
      BY <1>9, <3>1, UpdateIs
  <2>3. scan_baseline' \subseteq Scans
    BY <1>9 DEF Update, StepScanUpdate, FlyScanUpdate, BaselineUpdate, Readings
  <2> QED
    BY <2>1, <2>2, <2>3
<1> QED
  BY <1>1, <1>3, <1>4, <1>5, <1>6, <1>7, <1>8, <1>9 DEF Next, World, Executor, Idle

-----------------------------------------------------------------------------
(* The scan worker and the device server                                    *)

\* Only the end of a task takes something from what is consumed, and only its reading.
LEMMA WorldTasks == ASSUME BInv, World PROVE TaskInv' /\ SegmentInv' /\ CompleteIsSent'
<1> USE DEF BInv, TypeOK, TaskInv, World, BundlerFrame, scanVars, emitterVars
<1>c. CompleteIsSent'
  BY DEF CompleteIsSent, Complete, Sent, InSeq
<1>1. CASE UNCHANGED <<published, tasks>> /\ \A s \in Scans : phase[s] # "new" => phase'[s] # "new"
  BY <1>c, <1>1 DEF Readings, Consumed, Distinct, InSeq, SegmentInv, UsedUp
<1>2. ASSUME NEW s \in Scans, NEW status, status # "new", Announce(s, status)
      PROVE  UNCHANGED <<published, tasks>> /\ \A t \in Scans : phase[t] # "new" => phase'[t] # "new"
  BY <1>2 DEF Announce
<1>3. ASSUME NEW r \in Readings, TakeReading(r) PROVE TaskInv' /\ SegmentInv'
  <2>1. /\ published' = published \cup {r} /\ r \notin published /\ UNCHANGED phase
        /\ phase[r.scan] # "new" /\ tasks' = Append(tasks, r)
    BY <1>3 DEF TakeReading
  <2>2. \A x : InSeq(tasks', x) <=> InSeq(tasks, x) \/ x = r
    BY <2>1, AppendIn
  <2>3. \A x : Consumed(x) => Consumed(x)'
    BY <2>1, <2>2 DEF Consumed
  <2>4. Distinct'
    <3>1. ~InSeq(tasks, r)
      BY <2>1
    <3>2. \A k \in 1..Len(tasks') : \/ k \in 1..Len(tasks) /\ tasks'[k] = tasks[k] /\ tasks[k] # r
                                    \/ k = Len(tasks) + 1 /\ tasks'[k] = r
      <4>1. \A k \in 1..Len(tasks) : tasks[k] # r
        BY <3>1 DEF InSeq
      <4> QED
        BY <2>1, <4>1, AppendIn
    <3> QED
      BY <3>2 DEF Distinct
  <2> QED
    BY <2>1, <2>2, <2>3, <2>4 DEF SegmentInv, UsedUp
<1>4. ASSUME NEW s \in Scans, OpenScan(s) \/ \E status \in Reports : ReportScan(s, status)
      PROVE  TaskInv' /\ SegmentInv'
  BY <1>1, <1>2, <1>4, ReportsAssumption DEF OpenScan, ReportScan
<1>5. ASSUME NEW s \in Scans, AskReadings(s) PROVE TaskInv' /\ SegmentInv'
  BY <1>1, <1>5 DEF AskReadings
<1> QED
  BY <1>c, <1>3, <1>4, <1>5

LEMMA WorldStatus == ASSUME BInv, World PROVE StatusInv' /\ KeptInv'
<1> USE DEF BInv, TypeOK, StatusInv, World, BundlerFrame, scanVars, emitterVars
<1>1. ASSUME UNCHANGED <<phase, scan_status>> PROVE StatusInv'
  BY <1>1 DEF OpenFirst, Heard
<1>2. ASSUME NEW s \in Scans, NEW status \in Status, Announce(s, status),
             status = "open" => phase[s] = "new", UNCHANGED <<scanVars, stored>>
      PROVE  StatusInv' /\ KeptInv'
  <2> DEFINE m == [scan |-> s, status |-> status]
  <2>1. /\ m \in [scan : Scans, status : Status]
        /\ scan_status' = Append(scan_status, m) /\ UNCHANGED <<published, tasks>>
        /\ \A t \in Scans : phase'[t] = IF t = s THEN status ELSE phase[t]
    BY <1>2 DEF Announce
  <2>2. /\ Len(scan_status') = Len(scan_status) + 1
        /\ \A k \in 1..Len(scan_status) : scan_status'[k] = scan_status[k]
        /\ \A k \in 1..Len(scan_status') : \/ k \in 1..Len(scan_status) /\ scan_status'[k] = scan_status[k]
                                           \/ k = Len(scan_status) + 1 /\ scan_status'[k] = m
    BY <2>1, AppendIn
  <2>3. \A k \in 1..Len(scan_status) : /\ scan_status[k].scan \in Scans
                                       /\ status = "open" => scan_status[k].scan # s
    <3> SUFFICES ASSUME NEW k \in 1..Len(scan_status)
                 PROVE  scan_status[k].scan \in Scans /\ (status = "open" => scan_status[k].scan # s)
      OBVIOUS
    <3>1. scan_status[k] \in [scan : Scans, status : Status]
      BY ElementOfSeq
    <3> QED
      BY <1>2, <3>1
  <2>4. StatusInv'
    <3>1. ASSUME NEW k \in 1..Len(scan_status') PROVE phase'[scan_status'[k].scan] # "new"
      <4>1. CASE k \in 1..Len(scan_status) /\ scan_status'[k] = scan_status[k]
        <5>1. scan_status[k].scan \in Scans
          BY <2>3, <4>1
        <5>2. phase[scan_status[k].scan] # "new"
          BY <4>1
        <5> QED
          BY <2>1, <4>1, <5>1, <5>2 DEF Status, Final
      <4>2. CASE scan_status'[k] = m
        BY <2>1, <4>2 DEF Status, Final
      <4> QED
        BY <2>2, <4>1, <4>2
    <3>2. OpenFirst'
      <4> SUFFICES ASSUME NEW j \in 1..Len(scan_status'), NEW k \in 1..Len(scan_status'), j < k,
                          scan_status'[k].status = "open"
                   PROVE  scan_status'[j].scan # scan_status'[k].scan
        BY DEF OpenFirst
      <4>1. Len(scan_status) \in Nat
        OBVIOUS
      <4>2. CASE k \in 1..Len(scan_status) /\ scan_status'[k] = scan_status[k]
        <5>1. j \in 1..Len(scan_status) /\ scan_status'[j] = scan_status[j]
          BY <2>2, <4>1, <4>2
        <5> QED
          BY <4>2, <5>1 DEF OpenFirst
      <4>3. CASE k = Len(scan_status) + 1 /\ scan_status'[k] = m
        <5>1. j \in 1..Len(scan_status) /\ scan_status'[j] = scan_status[j]
          BY <2>2, <4>1, <4>3
        <5> QED
          BY <2>3, <4>3, <5>1
      <4> QED
        BY <2>2, <4>2, <4>3
    <3>3. \A t \in initialized' : Heard(t)'
      <4>1. \A k \in 1..seen : scan_status'[k] = scan_status[k] /\ seen' = seen
        BY <1>2, <2>2
      <4> QED
        BY <1>2, <4>1 DEF Heard
    <3> QED
      BY <1>2, <3>1, <3>2, <3>3
  <2>5. KeptInv'
    <3> SUFFICES ASSUME NEW r \in published, r.scan \in info \/ Opening(r.scan)'
                 PROVE  InSeq(tasks, r) \/ r \in stored
      BY <1>2, <2>1 DEF KeptInv
    <3>1. Opening(r.scan)' => Opening(r.scan)
      <4>1. r.scan = s => status # "open"
        BY <1>2 DEF TaskInv
      <4> QED
        BY <1>2, <2>1, <2>2, <4>1 DEF Opening
    <3> QED
      BY <3>1 DEF KeptInv
  <2> QED
    BY <2>4, <2>5
<1>3. ASSUME NEW s \in Scans, OpenScan(s) PROVE StatusInv' /\ KeptInv'
  BY <1>2, <1>3 DEF OpenScan, Status
<1>4. ASSUME NEW s \in Scans, NEW status \in Reports, ReportScan(s, status) PROVE StatusInv' /\ KeptInv'
  BY <1>2, <1>4, ReportsAssumption DEF ReportScan, Status, Final
<1>5. ASSUME NEW s \in Scans, AskReadings(s) PROVE StatusInv' /\ KeptInv'
  BY <1>1, <1>5 DEF AskReadings, KeptInv, InSeq, Opening
<1>6. ASSUME NEW r \in Readings, TakeReading(r) PROVE StatusInv' /\ KeptInv'
  <2>1. \A x : InSeq(tasks', x) <=> InSeq(tasks, x) \/ x = r
    BY <1>6, AppendIn DEF TakeReading
  <2>2. UNCHANGED <<phase, scan_status, stored, seen, info>> /\ published' = published \cup {r}
    BY <1>6 DEF TakeReading
  <2>3. KeptInv'
    BY <2>1, <2>2 DEF KeptInv, Opening
  <2> QED
    BY <1>1, <2>2, <2>3
<1> QED
  BY <1>3, <1>4, <1>5, <1>6

-----------------------------------------------------------------------------
(* The scan status consumer                                                 *)

\* The message that is handled next.
nextStatus == scan_status[seen + 1].status
nextScan == scan_status[seen + 1].scan

\* An open message that was not handled yet is the first one of its scan.
LEMMA OpeningUnheard == ASSUME BInv, NEW s, Opening(s) PROVE s \notin initialized
<1> USE DEF BInv, TypeOK, StatusInv
<1>1. PICK k \in (seen + 1)..Len(scan_status) : scan_status[k] = [scan |-> s, status |-> "open"]
  BY DEF Opening
<1>2. ASSUME NEW j \in 1..seen, scan_status[j].scan = s PROVE FALSE
  <2>1. j \in 1..Len(scan_status) /\ k \in 1..Len(scan_status) /\ j < k
    OBVIOUS
  <2> QED
    <3>1. scan_status[k].status = "open" /\ scan_status[k].scan = s
      BY <1>1
    <3>2. OpenFirst
      OBVIOUS
    <3> QED
      BY <1>2, <2>1, <3>1, <3>2 DEF OpenFirst
<1> QED
  BY <1>2 DEF Heard

LEMMA HandleStatusInv ==
  ASSUME BInv, HandleStatus
  PROVE  TaskInv' /\ SegmentInv' /\ StatusInv' /\ KeptInv' /\ CompleteIsSent'
<1> USE DEF BInv, TypeOK, worldVars, emitterVars
<1>1. /\ seen' = seen + 1 /\ seen + 1 \in 1..Len(scan_status)
      /\ nextScan \in Scans /\ nextStatus \in Status
  <2>1. seen + 1 \in 1..Len(scan_status) /\ seen' = seen + 1
    BY DEF HandleStatus
  <2>2. scan_status[seen + 1] \in [scan : Scans, status : Status]
    BY <2>1, ElementOfSeq
  <2> QED
    BY <2>1, <2>2 DEF nextScan, nextStatus
<1>2. /\ UNCHANGED <<phase, published, scan_status, scan_segment, tasks>>
      /\ initialized' = (initialized \ Outdated) \cup {nextScan}
      /\ stored' = {r \in stored : r.scan \notin Outdated}
      /\ info' \subseteq (info \ Outdated) \cup {nextScan}
      /\ nextScan \in info' => nextScan \in info \ Outdated \/ nextStatus = "open"
      /\ \A s \in Scans : sync'[s] # "absent" =>
                           s = nextScan \/ (s \notin Outdated /\ sync[s] # "absent")
  BY DEF HandleStatus, nextScan, nextStatus
<1>3. TaskInv' /\ SegmentInv' /\ CompleteIsSent'
  BY <1>2 DEF TaskInv, Distinct, Consumed, InSeq, SegmentInv, UsedUp, CompleteIsSent, Complete, Sent
<1>4. StatusInv'
  <2>1. ASSUME NEW s \in initialized' PROVE Heard(s)'
    <3>1. CASE s = nextScan
      BY <1>1, <1>2, <3>1 DEF Heard, nextScan
    <3>2. CASE s \in initialized
      <4>1. PICK k \in 1..seen : scan_status[k].scan = s
        BY <3>2 DEF StatusInv, Heard
      <4>2. k \in 1..(seen + 1)
        OBVIOUS
      <4> QED
        BY <1>1, <1>2, <4>1, <4>2 DEF Heard
    <3> QED
      BY <1>2, <2>1, <3>1, <3>2
  <2>2. OpenFirst'
    BY <1>2 DEF StatusInv, OpenFirst
  <2> QED
    BY <1>2, <2>1, <2>2 DEF StatusInv
<1>5. KeptInv'
  <2> SUFFICES ASSUME NEW r \in published, r.scan \in info' \/ Opening(r.scan)', ~InSeq(tasks, r)
               PROVE  r \in stored'
    BY <1>2 DEF KeptInv, InSeq
  <2>1. Opening(r.scan)' => Opening(r.scan)
    BY <1>1, <1>2 DEF Opening
  <2>2. r.scan = nextScan /\ nextStatus = "open" => Opening(r.scan)
    <3>1. scan_status[seen + 1] \in [scan : Scans, status : Status]
      BY <1>1, ElementOfSeq
    <3> QED
      BY <1>1, <3>1 DEF Opening, nextScan, nextStatus
  <2>3. r.scan \notin Outdated
    <3>1. Opening(r.scan) => r.scan \notin initialized
      BY OpeningUnheard
    <3>2. r.scan \in Outdated => r.scan \in initialized
      BY DEF Outdated, StatusInv
    <3> QED
      BY <1>2, <2>1, <2>2, <3>1, <3>2
  <2>4. r \in stored
    BY <1>2, <2>1, <2>2 DEF KeptInv
  <2> QED
    BY <1>2, <2>3, <2>4
<1> QED
  BY <1>3, <1>4, <1>5

-----------------------------------------------------------------------------
(* The executor                                                             *)

LEMMA ExecutorStatus ==
  ASSUME BInv, NEW r \in Readings, GiveUp(r) \/ Drop(r) \/ Update(r)
  PROVE  StatusInv' /\ KeptInv'
<1> USE DEF BInv, TypeOK, worldVars, scanVars
<1>1. /\ UNCHANGED <<worldVars, scanVars>> /\ EndTask(r)
      /\ stored \subseteq stored'
  BY UpdateIs DEF GiveUp, Drop, EndTask
<1>2. StatusInv'
  BY <1>1 DEF StatusInv, OpenFirst, Heard
<1>3. r \in stored' \/ (r.scan \notin info /\ ~Opening(r.scan))
  <2>1. CASE GiveUp(r)
    BY <2>1 DEF GiveUp, StatusInv
  <2>2. CASE Drop(r)
    BY <2>2, OpeningUnheard DEF Drop, HasInfo
  <2>3. CASE Update(r)
    BY <2>3, UpdateIs
  <2> QED
    BY <2>1, <2>2, <2>3
<1>4. \A q : q # r => (InSeq(tasks', q) <=> InSeq(tasks, q))
  BY <1>1, EndTaskRemoves DEF TaskInv
<1>5. KeptInv'
  <2> SUFFICES ASSUME NEW q \in published, q.scan \in info \/ Opening(q.scan)
               PROVE  InSeq(tasks', q) \/ q \in stored'
    BY <1>1 DEF KeptInv, Opening
  <2> QED
    BY <1>1, <1>3, <1>4 DEF KeptInv
<1> QED
  BY <1>2, <1>5

\* A reading that ends was not used up before, and is so afterwards.
LEMMA EndTaskConsumes ==
  ASSUME BInv, NEW r \in Readings, EndTask(r), stored' \subseteq stored \cup {r}
  PROVE  /\ TaskInv' /\ ~Consumed(r) /\ Consumed(r)'
         /\ \A q : Consumed(q) => Consumed(q)'
<1> USE DEF BInv, TypeOK, worldVars, TaskInv
<1>1. /\ UNCHANGED <<phase, published>> /\ Distinct'
      /\ InSeq(tasks, r) /\ ~InSeq(tasks', r)
      /\ \A q : q # r => (InSeq(tasks', q) <=> InSeq(tasks, q))
  BY EndTaskRemoves DEF EndTask
<1>2. ~Consumed(r) /\ Consumed(r)' /\ \A q : Consumed(q) => Consumed(q)'
  BY <1>1 DEF Consumed
<1>3. \A q \in Readings : InSeq(tasks', q) => q \in published'
  BY <1>1
<1> QED
  BY <1>1, <1>2, <1>3

\* A point that is sent is used up, and was not before.
LEMMA SendUsesUp ==
  ASSUME BInv, NEW r \in Readings, Update(r), r.point # 0, SendPoint(r)
  PROVE  /\ Segment(r.scan, r.point, r.device) \in Segments
         /\ UsedUp(Segment(r.scan, r.point, r.device))'
         /\ \A k \in 1..Len(scan_segment) :
              scan_segment[k].scan = r.scan /\ scan_segment[k].point = r.point =>
                r.scan \in Fly /\ scan_segment[k].by # r.device
<1> DEFINE e == Segment(r.scan, r.point, r.device)
<1>1. /\ r.scan \in Scans /\ r.point \in Points /\ r.device \in Monitored
      /\ r = Reading(r.scan, r.device, r.point)
  BY DEF Readings, Reading, Points
<1>2. EndTask(r) /\ stored' = stored \cup {r}
  BY UpdateIs
<1>3. TaskInv' /\ ~Consumed(r) /\ Consumed(r)' /\ \A q : Consumed(q) => Consumed(q)'
  BY <1>2, EndTaskConsumes
<1>4. r.scan \notin Fly => \A d \in Monitored : Consumed(Reading(r.scan, d, r.point))'
  <2>1. r.scan \notin Fly => Complete(stored', r.scan, r.point)
    <3>1. scan_segment' # scan_segment
      <4>1. Len(scan_segment') = Len(scan_segment) + 1 /\ Len(scan_segment) \in Nat
        BY <1>1 DEF SendPoint, BInv, TypeOK, Segments, Segment
      <4> QED
        BY <4>1
    <3> QED
      BY <3>1, UpdateIs
  <2> QED
    BY <1>3, <2>1 DEF TaskInv, Complete
<1>5. e \in Segments /\ UsedUp(e)'
  BY <1>1, <1>3, <1>4 DEF UsedUp, Segments, Segment
<1>6. ASSUME NEW k \in 1..Len(scan_segment),
             scan_segment[k].scan = r.scan, scan_segment[k].point = r.point
      PROVE  r.scan \in Fly /\ scan_segment[k].by # r.device
  <2>1. UsedUp(scan_segment[k])
    BY DEF BInv, SegmentInv
  <2> QED
    BY <1>1, <1>3, <1>6, <2>1 DEF UsedUp
<1> QED
  BY <1>5, <1>6

\* A task without an effect.
LEMMA TaskEnds ==
  ASSUME BInv, NEW r \in Readings, GiveUp(r) \/ Drop(r)
  PROVE  TaskInv' /\ SegmentInv' /\ CompleteIsSent'
<1>1. EndTask(r) /\ UNCHANGED <<stored, scan_segment>>
  BY DEF GiveUp, Drop, emitterVars
<1>2. TaskInv' /\ \A q : Consumed(q) => Consumed(q)'
  BY <1>1, EndTaskConsumes
<1>3. SegmentInv' /\ CompleteIsSent'
  BY <1>1, <1>2 DEF BInv, SegmentInv, UsedUp, CompleteIsSent, Complete, Sent, InSeq
<1> QED
  BY <1>2, <1>3

LEMMA UpdateInv ==
  ASSUME BInv, NEW r \in Readings, Update(r)
  PROVE  TaskInv' /\ SegmentInv' /\ CompleteIsSent'
<1> DEFINE e == Segment(r.scan, r.point, r.device)
<1>1. EndTask(r) /\ stored' = stored \cup {r}
  BY UpdateIs
<1>2. TaskInv' /\ \A q : Consumed(q) => Consumed(q)'
  BY <1>1, EndTaskConsumes
<1>3. \A f : UsedUp(f) => UsedUp(f)'
  BY <1>2 DEF UsedUp
<1>4. ASSUME NEW s \in Scans, NEW p \in Points, Complete(stored', s, p), ~Complete(stored, s, p)
      PROVE  s = r.scan /\ p = r.point
  BY <1>1, <1>4 DEF Complete, Reading
<1>5. scan_segment \in Seq(Segments)
  BY DEF BInv, TypeOK
<1>6. CASE r.point # 0 /\ SendPoint(r)
  <2>1. /\ e \in Segments /\ UsedUp(e)' /\ scan_segment' = Append(scan_segment, e)
    BY <1>6, SendUsesUp DEF SendPoint
  <2>2. \A x : InSeq(scan_segment', x) <=> InSeq(scan_segment, x) \/ x = e
    BY <1>5, <2>1, AppendIn
  <2>3. SegmentInv'
    <3> SUFFICES ASSUME NEW k \in 1..Len(scan_segment'), NEW f, f = scan_segment'[k]
                 PROVE  UsedUp(f)'
      BY DEF SegmentInv, UsedUp
    <3>1. \/ k \in 1..Len(scan_segment) /\ scan_segment'[k] = scan_segment[k]
          \/ scan_segment'[k] = e
      BY <1>5, <2>1, AppendIn
    <3>2. k \in 1..Len(scan_segment) => UsedUp(scan_segment[k])
      BY DEF BInv, SegmentInv
    <3> QED
      BY <1>3, <2>1, <3>1, <3>2
  <2>4. CompleteIsSent'
    <3> SUFFICES ASSUME NEW s \in Scans, NEW p \in Points, Complete(stored', s, p)
                 PROVE  Sent(s, p)'
      BY DEF CompleteIsSent
    <3>1. CASE Complete(stored, s, p)
      BY <2>2, <3>1 DEF BInv, CompleteIsSent, Sent
    <3>2. CASE ~Complete(stored, s, p)
      <4>1. r.device \in Monitored
        BY <1>6 DEF Readings
      <4> QED
        BY <1>4, <2>2, <3>2, <4>1 DEF Sent
    <3> QED
      BY <3>1, <3>2
  <2> QED
    BY <1>2, <2>3, <2>4
<1>7. CASE UNCHANGED scan_segment /\ (r.point = 0 \/ ~Complete(stored', r.scan, r.point))
  <2>1. SegmentInv'
    BY <1>3, <1>7 DEF BInv, SegmentInv, UsedUp
  <2>2. \A s \in Scans, p \in Points : Complete(stored', s, p) => Complete(stored, s, p)
    BY <1>4, <1>7 DEF Points
  <2>3. CompleteIsSent'
    BY <1>7, <2>2 DEF BInv, CompleteIsSent, Sent, InSeq
  <2> QED
    BY <1>2, <2>1, <2>3
<1> QED
  BY <1>6, <1>7, UpdateIs

-----------------------------------------------------------------------------

LEMMA NextBInv == ASSUME BInv, [Next]_vars PROVE BInv'
<1>1. TypeOK'
  BY NextTypeOK
<1>2. CASE UNCHANGED vars
  <2> USE <1>2 DEF vars, worldVars, scanVars, emitterVars, BInv
  <2>1. TaskInv' /\ SegmentInv' /\ CompleteIsSent'
    BY DEF TaskInv, Distinct, Consumed, InSeq, SegmentInv, UsedUp, CompleteIsSent, Complete, Sent
  <2>2. StatusInv' /\ KeptInv'
    BY DEF StatusInv, OpenFirst, Heard, KeptInv, InSeq, Opening
  <2> QED
    BY <1>1, <2>1, <2>2
<1>3. CASE World
  BY <1>1, <1>3, WorldTasks, WorldStatus DEF BInv
<1>4. CASE HandleStatus
  BY <1>1, <1>4, HandleStatusInv DEF BInv
<1>5. CASE Executor
  <2>1. PICK r \in Readings : GiveUp(r) \/ Drop(r) \/ Update(r)
    BY <1>5 DEF Executor
  <2>2. TaskInv' /\ SegmentInv' /\ CompleteIsSent'
    BY <2>1, TaskEnds, UpdateInv
  <2>3. StatusInv' /\ KeptInv'
    BY <2>1, ExecutorStatus
  <2> QED
    BY <1>1, <2>2, <2>3 DEF BInv
<1> QED
  BY <1>2, <1>3, <1>4, <1>5 DEF Next, Idle

LEMMA SpecBInv == Spec => []BInv
<1>1. BInv /\ [Next]_vars => BInv'
  BY NextBInv
<1> QED
  BY InitBInv, <1>1, PTL DEF Spec

\* Whatever order readings and states come in, no published reading of a scan that the
\* bundler knows is dropped.
THEOREM KeepsReadings == Spec => [](TypeOK /\ ReadingsKept)
<1>1. BInv => TypeOK /\ ReadingsKept
  BY DEF BInv, KeptInv, ReadingsKept
<1> QED
  BY SpecBInv, <1>1, PTL

\* However many threads store the readings of a point, it is sent when all of them are
\* there, and not before.
THEOREM SendsComplete == Spec => [](EmittedComplete /\ CompleteIsSent)
<1>1. BInv => EmittedComplete
  BY DEF BInv, SegmentInv, UsedUp, Consumed, EmittedComplete, Complete
<1>2. BInv => CompleteIsSent
  BY DEF BInv
<1> QED
  BY SpecBInv, <1>1, <1>2, PTL

-----------------------------------------------------------------------------
(* The bundler implements PointStream                                       *)

StreamUnchanged == UNCHANGED <<phase, scan_status, scan_segment>>

LEMMA WorldStreams == ASSUME World PROVE Stream!Next \/ StreamUnchanged
<1>1. UNCHANGED scan_segment
  BY DEF World, BundlerFrame, emitterVars
<1>2. ASSUME NEW s \in Scans, OpenScan(s) PROVE Stream!Open(s)
  BY <1>1, <1>2 DEF OpenScan, Announce, Final, Stream!Open, Stream!Announce, Stream!Final
<1>3. ASSUME NEW s \in Scans, NEW status \in Reports, ReportScan(s, status)
      PROVE  Stream!Report(s, status)
  BY <1>1, <1>3 DEF ReportScan, Announce, Stream!Report, Stream!Announce
<1>4. ASSUME NEW s \in Scans, AskReadings(s) PROVE StreamUnchanged
  BY <1>1, <1>4 DEF AskReadings, StreamUnchanged
<1>5. ASSUME NEW r \in Readings, TakeReading(r) PROVE StreamUnchanged
  BY <1>1, <1>5 DEF TakeReading, StreamUnchanged
<1> QED
  BY <1>2, <1>3, <1>4, <1>5 DEF World, Stream!Next

\* Sending a point: Emit.
LEMMA SendEmits ==
  ASSUME BInv, NEW r \in Readings, Update(r), r.point # 0, SendPoint(r)
  PROVE  Stream!Next
<1> DEFINE segment == [scan |-> r.scan, point |-> r.point, by |-> r.device]
<1>1. r.scan \in Scans /\ r.point \in Points /\ r.device \in Monitored
  BY DEF Readings, Points
<1>2. EndTask(r) /\ UNCHANGED <<phase, scan_status>>
  BY UpdateIs DEF EndTask, worldVars
<1>3. phase[r.scan] # "new"
  BY <1>2, EndTaskRemoves DEF BInv, TypeOK, TaskInv
<1>4. \A k \in 1..Len(scan_segment) :
        scan_segment[k].scan = r.scan /\ scan_segment[k].point = r.point =>
          r.scan \in Fly /\ scan_segment[k].by # r.device
  BY SendUsesUp
<1>5. ~Stream!Among(scan_segment, segment)
  BY <1>4 DEF Stream!Among
<1>6. ASSUME Stream!Emitted(r.scan, r.point) PROVE r.scan \in Fly
  <2>1. PICK d \in Monitored, k \in 1..Len(scan_segment) :
               scan_segment[k] = [scan |-> r.scan, point |-> r.point, by |-> d]
    BY <1>6 DEF Stream!Emitted, Stream!Among
  <2> QED
    BY <1>4, <2>1
<1>7. Stream!Emit(r.scan, r.point, r.device)
  BY <1>2, <1>3, <1>5, <1>6 DEF Stream!Emit, SendPoint, Segment
<1> QED
  BY <1>1, <1>7 DEF Stream!Next

LEMMA NextStreams == ASSUME BInv, [Next]_vars PROVE [Stream!Next]_(Stream!vars)
<1> SUFFICES Stream!Next \/ StreamUnchanged
  BY DEF StreamUnchanged, Stream!vars
<1>1. CASE World
  BY <1>1, WorldStreams
<1>2. CASE UNCHANGED vars \/ HandleStatus
  BY <1>2 DEF vars, HandleStatus, worldVars, emitterVars, StreamUnchanged
<1>3. ASSUME NEW r \in Readings, GiveUp(r) \/ Drop(r) PROVE StreamUnchanged
  BY <1>3 DEF GiveUp, Drop, EndTask, worldVars, emitterVars, StreamUnchanged
<1>4. ASSUME NEW r \in Readings, Update(r) PROVE Stream!Next \/ StreamUnchanged
  <2>1. UNCHANGED <<phase, scan_status>>
    BY <1>4, UpdateIs DEF EndTask, worldVars
  <2>2. CASE r.point # 0 /\ SendPoint(r)
    BY <1>4, <2>2, SendEmits
  <2>3. CASE UNCHANGED scan_segment
    BY <2>1, <2>3 DEF StreamUnchanged
  <2> QED
    BY <1>4, <2>2, <2>3, UpdateIs
<1> QED
  BY <1>1, <1>2, <1>3, <1>4 DEF Next, Executor, Idle

\* The bundler implements the stream of points: it sends a point of a step scan once, a
\* reading of a fly scan once, and no point of a scan that was not opened.
THEOREM ImplementsPointStream == Spec => EmitsOnce
<1>1. Init => Stream!Init
  BY DEF Init, Stream!Init
<1>2. BInv /\ [Next]_vars => [Stream!Next]_(Stream!vars)
  BY NextStreams
<1> QED
  BY SpecBInv, <1>1, <1>2, PTL DEF Spec, EmitsOnce, Stream!Spec

-----------------------------------------------------------------------------
(* Clean-up                                                                 *)

\* A scan has no message after its end, so one that was removed is not heard of again.
Ended(k) == scan_status[k].status \in Final
HeardEnd(s) == \E k \in 1..seen : scan_status[k].scan = s /\ Ended(k)
EndLast == \A j, k \in 1..Len(scan_status) :
             j < k /\ Ended(j) => scan_status[j].scan # scan_status[k].scan
Forgotten(s) == sync[s] = "absent" /\ Heard(s)
EndInv == /\ \A k \in 1..Len(scan_status) : Ended(k) => phase[scan_status[k].scan] \in Final
          /\ EndLast
          /\ \A s \in Scans : sync[s] \in Final \/ Forgotten(s) => HeardEnd(s)
          /\ StorageBounded

LEMMA InitEndInv == Init => EndInv
  BY DEF Init, EndInv, EndLast, Ended, Final, Forgotten, Heard, StorageBounded

LEMMA AnnounceEnd ==
  ASSUME BInv, EndInv, NEW s \in Scans, NEW status \in Status, phase[s] \notin Final,
         Announce(s, status), UNCHANGED scanVars
  PROVE  EndInv'
<1> USE DEF BInv, TypeOK, scanVars
<1> DEFINE m == [scan |-> s, status |-> status]
<1>1. /\ m \in [scan : Scans, status : Status]
      /\ scan_status' = Append(scan_status, m)
      /\ \A t \in Scans : phase'[t] = IF t = s THEN status ELSE phase[t]
  BY DEF Announce
<1>2. \A k \in 1..Len(scan_status') : \/ k \in 1..Len(scan_status) /\ scan_status'[k] = scan_status[k]
                                      \/ k = Len(scan_status) + 1 /\ scan_status'[k] = m
  BY <1>1, AppendIn
<1>3. ASSUME NEW k \in 1..Len(scan_status)
      PROVE  scan_status[k].scan \in Scans /\ (Ended(k) => scan_status[k].scan # s)
  <2>1. scan_status[k] \in [scan : Scans, status : Status]
    BY ElementOfSeq
  <2> QED
    BY <2>1 DEF EndInv
<1>4. ASSUME NEW k \in 1..Len(scan_status'), Ended(k)' PROVE phase'[scan_status'[k].scan] \in Final
  BY <1>1, <1>2, <1>3, <1>4 DEF EndInv, Ended
<1>5. EndLast'
  <2> SUFFICES ASSUME NEW j \in 1..Len(scan_status'), NEW k \in 1..Len(scan_status'), j < k, Ended(j)'
               PROVE  scan_status'[j].scan # scan_status'[k].scan
    BY DEF EndLast
  <2>1. j \in 1..Len(scan_status) /\ scan_status'[j] = scan_status[j]
    <3>1. Len(scan_status') = Len(scan_status) + 1 /\ Len(scan_status) \in Nat
      BY <1>1, AppendIn
    <3> QED
      BY <1>2, <3>1
  <2>2. Ended(j)
    BY <2>1 DEF Ended
  <2>3. CASE k \in 1..Len(scan_status) /\ scan_status'[k] = scan_status[k]
    BY <2>1, <2>2, <2>3 DEF EndInv, EndLast
  <2>4. CASE scan_status'[k] = m
    BY <1>3, <2>1, <2>2, <2>4
  <2> QED
    BY <1>2, <2>3, <2>4
<1>6. \A k \in 1..seen : k \in 1..Len(scan_status) /\ scan_status'[k] = scan_status[k]
  BY <1>1, AppendIn
<1>7. UNCHANGED <<seen, sync, history>>
  OBVIOUS
<1>8. \A t \in Scans : sync'[t] \in Final \/ Forgotten(t)' => HeardEnd(t)'
  <2> SUFFICES ASSUME NEW t \in Scans, sync[t] \in Final \/ Forgotten(t) PROVE HeardEnd(t)'
    BY <1>6, <1>7 DEF Forgotten, Heard
  <2> QED
    BY <1>6, <1>7 DEF EndInv, HeardEnd, Ended
<1>9. StorageBounded'
  <2> SUFFICES ASSUME NEW t \in Scans, sync[t] \in {"closed", "aborted"}, ~InSeq(history, t)
               PROVE  scan_status'[seen].scan = t \/ FirstMessage(seen)'
    BY <1>7 DEF StorageBounded, InSeq
  <2>1. seen \in 1..seen
    BY DEF EndInv, HeardEnd, Final
  <2>2. scan_status[seen].scan = t \/ FirstMessage(seen)
    BY DEF EndInv, StorageBounded
  <2> QED
    <3> HIDE DEF BInv, TypeOK
    <3>1. \A j \in 1..(seen - 1) : j \in 1..seen
      BY DEF BInv, TypeOK
    <3> QED
      BY <1>6, <1>7, <2>1, <2>2, <3>1 DEF FirstMessage
<1> QED
  BY <1>4, <1>5, <1>8, <1>9 DEF EndInv

LEMMA HandleStatusEnd == ASSUME BInv, EndInv, HandleStatus PROVE EndInv'
<1> USE DEF BInv, TypeOK, worldVars
<1>1. /\ seen' = seen + 1 /\ seen + 1 \in 1..Len(scan_status)
      /\ UNCHANGED <<phase, scan_status>>
      /\ nextScan \in Scans
  <2>1. seen + 1 \in 1..Len(scan_status) /\ seen' = seen + 1
    BY DEF HandleStatus
  <2>2. scan_status[seen + 1] \in [scan : Scans, status : Status]
    BY <2>1, ElementOfSeq
  <2> QED
    BY <2>1, <2>2 DEF nextScan, HandleStatus
<1> DEFINE known == sync[nextScan] # "absent" /\ nextScan \notin Outdated
<1>2. /\ \A t \in Scans : sync'[t] = IF t = nextScan /\ ~(known /\ nextStatus = "open")
                                      THEN nextStatus
                                      ELSE IF t \in Outdated THEN "absent" ELSE sync[t]
      /\ known => history' = history
  BY DEF HandleStatus, nextScan, nextStatus
<1> HIDE DEF known
<1>3. \A j, k \in 1..Len(scan_status) : j < k /\ Ended(j) => scan_status[j].scan # scan_status[k].scan
  BY DEF EndInv, EndLast
<1>4. ~HeardEnd(nextScan)
  <2> SUFFICES ASSUME NEW k \in 1..seen, scan_status[k].scan = nextScan, Ended(k) PROVE FALSE
    BY DEF HeardEnd
  <2>1. k \in 1..Len(scan_status) /\ k < seen + 1
    OBVIOUS
  <2> QED
    BY <1>1, <1>3, <2>1 DEF nextScan
<1>5. ASSUME ~known PROVE FirstMessage(seen + 1)
  <2>1. ~Heard(nextScan)
    BY <1>1, <1>4, <1>5 DEF known, Outdated, EndInv, Forgotten, Final
  <2> QED
    BY <2>1 DEF FirstMessage, Heard, nextScan
<1>6. ASSUME NEW t \in Scans, sync'[t] \in Final \/ Forgotten(t)' PROVE HeardEnd(t)'
  <2>1. HeardEnd(t) => HeardEnd(t)'
    BY <1>1 DEF HeardEnd, Ended
  <2>2. CASE t = nextScan
    <3>1. nextStatus # "absent"
      <4>1. scan_status[seen + 1] \in [scan : Scans, status : Status]
        BY <1>1, ElementOfSeq
      <4> QED
        BY <4>1 DEF nextStatus, Status, Final
    <3>2. sync'[t] = nextStatus /\ nextStatus \in Final
      BY <1>1, <1>2, <1>4, <1>6, <2>2, <3>1 DEF known, EndInv, Forgotten, Outdated, Final
    <3> QED
      <4>1. scan_status'[seen'].scan = t /\ Ended(seen)'
        BY <1>1, <2>2, <3>2 DEF Ended, nextScan, nextStatus
      <4>2. seen' \in 1..seen'
        BY <1>1
      <4> QED
        BY <4>1, <4>2 DEF HeardEnd
  <2>3. CASE t # nextScan
    <3>1. Heard(t)' => Heard(t)
      BY <1>1, <2>3 DEF Heard, nextScan
    <3>2. sync[t] \in Final \/ Forgotten(t)
      BY <1>2, <1>6, <2>3, <3>1 DEF Forgotten, Outdated, Final
    <3> QED
      BY <2>1, <3>2 DEF EndInv
  <2> QED
    BY <2>2, <2>3
<1>7. StorageBounded'
  <2> SUFFICES ASSUME NEW t \in Scans, sync'[t] \in {"closed", "aborted"}, ~InSeq(history', t),
                      t # nextScan
               PROVE  FirstMessage(seen + 1)
    BY <1>1 DEF StorageBounded, nextScan, InSeq, FirstMessage
  <2>1. t \notin Outdated /\ sync[t] \in {"closed", "aborted"}
    BY <1>2
  <2>2. ~known
    BY <1>2, <2>1 DEF Outdated
  <2> QED
    BY <1>5, <2>2
<1> QED
  BY <1>1, <1>6, <1>7 DEF EndInv, EndLast, Ended

LEMMA NextEndInv == ASSUME BInv, EndInv, [Next]_vars PROVE EndInv'
<1>1. CASE UNCHANGED <<phase, scan_status, seen, sync, history>>
  BY <1>1 DEF EndInv, Ended, EndLast, Forgotten, Heard, HeardEnd, StorageBounded, FirstMessage, InSeq
<1>2. ASSUME NEW s \in Scans, OpenScan(s), BundlerFrame PROVE EndInv'
  BY <1>2, AnnounceEnd DEF OpenScan, BundlerFrame, Status, Final
<1>3. ASSUME NEW s \in Scans, NEW status \in Reports, ReportScan(s, status), BundlerFrame PROVE EndInv'
  BY <1>3, AnnounceEnd, ReportsAssumption DEF ReportScan, BundlerFrame, Status, Final
<1>4. ASSUME NEW s \in Scans, AskReadings(s), BundlerFrame PROVE EndInv'
  BY <1>1, <1>4 DEF AskReadings, BundlerFrame, scanVars
<1>5. ASSUME NEW r \in Readings, TakeReading(r), BundlerFrame PROVE EndInv'
  BY <1>1, <1>5 DEF TakeReading, BundlerFrame, scanVars
<1>6. CASE HandleStatus
  BY <1>6, HandleStatusEnd
<1>7. CASE Executor
  BY <1>1, <1>7, UpdateIs DEF Executor, GiveUp, Drop, EndTask, worldVars, scanVars
<1>8. CASE UNCHANGED vars
  BY <1>1, <1>8 DEF vars, worldVars, scanVars
<1> QED
  BY <1>2, <1>3, <1>4, <1>5, <1>6, <1>7, <1>8 DEF Next, World, Idle

\* A closed or aborted scan that has left the history is removed by the next message,
\* and nothing brings it back.
THEOREM OldScansGo == Spec => []StorageBounded
<1>1. BInv /\ EndInv /\ [Next]_vars => BInv' /\ EndInv'
  BY NextBInv, NextEndInv
<1>2. EndInv => StorageBounded
  BY DEF EndInv
<1> QED
  BY InitBInv, InitEndInv, <1>1, <1>2, PTL DEF Spec
=============================================================================
