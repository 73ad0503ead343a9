------------------------- MODULE FileWriterProofs -------------------------
(***************************************************************************)
(* Theorems about FileWriter for every set of scans, points and devices.   *)
(***************************************************************************)
EXTENDS FileWriter, SequenceTheorems, FiniteSetTheorems, TLAPS

-----------------------------------------------------------------------------
(* The inductive invariant. Nothing is published of a scan after its end,   *)
(* and a point of a step scan is emitted once; ...                          *)

ClosedAt(j, s) == scan_status[j].scan = s /\ scan_status[j].status = "closed"
ClosedLast == \A j, k \in 1..Len(scan_status), s \in Scans :
                j < k /\ ClosedAt(j, s) => scan_status[k].scan # s
PointOnce == \A j, k \in 1..Len(scan_segment) :
               /\ scan_segment[j].scan = scan_segment[k].scan
               /\ scan_segment[j].point = scan_segment[k].point
               /\ scan_segment[j].scan \notin Fly
               => j = k
StreamInv == /\ \A j \in 1..Len(scan_status), s \in Scans : ClosedAt(j, s) => phase[s] = "closed"
             /\ ClosedLast
             /\ PointOnce

\* ... the consumers are in order with their messages, the lock and the storages; ...
Finishing == pc["status"] \in {"finish", "count"}
ControlInv ==
  /\ pc["segment"] \notin {"finish", "count"}
  /\ \A c \in Consumers : /\ pc[c] # "idle" => taken[c] # 0
                          /\ lock = c <=> pc[c] \in {"write", "pop"}
                          /\ pc[c] = "write" => scan_storage[ScanOf(c)] # 0
  /\ \A s \in Scans : scan_storage[s] # 0 => storages[scan_storage[s]].scan = s
  /\ Finishing => /\ held # 0 /\ storages[held].scan = ScanOf("status")
                  /\ Message("status").status = "closed"
  /\ \A k \in 1..Len(storages) : storages[k].scan \in Sync => storages[k].sync

\* ... a storage is finished by the closed state of its scan, so there is one; ...
ClosedTaken(s) == \E j \in 1..taken["status"] :
                    /\ ClosedAt(j, s)
                    /\ j = taken["status"] => pc["status"] \notin {"test", "create", "use", "finish"}
FinishedInv == /\ \A k \in 1..Len(storages) :
                    storages[k].finished => ClosedTaken(storages[k].scan)
               /\ \A j, k \in 1..Len(storages) :
                    storages[j].finished /\ storages[k].finished
                    /\ storages[j].scan = storages[k].scan => j = k

\* ... it has no points but those that were taken; ...
PointTaken(s, p) == \E j \in 1..taken["segment"] :
                      /\ scan_segment[j].scan = s /\ scan_segment[j].point = p
                      /\ j = taken["segment"] => pc["segment"] \notin {"test", "create", "use"}
PointInv == \A k \in 1..Len(storages) :
              \A p \in storages[k].points : PointTaken(storages[k].scan, p)

\* ... what is written was finished, and is popped before anybody else can look; ...
Finished(s) == \E k \in 1..Len(storages) : storages[k].scan = s /\ storages[k].finished
Popping(s) == \E c \in Consumers : pc[c] = "pop" /\ ScanOf(c) = s
OnceInv == /\ \A c \in Consumers : pc[c] \in {"write", "pop"} => Finished(ScanOf(c))
           /\ \A c \in Consumers : pc[c] = "write" => ~Written(ScanOf(c))
           /\ \A s \in Scans : Written(s) => Finished(s)
           /\ \A s \in Scans : Written(s) /\ scan_storage[s] # 0 /\ ~Popping(s)
                                 => ~storages[scan_storage[s]].finished
           /\ WrittenOnce

\* ... and a scan that is kept in sync was over by then.
Kept == Sync \ Fly
Full(k) == k \in 1..Len(storages) /\ storages[k].finished /\ storages[k].points = Points
Over(s) == \E k \in 1..Len(storages) : storages[k].scan = s /\ Full(k)
FullInv == /\ \A c \in Consumers : pc[c] = "write" /\ ScanOf(c) \in Kept => Full(scan_storage[ScanOf(c)])
           /\ \A c \in Consumers : pc[c] = "pop" /\ ScanOf(c) \in Kept => Over(ScanOf(c))
           /\ \A s \in Kept : Written(s) => Over(s) /\ (scan_storage[s] = 0 \/ Popping(s))
           /\ \A c \in Consumers : pc[c] = "use" /\ ScanOf(c) \in Kept => scan_storage[ScanOf(c)] # 0
           /\ FileComplete /\ ConsumersLive

WInv == /\ TypeOK /\ StreamInv /\ ControlInv /\ FinishedInv /\ PointInv
        /\ OnceInv /\ FullInv

-----------------------------------------------------------------------------
(* Topics                                                                   *)

StatusMessages == [scan : Scans, status : Stream!Final \cup {"open", "paused"}]
SegmentMessages == [scan : Scans, point : Points, by : Devices]

\* A topic only grows.
Grows(seq, new) == /\ Len(new) \in Nat /\ Len(new) >= Len(seq)
                   /\ \A j \in 1..Len(seq) : new[j] = seq[j]

\* Appending is such a growth.
LEMMA AppendGrows ==
  ASSUME NEW S, NEW seq \in Seq(S), NEW e \in S
  PROVE  /\ Append(seq, e) \in Seq(S) /\ Grows(seq, Append(seq, e))
         /\ Len(seq) \in Nat /\ Len(Append(seq, e)) = Len(seq) + 1
         /\ \A j \in 1..Len(Append(seq, e)) :
              \/ j \in 1..Len(seq) /\ Append(seq, e)[j] = seq[j]
              \/ j = Len(seq) + 1 /\ Append(seq, e)[j] = e
  BY DEF Grows

\* PointStream only adds messages of the right type.
LEMMA StreamGrows ==
  ASSUME TypeOK, Stream!Next
  PROVE  /\ phase' \in [Scans -> Stream!Final \cup {"new", "open", "paused"}]
         /\ scan_status' \in Seq(StatusMessages) /\ Grows(scan_status, scan_status')
         /\ scan_segment' \in Seq(SegmentMessages) /\ Grows(scan_segment, scan_segment')
<1> USE DEF TypeOK
<1>t. /\ scan_status \in Seq(StatusMessages) /\ Grows(scan_status, scan_status)
      /\ scan_segment \in Seq(SegmentMessages) /\ Grows(scan_segment, scan_segment)
  BY DEF StatusMessages, SegmentMessages, Grows
<1>1. ASSUME NEW s \in Scans, NEW status \in Stream!Final \cup {"open", "paused"},
             Stream!Announce(s, status)
      PROVE  scan_status' \in Seq(StatusMessages) /\ Grows(scan_status, scan_status')
  <2>1. [scan |-> s, status |-> status] \in StatusMessages
    BY DEF StatusMessages
  <2> QED
    BY <1>1, <1>t, <2>1, AppendGrows DEF Stream!Announce
<1>2. ASSUME NEW s \in Scans, Stream!Open(s)
      PROVE  /\ scan_status' \in Seq(StatusMessages) /\ Grows(scan_status, scan_status')
             /\ UNCHANGED scan_segment /\ phase' = [phase EXCEPT ![s] = "open"]
  BY <1>1, <1>2 DEF Stream!Open
<1>3. ASSUME NEW s \in Scans, NEW status \in Reports, Stream!Report(s, status)
      PROVE  /\ scan_status' \in Seq(StatusMessages) /\ Grows(scan_status, scan_status')
             /\ UNCHANGED scan_segment /\ phase' = [phase EXCEPT ![s] = status]
             /\ status \in Stream!Final \cup {"paused"}
  BY <1>1, <1>3, ReportsAssumption DEF Stream!Report, Stream!Final
<1>4. ASSUME NEW s \in Scans, NEW p \in Points, NEW d \in Devices, Stream!Emit(s, p, d)
      PROVE  /\ scan_segment' \in Seq(SegmentMessages) /\ Grows(scan_segment, scan_segment')
             /\ UNCHANGED <<phase, scan_status>>
  <2>1. [scan |-> s, point |-> p, by |-> d] \in SegmentMessages
    BY DEF SegmentMessages
  <2> QED
    BY <1>4, <1>t, <2>1, AppendGrows DEF Stream!Emit
<1> QED
  BY <1>t, <1>2, <1>3, <1>4 DEF Stream!Next

\* The message of a consumer that is not idle.
LEMMA MessageType ==
  ASSUME TypeOK, ControlInv, NEW c \in Consumers, pc[c] # "idle"
  PROVE  /\ taken[c] \in 1..Len(Topic(c)) /\ ScanOf(c) \in Scans
         /\ c = "status" => Message(c) \in StatusMessages
         /\ c = "segment" => Message(c) \in SegmentMessages
<1> USE DEF TypeOK, ControlInv, Consumers
<1>1. taken[c] \in 1..Len(Topic(c))
  OBVIOUS
<1>2. CASE c = "status"
  <2>1. scan_status \in Seq(StatusMessages) /\ taken[c] \in 1..Len(scan_status)
    BY <1>1, <1>2 DEF Topic, StatusMessages
  <2>2. scan_status[taken[c]] \in StatusMessages
    BY <2>1, ElementOfSeq
  <2> QED
    BY <1>1, <1>2, <2>2 DEF Topic, Message, ScanOf, StatusMessages
<1>3. CASE c = "segment"
  <2>1. scan_segment \in Seq(SegmentMessages) /\ taken[c] \in 1..Len(scan_segment)
    BY <1>1, <1>3 DEF Topic, SegmentMessages
  <2>2. scan_segment[taken[c]] \in SegmentMessages
    BY <2>1, ElementOfSeq
  <2> QED
    BY <1>1, <1>3, <2>2 DEF Topic, Message, ScanOf, SegmentMessages
<1> QED
  BY <1>2, <1>3

-----------------------------------------------------------------------------
(* Types and control                                                        *)

\* The invariant holds at first.
LEMMA InitWInv == Init => WInv
<1> SUFFICES ASSUME Init PROVE WInv
  OBVIOUS
<1> USE DEF Init, Stream!Init
<1>1. TypeOK
  BY DEF TypeOK, Consumers, Stream!Final
<1>2. StreamInv /\ ControlInv
  BY DEF StreamInv, ClosedLast, PointOnce, ControlInv, Consumers, Finishing
<1>3. FinishedInv /\ PointInv
  BY DEF FinishedInv, PointInv
<1>4. OnceInv /\ FullInv
  BY DEF OnceInv, Written, WrittenOnce, FullInv, FileComplete, ConsumersLive, Consumers
<1> QED
  BY <1>1, <1>2, <1>3, <1>4 DEF WInv

Storages == [scan : Scans, points : SUBSET Points, finished : BOOLEAN,
             num : {None, Cardinality(Points)}, sync : BOOLEAN]

\* A storage that is changed, and nothing else.
Changes(k, e) == /\ k \in 1..Len(storages) /\ storages[k] \in Storages
                 /\ storages' \in Seq(Storages) /\ Len(storages') = Len(storages)
                 /\ storages'[k] = e
                 /\ \A j \in 1..Len(storages) : j # k => storages'[j] = storages[j]

\* An update of one field is such a change.
LEMMA StorageChanges ==
  ASSUME storages \in Seq(Storages), NEW k \in 1..Len(storages), NEW e \in Storages,
         storages' = [storages EXCEPT ![k] = e]
  PROVE  Changes(k, e)
<1>1. storages[k] \in Storages
  BY ElementOfSeq
<1> QED
  BY <1>1, ExceptSeq DEF Changes

\* A new storage comes last.
LEMMA Creates ==
  ASSUME TypeOK, ControlInv, NEW c \in Consumers, Create(c)
  PROVE  /\ ScanOf(c) \in Scans
         /\ storages' \in Seq(Storages)
         /\ Len(storages) \in Nat /\ Len(storages') = Len(storages) + 1
         /\ storages'[Len(storages')] = ScanStorage(ScanOf(c))
         /\ \A k \in 1..Len(storages) : storages'[k] = storages[k]
<1>1. ScanOf(c) \in Scans
  BY MessageType DEF Create, Goto
<1>2. ScanStorage(ScanOf(c)) \in Storages
  BY <1>1 DEF ScanStorage, Storages
<1>3. storages \in Seq(Storages)
  BY DEF TypeOK, Storages
<1>4. storages' = Append(storages, ScanStorage(ScanOf(c)))
  BY DEF Create
<1> QED
  BY <1>1, <1>2, <1>3, <1>4, AppendGrows DEF Grows

\* A point goes into the storage of its scan.
LEMMA Inserts ==
  ASSUME TypeOK, ControlInv, InsertPoint
  PROVE  LET k == scan_storage[ScanOf("segment")]
             p == Message("segment").point
         IN  /\ ScanOf("segment") \in Scans /\ p \in Points
             /\ Changes(k, [storages[k] EXCEPT !.points = @ \cup {p}])
<1> DEFINE k == scan_storage[ScanOf("segment")]
           p == Message("segment").point
           e == [storages[k] EXCEPT !.points = @ \cup {p}]
<1>1. ScanOf("segment") \in Scans /\ Message("segment") \in SegmentMessages
  BY MessageType DEF InsertPoint, Goto, Consumers
<1>2. storages \in Seq(Storages)
  BY DEF TypeOK, Storages
<1>3. k \in 1..Len(storages)
  BY <1>1 DEF InsertPoint, TypeOK
<1>4. storages[k] \in Storages
  BY <1>2, <1>3, ElementOfSeq
<1>5. e \in Storages /\ p \in Points
  BY <1>1, <1>4 DEF SegmentMessages, Storages
<1>6. storages' = [storages EXCEPT ![k] = e]
  BY DEF InsertPoint
<1>7. Changes(k, e)
  BY <1>2, <1>3, <1>5, <1>6, StorageChanges
<1> QED
  BY <1>1, <1>5, <1>7

\* What the status consumer holds is a storage of its closed scan.
LEMMA HoldsStorage ==
  ASSUME TypeOK, ControlInv, Finishing
  PROVE  /\ ScanOf("status") \in Scans /\ Message("status").status = "closed"
         /\ held \in 1..Len(storages) /\ storages \in Seq(Storages)
         /\ storages[held] \in Storages /\ storages[held].scan = ScanOf("status")
<1>1. ScanOf("status") \in Scans
  BY MessageType DEF Finishing, Consumers
<1>2. storages \in Seq(Storages)
  BY DEF TypeOK, Storages
<1>3. held \in 1..Len(storages)
  BY DEF TypeOK, ControlInv
<1>4. storages[held] \in Storages
  BY <1>2, <1>3, ElementOfSeq
<1> QED
  BY <1>1, <1>2, <1>3, <1>4 DEF ControlInv

\* It is finished, ...
LEMMA Finishes ==
  ASSUME TypeOK, ControlInv, SetFinished
  PROVE  Finishing /\ Changes(held, [storages[held] EXCEPT !.finished = TRUE])
<1>1. Finishing
  BY DEF SetFinished, Goto, Finishing
<1>2. storages[held] \in Storages
  BY <1>1, HoldsStorage
<1>3. [storages[held] EXCEPT !.finished = TRUE] \in Storages
  BY <1>2 DEF Storages
<1> QED
  BY <1>1, <1>3, HoldsStorage, StorageChanges DEF SetFinished

\* ... and told how many points there are.
LEMMA Counts ==
  ASSUME TypeOK, ControlInv, SetNumPoints
  PROVE  /\ Finishing
         /\ Changes(held, [storages[held] EXCEPT !.num = Cardinality(Points),
                                                 !.sync = ScanOf("status") \in Sync])
<1> DEFINE inSync == ScanOf("status") \in Sync
           e == [storages[held] EXCEPT !.num = Cardinality(Points), !.sync = inSync]
<1>1. Finishing
  BY DEF SetNumPoints, Goto, Finishing
<1>2. storages[held] \in Storages
  BY <1>1, HoldsStorage
<1>3. inSync \in BOOLEAN
  OBVIOUS
<1>4. e \in Storages
  <2> HIDE DEF inSync
  <2> QED
    BY <1>2, <1>3 DEF Storages
<1>5. storages' = [storages EXCEPT ![held] = e]
  BY <1>2 DEF SetNumPoints, Storages
<1>6. Changes(held, e)
  <2> HIDE DEF e
  <2> QED
    BY <1>1, <1>4, <1>5, HoldsStorage, StorageChanges
<1> QED
  BY <1>1, <1>6

\* Each step of the consumers keeps the types.
LEMMA WriterTypeOK ==
  ASSUME TypeOK, ControlInv, Writer, UNCHANGED topicVars
  PROVE  TypeOK'
<1> USE DEF TypeOK, Goto, topicVars
<1>1. ASSUME NEW c \in Consumers, Take(c) PROVE TypeOK'
  BY <1>1, SMTT(30) DEF Take, Topic
<1>2. ASSUME NEW c \in Consumers, Test(c) \/ Missing(c) PROVE TypeOK'
  BY <1>2 DEF Test, Missing, Topic
<1>3. ASSUME NEW c \in Consumers, Create(c) PROVE TypeOK'
  <2>1. storages' \in Seq(Storages) /\ Len(storages') = Len(storages) + 1 /\ Len(storages) \in Nat
    BY <1>3, Creates
  <2>2. scan_storage' \in [Scans -> 0..Len(storages')]
    <3> DEFINE n == Len(storages')
    <3>1. n \in Nat /\ n \in 0..n /\ 0..Len(storages) \subseteq 0..n
      BY <2>1
    <3>2. scan_storage' = [scan_storage EXCEPT ![ScanOf(c)] = n]
      BY <1>3 DEF Create
    <3> HIDE DEF n
    <3> QED
      BY <3>1, <3>2 DEF n
  <2>3. held' \in 0..Len(storages')
    BY <1>3, <2>1 DEF Create
  <2> QED
    BY <1>3, <2>1, <2>2, <2>3 DEF Create, Topic, Storages
<1>4. CASE InsertPoint
  <2>1. storages' \in Seq(Storages) /\ Len(storages') = Len(storages)
    BY <1>4, Inserts DEF Changes
  <2> QED
    BY <1>4, <2>1 DEF InsertPoint, Topic, Consumers, Storages
<1>5. CASE UpdateMetadata
  <2>1. ScanOf("status") \in Scans
    BY <1>5, MessageType DEF UpdateMetadata, Consumers
  <2> QED
    BY <1>5, <2>1 DEF UpdateMetadata, Topic, Consumers
<1>6. CASE SetFinished
  <2>1. storages' \in Seq(Storages) /\ Len(storages') = Len(storages)
    BY <1>6, Finishes DEF Changes
  <2> QED
    BY <1>6, <2>1 DEF SetFinished, Topic, Consumers, Storages
<1>7. CASE SetNumPoints
  <2>1. storages' \in Seq(Storages) /\ Len(storages') = Len(storages)
    BY <1>7, Counts DEF Changes
  <2> HIDE DEF TypeOK
  <2>2. held' = 0 /\ UNCHANGED <<phase, scan_status, scan_segment, scan_storage, taken, lock, files>>
    BY <1>7 DEF SetNumPoints
  <2>3. pc' = [pc EXCEPT !["status"] = "check"]
    BY <1>7 DEF SetNumPoints
  <2> QED
    BY <2>1, <2>2, <2>3 DEF TypeOK, Topic, Consumers, Storages
<1>8. ASSUME NEW c \in Consumers, Check(c) PROVE TypeOK'
  <2>1. PICK next \in {"write", "idle"}, holder \in {c, "free"} :
          pc' = [pc EXCEPT ![c] = next] /\ lock' = holder
    BY <1>8 DEF Check
  <2> QED
    BY <1>8, <2>1 DEF Check, Topic
<1>9. ASSUME NEW c \in Consumers, Pop(c) PROVE TypeOK'
  <2>1. ScanOf(c) \in Scans
    BY <1>9, MessageType DEF Pop
  <2> QED
    BY <1>9, <2>1 DEF Pop, Topic
<1>10. ASSUME NEW c \in Consumers, WriteFile(c) PROVE TypeOK'
  <2>1. ScanOf(c) \in Scans
    BY <1>10, MessageType DEF WriteFile
  <2>2. scan_storage[ScanOf(c)] \in 1..Len(storages)
    BY <1>10, <2>1 DEF WriteFile, ControlInv
  <2>3. storages[scan_storage[ScanOf(c)]] \in Storages
    BY <2>2, ElementOfSeq DEF Storages
  <2> QED
    BY <1>10, <2>1, <2>3 DEF WriteFile, Topic, Storages
<1> QED
  BY <1>1, <1>2, <1>3, <1>4, <1>5, <1>6, <1>7, <1>8, <1>9, <1>10 DEF Writer, Consumer

-----------------------------------------------------------------------------
(* The topics                                                               *)

\* Nothing but an open or paused scan is reported as closed.
LEMMA StreamKeepsStreamInv ==
  ASSUME TypeOK, StreamInv, Stream!Next
  PROVE  StreamInv'
<1> USE DEF TypeOK, StreamInv
<1>s. scan_status \in Seq(StatusMessages) /\ scan_segment \in Seq(SegmentMessages)
  BY DEF StatusMessages, SegmentMessages
<1>1. ASSUME NEW s \in Scans, NEW status \in Stream!Final \cup {"open", "paused"},
             phase[s] \in {"new", "open", "paused"},
             phase' = [phase EXCEPT ![s] = status],
             Stream!Announce(s, status), UNCHANGED scan_segment
      PROVE  StreamInv'
  <2> DEFINE message == [scan |-> s, status |-> status]
  <2>1. message \in StatusMessages /\ scan_status' = Append(scan_status, message)
    BY <1>1 DEF StatusMessages, Stream!Announce
  <2>2. /\ Len(scan_status) \in Nat /\ Len(scan_status') = Len(scan_status) + 1
        /\ \A j \in 1..Len(scan_status') :
             \/ j \in 1..Len(scan_status) /\ scan_status'[j] = scan_status[j]
             \/ j = Len(scan_status) + 1 /\ scan_status'[j] = message
    BY <1>s, <2>1, AppendGrows
  <2>3. \A j \in 1..Len(scan_status), t \in Scans : ClosedAt(j, t) => t # s
    BY <1>1
  <2>4. ASSUME NEW j \in 1..Len(scan_status'), NEW t \in Scans, ClosedAt(j, t)'
        PROVE  phase'[t] = "closed"
    <3>1. CASE j \in 1..Len(scan_status) /\ scan_status'[j] = scan_status[j]
      <4>1. ClosedAt(j, t)
        BY <2>4, <3>1 DEF ClosedAt
      <4> QED
        BY <1>1, <2>3, <3>1, <4>1
    <3>2. CASE scan_status'[j] = message
      BY <1>1, <2>4, <3>2 DEF ClosedAt
    <3> QED
      BY <2>2, <3>1, <3>2
  <2>5. ASSUME NEW j \in 1..Len(scan_status'), NEW k \in 1..Len(scan_status'), NEW t \in Scans,
               j < k, ClosedAt(j, t)'
        PROVE  scan_status'[k].scan # t
    <3>1. j \in 1..Len(scan_status) /\ scan_status'[j] = scan_status[j]
      BY <2>2, <2>5
    <3>2. ClosedAt(j, t)
      BY <2>5, <3>1 DEF ClosedAt
    <3>3. CASE k \in 1..Len(scan_status) /\ scan_status'[k] = scan_status[k]
      BY <2>5, <3>1, <3>2, <3>3 DEF ClosedLast
    <3>4. CASE scan_status'[k] = message
      BY <2>3, <3>1, <3>2, <3>4
    <3> QED
      BY <2>2, <3>3, <3>4
  <2> QED
    BY <1>1, <2>4, <2>5 DEF ClosedLast, PointOnce
<1>2. ASSUME NEW s \in Scans, Stream!Open(s) PROVE StreamInv'
  BY <1>1, <1>2 DEF Stream!Open
<1>3. ASSUME NEW s \in Scans, NEW status \in Reports, Stream!Report(s, status) PROVE StreamInv'
  BY <1>1, <1>3, ReportsAssumption DEF Stream!Report, Stream!Final
<1>4. ASSUME NEW s \in Scans, NEW p \in Points, NEW d \in Devices, Stream!Emit(s, p, d)
      PROVE  StreamInv'
  <2> DEFINE segment == [scan |-> s, point |-> p, by |-> d]
  <2>1. segment \in SegmentMessages /\ scan_segment' = Append(scan_segment, segment)
    BY <1>4 DEF SegmentMessages, Stream!Emit
  <2>2. /\ Len(scan_segment) \in Nat /\ Len(scan_segment') = Len(scan_segment) + 1
        /\ \A j \in 1..Len(scan_segment') :
             \/ j \in 1..Len(scan_segment) /\ scan_segment'[j] = scan_segment[j]
             \/ j = Len(scan_segment) + 1 /\ scan_segment'[j] = segment
    BY <1>s, <2>1, AppendGrows
  <2>3. ASSUME s \notin Fly, NEW j \in 1..Len(scan_segment)
        PROVE  ~(scan_segment[j].scan = s /\ scan_segment[j].point = p)
    <3>1. scan_segment[j] \in SegmentMessages
      BY <1>s, ElementOfSeq
    <3>2. /\ scan_segment[j].by \in Devices
          /\ scan_segment[j] = [scan |-> scan_segment[j].scan, point |-> scan_segment[j].point,
                                by |-> scan_segment[j].by]
      BY <3>1 DEF SegmentMessages
    <3>3. ~Stream!Emitted(s, p)
      BY <1>4, <2>3 DEF Stream!Emit
    <3> QED
      BY <3>2, <3>3 DEF Stream!Emitted, Stream!Among
  <2>4. PointOnce'
    <3> SUFFICES ASSUME NEW j \in 1..Len(scan_segment'), NEW k \in 1..Len(scan_segment'),
                        scan_segment'[j].scan = scan_segment'[k].scan,
                        scan_segment'[j].point = scan_segment'[k].point,
                        scan_segment'[j].scan \notin Fly
                 PROVE  j = k
      BY DEF PointOnce
    <3>1. CASE /\ j \in 1..Len(scan_segment) /\ scan_segment'[j] = scan_segment[j]
               /\ k \in 1..Len(scan_segment) /\ scan_segment'[k] = scan_segment[k]
      BY <3>1 DEF PointOnce
    <3>2. ASSUME NEW i \in 1..Len(scan_segment), scan_segment'[i] = scan_segment[i],
                 scan_segment'[i].scan \notin Fly, scan_segment'[i].scan = s, scan_segment'[i].point = p
          PROVE  FALSE
      BY <2>3, <3>2
    <3>3. segment.scan = s /\ segment.point = p
      OBVIOUS
    <3> HIDE DEF segment
    <3>4. CASE scan_segment'[j] = segment
      <4>1. scan_segment'[k].scan = s /\ scan_segment'[k].point = p /\ s \notin Fly
        BY <3>3, <3>4
      <4>2. k = Len(scan_segment) + 1
        BY <2>2, <3>2, <4>1
      <4>3. j = Len(scan_segment) + 1
        BY <2>2, <3>2, <3>3, <3>4, <4>1
      <4> QED
        BY <4>2, <4>3
    <3>5. CASE scan_segment'[k] = segment
      <4>1. scan_segment'[j].scan = s /\ scan_segment'[j].point = p /\ s \notin Fly
        BY <3>3, <3>5
      <4>2. j = Len(scan_segment) + 1
        BY <2>2, <3>2, <4>1
      <4>3. k = Len(scan_segment) + 1
        BY <2>2, <3>2, <3>3, <3>5, <4>1
      <4> QED
        BY <4>2, <4>3
    <3> QED
      BY <2>2, <3>1, <3>4, <3>5
  <2> QED
    BY <1>4, <2>4 DEF Stream!Emit, ClosedLast, ClosedAt
<1> QED
  BY <1>2, <1>3, <1>4 DEF Stream!Next

\* A consumer keeps the message it has taken until it is done with it.
LEMMA MessageStays ==
  ASSUME TypeOK, ControlInv,
         (Stream!Next /\ UNCHANGED writerVars) \/ (Writer /\ UNCHANGED topicVars),
         NEW c \in Consumers, pc[c] # "idle"
  PROVE  taken'[c] = taken[c] /\ Message(c)' = Message(c) /\ ScanOf(c)' = ScanOf(c)
<1>1. taken[c] \in 1..Len(Topic(c))
  BY MessageType
<1>2. taken'[c] = taken[c]
  <2>1. CASE Writer
    <3>1. ASSUME NEW d \in Consumers, Take(d) PROVE taken'[c] = taken[c]
      BY <3>1 DEF Take, Goto, TypeOK
    <3> QED
      BY <2>1, <3>1 DEF Writer, Consumer, Test, Create, Missing, InsertPoint, UpdateMetadata,
                        SetFinished, SetNumPoints, Check, WriteFile, Pop
  <2> QED
    BY <2>1 DEF writerVars
<1>3. Topic(c)'[taken[c]] = Topic(c)[taken[c]]
  <2>1. CASE Stream!Next
    BY <1>1, <2>1, StreamGrows DEF Topic, Grows
  <2> QED
    BY <2>1 DEF topicVars, Topic
<1> QED
  BY <1>2, <1>3 DEF Message, ScanOf

-----------------------------------------------------------------------------
(* What a step of the consumers leaves alone                                *)

\* A storage stays that of its scan, finished, and keeps its points.
LEMMA StoragesStay ==
  ASSUME TypeOK, ControlInv, Writer
  PROVE  /\ Len(storages) \in Nat /\ Len(storages') \in Nat /\ Len(storages) <= Len(storages')
         /\ \A k \in 1..Len(storages) :
              /\ storages'[k].scan = storages[k].scan
              /\ storages[k].finished => storages'[k].finished
              /\ storages[k].points \subseteq storages'[k].points
<1> DEFINE Stay == /\ Len(storages) \in Nat /\ Len(storages') \in Nat /\ Len(storages) <= Len(storages')
                   /\ \A k \in 1..Len(storages) :
                        /\ storages'[k].scan = storages[k].scan
                        /\ storages[k].finished => storages'[k].finished
                        /\ storages[k].points \subseteq storages'[k].points
<1>n. Len(storages) \in Nat
  BY DEF TypeOK
<1>1. ASSUME NEW c \in Consumers, Create(c) PROVE Stay
  BY <1>1, Creates
<1>2. ASSUME NEW k \in 1..Len(storages), NEW e, Changes(k, e),
             e.scan = storages[k].scan, storages[k].finished => e.finished,
             storages[k].points \subseteq e.points
      PROVE  Stay
  BY <1>n, <1>2 DEF Changes
<1>3. CASE InsertPoint
  <2> DEFINE k == scan_storage[ScanOf("segment")]
             p == Message("segment").point
             e == [storages[k] EXCEPT !.points = @ \cup {p}]
  <2>1. Changes(k, e)
    BY <1>3, Inserts
  <2>2. storages[k] \in Storages /\ k \in 1..Len(storages)
    BY <2>1 DEF Changes
  <2>3. /\ e.scan = storages[k].scan /\ e.finished = storages[k].finished
        /\ storages[k].points \subseteq e.points
    BY <2>2 DEF Storages
  <2> HIDE DEF k, e
  <2> QED
    BY <1>2, <2>1, <2>2, <2>3
<1>4. CASE SetFinished
  <2> DEFINE e == [storages[held] EXCEPT !.finished = TRUE]
  <2>1. Changes(held, e)
    BY <1>4, Finishes
  <2>2. storages[held] \in Storages /\ held \in 1..Len(storages)
    BY <2>1 DEF Changes
  <2>3. /\ e.scan = storages[held].scan /\ e.finished
        /\ storages[held].points = e.points
    BY <2>2 DEF Storages
  <2> HIDE DEF e
  <2> QED
    BY <1>2, <2>1, <2>2, <2>3
<1>5. CASE SetNumPoints
  <2> DEFINE e == [storages[held] EXCEPT !.num = Cardinality(Points),
                                         !.sync = ScanOf("status") \in Sync]
  <2>1. Changes(held, e)
    BY <1>5, Counts
  <2>2. storages[held] \in Storages /\ held \in 1..Len(storages)
    BY <2>1 DEF Changes
  <2>3. /\ e.scan = storages[held].scan /\ e.finished = storages[held].finished
        /\ storages[held].points = e.points
    BY <2>2 DEF Storages
  <2> HIDE DEF e
  <2> QED
    BY <1>2, <2>1, <2>2, <2>3
<1>6. CASE UNCHANGED storages
  BY <1>n, <1>6
<1> QED
  BY <1>1, <1>3, <1>4, <1>5, <1>6
  DEF Writer, Consumer, Take, Test, Missing, UpdateMetadata, Check, WriteFile, Pop

\* What was taken stays taken.
LEMMA TakenStays ==
  ASSUME TypeOK, ControlInv, Writer, UNCHANGED topicVars
  PROVE  /\ \A s \in Scans : ClosedTaken(s) => ClosedTaken(s)'
         /\ \A s \in Scans, p \in Points : PointTaken(s, p) => PointTaken(s, p)'
<1> USE DEF TypeOK, Consumers
<1>1. ASSUME NEW c \in Consumers
      PROVE  \/ taken'[c] = taken[c] + 1
             \/ /\ taken'[c] = taken[c]
                /\ c = "status" /\ pc[c] \notin {"test", "create", "use", "finish"}
                     => pc'[c] \notin {"test", "create", "use", "finish"}
                /\ c = "segment" /\ pc[c] \notin {"test", "create", "use"}
                     => pc'[c] \notin {"test", "create", "use"}
  <2>1. ASSUME NEW d \in Consumers, Take(d) \/ Test(d) \/ Create(d) \/ Missing(d)
        PROVE  \/ taken'[c] = taken[c] + 1
               \/ /\ taken'[c] = taken[c]
                  /\ c = "status" /\ pc[c] \notin {"test", "create", "use", "finish"}
                       => pc'[c] \notin {"test", "create", "use", "finish"}
                  /\ c = "segment" /\ pc[c] \notin {"test", "create", "use"}
                       => pc'[c] \notin {"test", "create", "use"}
    BY <2>1 DEF Take, Test, Create, Missing, Goto
  <2>2. ASSUME NEW d \in Consumers, Check(d) \/ WriteFile(d) \/ Pop(d)
        PROVE  UNCHANGED taken /\ pc'[d] \notin {"test", "create", "use", "finish"}
               /\ (d # c => pc'[c] = pc[c])
    BY <2>2 DEF Check, WriteFile, Pop, Goto
  <2>3. CASE InsertPoint \/ SetFinished \/ SetNumPoints
    BY <2>3 DEF InsertPoint, SetFinished, SetNumPoints, Goto
  <2>4. CASE UpdateMetadata
    BY <2>4 DEF UpdateMetadata, Goto
  <2> QED
    BY <2>1, <2>2, <2>3, <2>4 DEF Writer, Consumer
<1>2. taken["status"] \in Nat /\ taken["segment"] \in Nat
  OBVIOUS
<1>3. ASSUME NEW s \in Scans, ClosedTaken(s) PROVE ClosedTaken(s)'
  <2>1. PICK j \in 1..taken["status"] :
          /\ ClosedAt(j, s)
          /\ j = taken["status"] => pc["status"] \notin {"test", "create", "use", "finish"}
    BY <1>3 DEF ClosedTaken
  <2>2. ClosedAt(j, s)'
    BY <2>1 DEF ClosedAt, topicVars
  <2>3. j \in 1..taken'["status"]
    BY <1>1, <1>2
  <2>4. j = taken'["status"] => pc'["status"] \notin {"test", "create", "use", "finish"}
    BY <1>1, <1>2, <2>1
  <2> QED
    BY <2>2, <2>3, <2>4 DEF ClosedTaken
<1>4. ASSUME NEW s \in Scans, NEW p \in Points, PointTaken(s, p) PROVE PointTaken(s, p)'
  <2>1. PICK j \in 1..taken["segment"] :
          /\ scan_segment[j].scan = s /\ scan_segment[j].point = p
          /\ j = taken["segment"] => pc["segment"] \notin {"test", "create", "use"}
    BY <1>4 DEF PointTaken
  <2>2. j \in 1..taken'["segment"]
    BY <1>1, <1>2
  <2>3. j = taken'["segment"] => pc'["segment"] \notin {"test", "create", "use"}
    BY <1>1, <1>2, <2>1
  <2> QED
    BY <2>1, <2>2, <2>3 DEF PointTaken, topicVars
<1> QED
  BY <1>3, <1>4

-----------------------------------------------------------------------------
(* Control                                                                  *)

\* New messages do not disturb what the consumers do with those they took.
LEMMA StreamKeepsRest ==
  ASSUME WInv, Stream!Next, UNCHANGED writerVars
  PROVE  WInv'
<1> USE DEF WInv, writerVars
<1>1. TypeOK'
  <2>1. /\ phase' \in [Scans -> Stream!Final \cup {"new", "open", "paused"}]
        /\ scan_status' \in Seq(StatusMessages) /\ Grows(scan_status, scan_status')
        /\ scan_segment' \in Seq(SegmentMessages) /\ Grows(scan_segment, scan_segment')
    BY StreamGrows
  <2>2. \A c \in Consumers : taken[c] <= Len(Topic(c)')
    BY <2>1 DEF TypeOK, Consumers, Topic, Grows
  <2> QED
    BY <2>1, <2>2 DEF TypeOK, StatusMessages, SegmentMessages
<1>2. StreamInv'
  BY StreamKeepsStreamInv
<1>3. \A c \in Consumers : pc[c] # "idle" => Message(c)' = Message(c) /\ ScanOf(c)' = ScanOf(c)
  BY MessageStays
<1>4. ControlInv'
  <2>1. pc["status"] \in {"finish", "count"} => ScanOf("status")' = ScanOf("status")
                                               /\ Message("status")' = Message("status")
    BY <1>3 DEF Consumers
  <2> QED
    BY <1>3, <2>1 DEF ControlInv, Finishing
<1>5. FinishedInv' /\ PointInv'
  <2>1. Grows(scan_status, scan_status') /\ Grows(scan_segment, scan_segment')
    BY StreamGrows
  <2>2. ASSUME NEW j \in 1..taken["status"] PROVE scan_status'[j] = scan_status[j]
    BY <2>1 DEF Grows, TypeOK, Consumers, Topic
  <2>3. ASSUME NEW j \in 1..taken["segment"] PROVE scan_segment'[j] = scan_segment[j]
    BY <2>1 DEF Grows, TypeOK, Consumers, Topic
  <2>4. ASSUME NEW s, ClosedTaken(s) PROVE ClosedTaken(s)'
    BY <2>2, <2>4 DEF ClosedTaken, ClosedAt
  <2>5. ASSUME NEW s, NEW p, PointTaken(s, p) PROVE PointTaken(s, p)'
    BY <2>3, <2>5 DEF PointTaken
  <2> QED
    BY <2>4, <2>5 DEF FinishedInv, PointInv
<1>6. \A s \in Scans : Popping(s)' <=> Popping(s)
  BY <1>3 DEF Popping
<1>7. OnceInv'
  BY <1>3, <1>6 DEF OnceInv, Finished, Written, WrittenOnce
<1>8. FullInv'
  <2>1. /\ \A k : Full(k)' <=> Full(k)
        /\ \A s : Over(s)' <=> Over(s)
        /\ \A s : Written(s)' <=> Written(s)
    BY DEF Full, Over, Written
  <2>2. \A c \in Consumers : pc'[c] \in {"write", "pop", "use", "dead"}
          => pc[c] = pc'[c] /\ ScanOf(c)' = ScanOf(c)
    BY <1>3
  <2>3. \A c \in Consumers : pc'[c] = "write" /\ ScanOf(c)' \in Kept => Full(scan_storage[ScanOf(c)])'
    BY <2>2 DEF FullInv, Full
  <2>4. \A c \in Consumers : pc'[c] = "pop" /\ ScanOf(c)' \in Kept => Over(ScanOf(c))'
    BY <2>2 DEF FullInv, Over, Full
  <2>5. \A s \in Kept : Written(s)' => Over(s)' /\ (scan_storage'[s] = 0 \/ Popping(s)')
    BY <1>6, <2>1, ScansAssumption DEF FullInv, Kept
  <2>6. \A c \in Consumers : pc'[c] = "use" /\ ScanOf(c)' \in Kept => scan_storage'[ScanOf(c)'] # 0
    BY <2>2 DEF FullInv
  <2>7. FileComplete' /\ ConsumersLive'
    BY <2>2 DEF FullInv, FileComplete, ConsumersLive
  <2> QED
    BY <2>3, <2>4, <2>5, <2>6, <2>7 DEF FullInv, Kept
<1> QED
  BY <1>1, <1>2, <1>4, <1>5, <1>7, <1>8

\* The writer that holds the lock is alone.
LEMMA OneHolder ==
  ASSUME TypeOK, ControlInv, NEW c \in Consumers, NEW d \in Consumers,
         pc[c] \in {"write", "pop"}, pc[d] \in {"write", "pop"}
  PROVE  c = d
  BY DEF ControlInv

\* The consumers' programs, step by step.
LEMMA WriterKeepsControl ==
  ASSUME TypeOK, ControlInv, Writer, UNCHANGED topicVars
  PROVE  ControlInv'
<1> DEFINE Program(c) == /\ pc[c] # "idle" => taken[c] # 0
                         /\ lock = c <=> pc[c] \in {"write", "pop"}
           Named(s) == scan_storage[s] # 0 => storages[scan_storage[s]].scan = s
           Synced(k) == storages[k].scan \in Sync => storages[k].sync
<1>t. TypeOK'
  BY WriterTypeOK
<1>m. \A c \in Consumers : pc[c] # "idle" => Message(c)' = Message(c) /\ ScanOf(c)' = ScanOf(c)
  BY MessageStays
<1>1. pc'["segment"] \notin {"finish", "count"} /\ \A c \in Consumers : Program(c)'
  <2> USE DEF TypeOK, Consumers, Goto
  <2>0. pc["segment"] \notin {"finish", "count"} /\ \A c \in Consumers : Program(c)
    BY DEF ControlInv
  <2>1. ASSUME NEW c \in Consumers, Take(c) \/ Test(c) \/ Create(c) \/ Missing(c)
        PROVE  pc'["segment"] \notin {"finish", "count"} /\ \A d \in Consumers : Program(d)'
    BY <2>0, <2>1 DEF Take, Test, Create, Missing
  <2>2. ASSUME NEW c \in Consumers, Check(c)
        PROVE  pc'["segment"] \notin {"finish", "count"} /\ \A d \in Consumers : Program(d)'
    <3>1. lock = "free" /\ pc[c] = "check" /\ UNCHANGED taken
      BY <2>2 DEF Check
    <3>2. \/ pc' = [pc EXCEPT ![c] = "write"] /\ lock' = c
          \/ pc' = [pc EXCEPT ![c] = "idle"] /\ lock' = "free"
      BY <2>2 DEF Check
    <3> QED
      BY <2>0, <3>1, <3>2
  <2>3. ASSUME NEW c \in Consumers, WriteFile(c) \/ Pop(c)
        PROVE  pc'["segment"] \notin {"finish", "count"} /\ \A d \in Consumers : Program(d)'
    BY <2>0, <2>3 DEF WriteFile, Pop
  <2>4. CASE InsertPoint \/ SetFinished \/ SetNumPoints
    BY <2>0, <2>4 DEF InsertPoint, SetFinished, SetNumPoints
  <2>5. CASE UpdateMetadata
    BY <2>0, <2>5 DEF UpdateMetadata
  <2> QED
    BY <2>1, <2>2, <2>3, <2>4, <2>5 DEF Writer, Consumer
<1>2. \A s \in Scans : Named(s)'
  <2> SUFFICES ASSUME NEW s \in Scans, scan_storage'[s] # 0
               PROVE  storages'[scan_storage'[s]].scan = s
    OBVIOUS
  <2>1. CASE scan_storage'[s] = scan_storage[s]
    <3>1. scan_storage[s] \in 1..Len(storages) /\ storages[scan_storage[s]].scan = s
      BY <2>1 DEF ControlInv, TypeOK
    <3> QED
      BY <2>1, <3>1, StoragesStay
  <2>2. ASSUME NEW c \in Consumers, Create(c), scan_storage'[s] # scan_storage[s]
        PROVE  storages'[scan_storage'[s]].scan = s
    <3>1. s = ScanOf(c) /\ scan_storage'[s] = Len(storages')
      BY <2>2, Creates DEF Create, TypeOK
    <3>2. storages'[Len(storages')] = ScanStorage(ScanOf(c)) /\ ScanStorage(ScanOf(c)).scan = ScanOf(c)
      BY <2>2, Creates DEF ScanStorage
    <3> QED
      BY <2>2, <3>1, <3>2
  <2>3. ASSUME NEW c \in Consumers, Pop(c) PROVE scan_storage'[s] \in {0, scan_storage[s]}
    BY <2>3 DEF Pop, TypeOK
  <2> QED
    BY <2>1, <2>2, <2>3 DEF Writer, Consumer, Take, Test, Missing, InsertPoint, UpdateMetadata,
                            SetFinished, SetNumPoints, Check, WriteFile
<1>3. ASSUME Finishing'
      PROVE  /\ held' # 0 /\ storages'[held'].scan = ScanOf("status")'
             /\ Message("status")'.status = "closed"
  <2>1. CASE Finishing
    <3>1. pc["status"] # "idle" /\ held' = held
      BY <1>3, <2>1 DEF Finishing, Writer, Consumer, Consumers, TypeOK, Goto, Take, Test, Create, Missing,
                   InsertPoint, UpdateMetadata, SetFinished, SetNumPoints, Check, WriteFile, Pop
    <3> QED
      BY <1>m, <2>1, <3>1, HoldsStorage, StoragesStay DEF Consumers
  <2>2. CASE ~Finishing
    <3>1. CASE UpdateMetadata
      <4>1. ScanOf("status") \in Scans
        BY <3>1, MessageType DEF UpdateMetadata, Goto, Consumers
      <4>2. pc["status"] = "use" /\ Message("status").status = "closed"
        BY <1>3, <3>1 DEF UpdateMetadata, Finishing, Goto, TypeOK, Consumers
      <4>3. held' = scan_storage[ScanOf("status")] /\ held' # 0 /\ UNCHANGED storages
        BY <3>1, <4>2 DEF UpdateMetadata
      <4> QED
        BY <1>m, <4>1, <4>2, <4>3 DEF ControlInv, Consumers
    <3>2. CASE ~UpdateMetadata
      <4>1. ASSUME NEW c \in Consumers, Check(c) PROVE FALSE
        BY <1>3, <2>2, <4>1 DEF Check, Goto, Finishing, TypeOK, Consumers
      <4>2. ASSUME NEW c \in Consumers, Test(c) PROVE FALSE
        BY <1>3, <2>2, <4>2 DEF Test, Goto, Finishing, TypeOK, Consumers
      <4>3. ASSUME NEW c \in Consumers, Take(c) \/ Create(c) \/ Missing(c) \/ WriteFile(c) \/ Pop(c)
            PROVE  FALSE
        BY <1>3, <2>2, <4>3 DEF Take, Create, Missing, WriteFile, Pop, Goto, Finishing, TypeOK, Consumers
      <4>4. CASE InsertPoint \/ SetFinished \/ SetNumPoints
        BY <1>3, <2>2, <4>4 DEF InsertPoint, SetFinished, SetNumPoints, Goto, Finishing, TypeOK, Consumers
      <4> QED
        BY <3>2, <4>1, <4>2, <4>3, <4>4 DEF Writer, Consumer
    <3> QED
      BY <3>1, <3>2
  <2> QED
    BY <2>1, <2>2
<1>4. \A k \in 1..Len(storages') : Synced(k)'
  <2>1. ASSUME NEW c \in Consumers, Create(c), NEW k \in 1..Len(storages')
        PROVE  Synced(k)'
    <3>1. k \in 1..Len(storages) \/ k = Len(storages')
      BY <2>1, Creates
    <3>2. storages'[Len(storages')] = ScanStorage(ScanOf(c)) /\ ScanStorage(ScanOf(c)).sync
      BY <2>1, Creates DEF ScanStorage
    <3>3. k \in 1..Len(storages) => storages'[k] = storages[k]
      BY <2>1, Creates
    <3> QED
      BY <2>1, <3>1, <3>2, <3>3 DEF ControlInv
  <2>2. ASSUME NEW j \in 1..Len(storages), NEW e, Changes(j, e), e.scan \in Sync => e.sync
        PROVE  \A k \in 1..Len(storages') : Synced(k)'
    BY <2>2 DEF Changes, ControlInv
  <2>3. CASE InsertPoint
    <3> DEFINE j == scan_storage[ScanOf("segment")]
               p == Message("segment").point
               e == [storages[j] EXCEPT !.points = @ \cup {p}]
    <3>1. Changes(j, e)
      BY <2>3, Inserts
    <3>2. storages[j] \in Storages /\ j \in 1..Len(storages)
      BY <3>1 DEF Changes
    <3>3. e.scan = storages[j].scan /\ e.sync = storages[j].sync
      BY <3>2 DEF Storages
    <3> HIDE DEF j, e
    <3> QED
      BY <2>2, <3>1, <3>2, <3>3 DEF ControlInv
  <2>4. CASE SetFinished
    <3> DEFINE e == [storages[held] EXCEPT !.finished = TRUE]
    <3>1. Changes(held, e)
      BY <2>4, Finishes
    <3>2. storages[held] \in Storages /\ held \in 1..Len(storages)
      BY <3>1 DEF Changes
    <3>3. e.scan = storages[held].scan /\ e.sync = storages[held].sync
      BY <3>2 DEF Storages
    <3> HIDE DEF e
    <3> QED
      BY <2>2, <3>1, <3>2, <3>3 DEF ControlInv
  <2>5. CASE SetNumPoints
    <3> DEFINE inSync == ScanOf("status") \in Sync
               e == [storages[held] EXCEPT !.num = Cardinality(Points), !.sync = inSync]
    <3>1. Finishing /\ Changes(held, e)
      BY <2>5, Counts
    <3>2. storages[held] \in Storages /\ held \in 1..Len(storages)
      BY <3>1 DEF Changes
    <3>3. e.scan = storages[held].scan /\ e.sync = inSync
      BY <3>2 DEF Storages
    <3>4. storages[held].scan = ScanOf("status")
      BY <3>1, HoldsStorage
    <3> HIDE DEF e
    <3> QED
      BY <2>2, <3>1, <3>2, <3>3, <3>4
  <2>6. CASE UNCHANGED storages
    BY <2>6 DEF ControlInv
  <2> QED
    BY <2>1, <2>3, <2>4, <2>5, <2>6
    DEF Writer, Consumer, Take, Test, Missing, UpdateMetadata, Check, WriteFile, Pop
<1>5. \A c \in Consumers : pc'[c] = "write" => scan_storage'[ScanOf(c)'] # 0
  <2> SUFFICES ASSUME NEW c \in Consumers, pc'[c] = "write"
               PROVE  scan_storage'[ScanOf(c)'] # 0
    OBVIOUS
  <2>1. CASE Check(c)
    <3>1. pc[c] = "check" /\ scan_storage[ScanOf(c)] # 0 /\ UNCHANGED scan_storage
      BY <2>1 DEF Check, Goto, TypeOK
    <3> QED
      BY <1>m, <3>1
  <2>2. CASE ~Check(c)
    <3>1. pc[c] = "write"
      <4>1. ASSUME NEW d \in Consumers, d # c, Consumer(d) PROVE pc'[c] = pc[c]
        BY <4>1 DEF Consumer, Take, Test, Create, Missing, Check, WriteFile, Pop, Goto, TypeOK
      <4>2. CASE Consumer(c)
        BY <2>2, <4>2 DEF Consumer, Take, Test, Create, Missing, WriteFile, Pop, Goto, TypeOK
      <4>3. CASE InsertPoint \/ UpdateMetadata \/ SetFinished \/ SetNumPoints
        BY <4>3 DEF InsertPoint, UpdateMetadata, SetFinished, SetNumPoints, Goto, TypeOK
      <4> QED
        BY <4>1, <4>2, <4>3 DEF Writer
    <3>2. scan_storage[ScanOf(c)] # 0 /\ ScanOf(c)' = ScanOf(c) /\ ScanOf(c) \in Scans
      BY <1>m, <3>1, MessageType DEF ControlInv
    <3>3. ASSUME NEW d \in Consumers, Create(d) PROVE scan_storage'[ScanOf(c)] # 0
      <4>1. Len(storages') # 0
        BY <3>3, Creates
      <4> QED
        BY <3>2, <3>3, <4>1 DEF Create, TypeOK
    <3>4. ASSUME NEW d \in Consumers, Pop(d) PROVE FALSE
      <4>1. d = c
        BY <3>1, <3>4, OneHolder DEF Pop, Goto
      <4> QED
        BY <3>1, <3>4, <4>1 DEF Pop, Goto
    <3>5. CASE UNCHANGED scan_storage
      BY <3>2, <3>5
    <3> QED
      BY <3>2, <3>3, <3>4, <3>5 DEF Writer, Consumer, Take, Test, Missing, InsertPoint, UpdateMetadata,
                                    SetFinished, SetNumPoints, Check, WriteFile
  <2> QED
    BY <2>1, <2>2
<1> QED
  BY <1>1, <1>2, <1>3, <1>4, <1>5 DEF ControlInv

-----------------------------------------------------------------------------
(* Finished storages and their points                                       *)

\* Where the points of a storage and its being finished come from.
LEMMA StoragesGain ==
  ASSUME TypeOK, ControlInv, Writer, NEW k \in 1..Len(storages')
  PROVE  \/ /\ k \in 1..Len(storages) /\ storages'[k].points = storages[k].points
            /\ storages'[k].finished = storages[k].finished
         \/ /\ InsertPoint /\ k = scan_storage[ScanOf("segment")]
            /\ k \in 1..Len(storages) /\ storages'[k].finished = storages[k].finished
            /\ storages'[k].points = storages[k].points \cup {Message("segment").point}
         \/ /\ SetFinished /\ k = held
            /\ k \in 1..Len(storages) /\ storages'[k].points = storages[k].points
         \/ \E c \in Consumers : Create(c) /\ k = Len(storages') /\ k \notin 1..Len(storages)
                                 /\ ~storages'[k].finished /\ storages'[k].points = {}
<1> DEFINE Same == /\ k \in 1..Len(storages) /\ storages'[k].points = storages[k].points
                   /\ storages'[k].finished = storages[k].finished
<1>1. ASSUME NEW c \in Consumers, Create(c)
      PROVE  Same \/ (k = Len(storages') /\ k \notin 1..Len(storages)
                      /\ ~storages'[k].finished /\ storages'[k].points = {})
  <2>1. storages'[Len(storages')] = ScanStorage(ScanOf(c)) /\ Len(storages') = Len(storages) + 1
        /\ Len(storages) \in Nat /\ \A j \in 1..Len(storages) : storages'[j] = storages[j]
    BY <1>1, Creates
  <2>2. ~ScanStorage(ScanOf(c)).finished /\ ScanStorage(ScanOf(c)).points = {}
    BY DEF ScanStorage
  <2> QED
    BY <2>1, <2>2
<1>2. CASE InsertPoint
  <2> DEFINE i == scan_storage[ScanOf("segment")]
             p == Message("segment").point
             e == [storages[i] EXCEPT !.points = @ \cup {p}]
  <2>1. Changes(i, e)
    BY <1>2, Inserts
  <2>2. storages[i] \in Storages
    BY <2>1 DEF Changes
  <2>3. e.finished = storages[i].finished /\ e.points = storages[i].points \cup {p}
    BY <2>2 DEF Storages
  <2>4. k = i \/ Same
    BY <2>1 DEF Changes
  <2>5. k = i => storages'[k] = e /\ k \in 1..Len(storages)
    BY <2>1 DEF Changes
  <2> HIDE DEF e
  <2> QED
    BY <1>2, <2>3, <2>4, <2>5
<1>3. CASE SetFinished
  <2> DEFINE e == [storages[held] EXCEPT !.finished = TRUE]
  <2>1. Changes(held, e)
    BY <1>3, Finishes
  <2>2. e.points = storages[held].points
    BY <2>1 DEF Changes, Storages
  <2> HIDE DEF e
  <2> QED
    BY <1>3, <2>1, <2>2 DEF Changes
<1>4. CASE SetNumPoints
  <2> DEFINE e == [storages[held] EXCEPT !.num = Cardinality(Points),
                                         !.sync = ScanOf("status") \in Sync]
  <2>1. Changes(held, e)
    BY <1>4, Counts
  <2>2. e.points = storages[held].points /\ e.finished = storages[held].finished
    BY <2>1 DEF Changes, Storages
  <2> HIDE DEF e
  <2> QED
    BY <2>1, <2>2 DEF Changes
<1>5. CASE UNCHANGED storages
  BY <1>5
<1> QED
  BY <1>1, <1>2, <1>3, <1>4, <1>5
  DEF Writer, Consumer, Take, Test, Missing, UpdateMetadata, Check, WriteFile, Pop

\* The type of one storage.
LEMMA StorageType ==
  ASSUME TypeOK, NEW k \in 1..Len(storages)
  PROVE  storages[k].scan \in Scans /\ storages[k].points \subseteq Points
         /\ storages[k].finished \in BOOLEAN /\ storages[k].num \in {None, Cardinality(Points)}
<1>1. storages \in Seq(Storages)
  BY DEF TypeOK, Storages
<1>2. storages[k] \in Storages
  BY <1>1, ElementOfSeq
<1> QED
  BY <1>2 DEF Storages

\* While the state that closes a scan is handled, no storage of the scan is finished.
LEMMA NotFinishedYet ==
  ASSUME TypeOK, StreamInv, ControlInv, FinishedInv,
         pc["status"] \in {"test", "create", "use", "finish"},
         NEW k \in 1..Len(storages), storages[k].finished
  PROVE  storages[k].scan # ScanOf("status")
<1> DEFINE s == storages[k].scan
<1>1. PICK j \in 1..taken["status"] :
        /\ ClosedAt(j, s)
        /\ j = taken["status"] => pc["status"] \notin {"test", "create", "use", "finish"}
  BY DEF FinishedInv, ClosedTaken
<1>2. taken["status"] \in 1..Len(scan_status) /\ s \in Scans
  BY MessageType, StorageType DEF Consumers, Topic
<1>3. j \in 1..Len(scan_status) /\ j < taken["status"]
  BY <1>1, <1>2
<1>4. scan_status[taken["status"]].scan # s
  BY <1>1, <1>2, <1>3 DEF StreamInv, ClosedLast
<1> QED
  BY <1>4 DEF ScanOf, Message, Topic

\* Only SetFinished finishes a storage, ...
LEMMA WriterKeepsFinished ==
  ASSUME TypeOK, StreamInv, ControlInv, FinishedInv, Writer, UNCHANGED topicVars
  PROVE  FinishedInv'
<1>1. ASSUME NEW k \in 1..Len(storages'), storages'[k].finished
      PROVE  /\ k \in 1..Len(storages) /\ storages'[k].scan = storages[k].scan
             /\ storages[k].finished \/ (SetFinished /\ k = held)
  BY <1>1, StoragesGain, StoragesStay
<1>2. ASSUME SetFinished
      PROVE  /\ held \in 1..Len(storages) /\ storages[held].scan = ScanOf("status")
             /\ pc["status"] = "finish"
             /\ \A s \in Scans : s = ScanOf("status") => ClosedTaken(s)'
  <2>1. Finishing /\ pc["status"] = "finish"
    BY <1>2 DEF SetFinished, Goto, Finishing
  <2>2. /\ ScanOf("status") \in Scans /\ Message("status").status = "closed"
        /\ held \in 1..Len(storages) /\ storages[held].scan = ScanOf("status")
    BY <2>1, HoldsStorage
  <2>3. taken["status"] \in 1..Len(scan_status)
    BY <2>1, MessageType DEF Consumers, Topic
  <2>4. taken' = taken /\ pc'["status"] = "count" /\ taken["status"] \in 1..taken["status"]
    BY <1>2, <2>3 DEF SetFinished, Goto, TypeOK, Consumers
  <2>5. ASSUME NEW s \in Scans, s = ScanOf("status") PROVE ClosedTaken(s)'
    <3>1. scan_status'[taken["status"]].scan = s /\ scan_status'[taken["status"]].status = "closed"
      BY <2>2, <2>5 DEF ScanOf, Message, Topic, topicVars
    <3> QED
      BY <2>4, <3>1 DEF ClosedTaken, ClosedAt
  <2> QED
    BY <2>1, <2>2, <2>5
<1>3. ASSUME NEW k \in 1..Len(storages'), storages'[k].finished
      PROVE  \A s : s = storages'[k].scan => ClosedTaken(s)'
  <2> SUFFICES ASSUME NEW s, s = storages'[k].scan PROVE ClosedTaken(s)'
    OBVIOUS
  <2>1. k \in 1..Len(storages) /\ s = storages[k].scan
    BY <1>1, <1>3
  <2>2. s \in Scans
    BY <2>1, StorageType
  <2>3. CASE storages[k].finished
    <3>1. ClosedTaken(s)
      BY <2>1, <2>3 DEF FinishedInv
    <3> QED
      BY <2>2, <3>1, TakenStays
  <2>4. CASE SetFinished /\ k = held
    BY <1>2, <2>1, <2>2, <2>4
  <2> QED
    BY <1>1, <1>3, <2>3, <2>4
<1>4. ASSUME NEW j \in 1..Len(storages'), NEW k \in 1..Len(storages'),
             storages'[j].finished, storages'[k].finished, storages'[j].scan = storages'[k].scan
      PROVE  j = k
  <2>1. /\ j \in 1..Len(storages) /\ k \in 1..Len(storages)
        /\ storages[j].scan = storages[k].scan
    BY <1>1, <1>4
  <2>2. CASE storages[j].finished /\ storages[k].finished
    BY <2>1, <2>2 DEF FinishedInv
  <2>3. ASSUME NEW i \in 1..Len(storages), SetFinished, storages[i].finished
        PROVE  storages[i].scan # storages[held].scan
    BY <1>2, <2>3, NotFinishedYet
  <2> QED
    BY <1>1, <1>4, <2>1, <2>2, <2>3
<1>5. ASSUME NEW k \in 1..Len(storages'), storages'[k].finished
      PROVE  ClosedTaken(storages[k].scan)'
  BY <1>3, <1>5 DEF ClosedTaken, ClosedAt
<1> QED
  BY <1>4, <1>5 DEF FinishedInv

\* ... and only InsertPoint adds a point.
LEMMA WriterKeepsPoints ==
  ASSUME TypeOK, ControlInv, PointInv, Writer, UNCHANGED topicVars
  PROVE  PointInv'
<1>1. ASSUME NEW k \in 1..Len(storages'), NEW p \in storages'[k].points,
             NEW s, s = storages'[k].scan
      PROVE  PointTaken(s, p)'
  <2>1. k \in 1..Len(storages)
    BY <1>1, StoragesGain
  <2>2. storages[k].scan = s /\ s \in Scans /\ storages[k].points \subseteq Points
    BY <1>1, <2>1, StoragesStay, StorageType
  <2>3. CASE p \in storages[k].points
    <3>1. PointTaken(s, p) /\ p \in Points
      BY <2>1, <2>2, <2>3 DEF PointInv
    <3> QED
      BY <2>2, <3>1, TakenStays
  <2>4. CASE p \notin storages[k].points
    <3>1. InsertPoint /\ k = scan_storage[ScanOf("segment")] /\ p = Message("segment").point
      BY <1>1, <2>1, <2>4, StoragesGain
    <3>2. pc["segment"] = "use" /\ pc'["segment"] = "check" /\ taken' = taken
      BY <3>1 DEF InsertPoint, Goto, TypeOK, Consumers
    <3>3. taken["segment"] \in 1..Len(scan_segment) /\ ScanOf("segment") \in Scans
      BY <3>2, MessageType DEF Consumers, Topic
    <3>4. s = ScanOf("segment")
      BY <2>1, <2>2, <3>1, <3>3 DEF ControlInv
    <3>5. /\ scan_segment'[taken["segment"]].scan = s /\ scan_segment'[taken["segment"]].point = p
          /\ taken["segment"] \in 1..taken["segment"]
      BY <3>1, <3>3, <3>4 DEF ScanOf, Message, Topic, topicVars
    <3> QED
      BY <3>2, <3>5 DEF PointTaken
  <2> QED
    BY <2>3, <2>4
<1>2. ASSUME NEW k \in 1..Len(storages'), NEW p \in storages'[k].points
      PROVE  PointTaken(storages[k].scan, p)'
  BY <1>1, <1>2 DEF PointTaken
<1> QED
  BY <1>2 DEF PointInv

-----------------------------------------------------------------------------
(* Writing once                                                             *)

\* How a consumer comes to a place in its program.
LEMMA Arrives ==
  ASSUME TypeOK, Writer, NEW c \in Consumers, pc'[c] # pc[c]
  PROVE  /\ pc'[c] = "write" => Check(c)
         /\ pc'[c] = "pop" => WriteFile(c)
         /\ pc'[c] = "use" => Test(c) \/ Create(c)
         /\ pc'[c] = "dead" => Missing(c)
         /\ pc[c] = "pop" => Pop(c)
<1> USE DEF TypeOK, Consumers, Goto
<1>1. ASSUME NEW d \in Consumers, d # c, Consumer(d) PROVE FALSE
  BY <1>1 DEF Consumer, Take, Test, Create, Missing, Check, WriteFile, Pop
<1>2. CASE Take(c) \/ Create(c) \/ Missing(c) \/ WriteFile(c) \/ Pop(c)
  BY <1>2 DEF Take, Create, Missing, WriteFile, Pop
<1>3. CASE Test(c)
  BY <1>3 DEF Test
<1>4. CASE Check(c)
  BY <1>4 DEF Check
<1>5. CASE InsertPoint \/ SetFinished \/ SetNumPoints
  BY <1>5 DEF InsertPoint, SetFinished, SetNumPoints
<1>6. CASE UpdateMetadata
  BY <1>6 DEF UpdateMetadata
<1> QED
  BY <1>1, <1>2, <1>3, <1>4, <1>5, <1>6 DEF Writer, Consumer

\* A file is that of the storage which its writer holds.
LEMMA Writes ==
  ASSUME TypeOK, ControlInv, NEW c \in Consumers, WriteFile(c)
  PROVE  /\ ScanOf(c) \in Scans /\ pc[c] = "write" /\ pc'[c] = "pop"
         /\ scan_storage[ScanOf(c)] \in 1..Len(storages)
         /\ Len(files) \in Nat /\ Len(files') = Len(files) + 1
         /\ files'[Len(files')].scan = ScanOf(c)
         /\ files'[Len(files')].points = storages[scan_storage[ScanOf(c)]].points
         /\ \A k \in 1..Len(files) : files'[k] = files[k]
<1> DEFINE file == [scan |-> ScanOf(c), points |-> storages[scan_storage[ScanOf(c)]].points]
           Files == [scan : Scans, points : SUBSET Points]
<1>1. ScanOf(c) \in Scans /\ pc[c] = "write" /\ pc'[c] = "pop"
  BY MessageType DEF WriteFile, Goto, TypeOK
<1>2. scan_storage[ScanOf(c)] \in 1..Len(storages)
  BY <1>1 DEF ControlInv, TypeOK
<1>3. file \in Files
  BY <1>1, <1>2, StorageType
<1>4. files \in Seq(Files) /\ files' = Append(files, file)
  BY DEF TypeOK, WriteFile
<1> HIDE DEF file, Files
<1>5. /\ Len(files) \in Nat /\ Len(files') = Len(files) + 1
      /\ files'[Len(files')] = file
      /\ \A k \in 1..Len(files) : files'[k] = files[k]
  BY <1>3, <1>4
<1> QED
  BY <1>1, <1>2, <1>5 DEF file

\* Nothing else writes.
LEMMA WrittenGrows ==
  ASSUME TypeOK, ControlInv, Writer
  PROVE  \A s : /\ Written(s) => Written(s)'
                /\ Written(s)' => Written(s) \/ \E c \in Consumers : WriteFile(c) /\ s = ScanOf(c)
<1>1. ASSUME NEW c \in Consumers, WriteFile(c), NEW s
      PROVE  Written(s)' <=> Written(s) \/ s = ScanOf(c)
  <2>1. /\ Len(files) \in Nat /\ Len(files') = Len(files) + 1
        /\ files'[Len(files')].scan = ScanOf(c)
        /\ \A k \in 1..Len(files) : files'[k] = files[k]
    BY <1>1, Writes
  <2> QED
    BY <2>1 DEF Written
<1>2. CASE UNCHANGED files
  BY <1>2 DEF Written
<1> QED
  BY <1>1, <1>2 DEF Writer, Consumer, Take, Test, Create, Missing, InsertPoint, UpdateMetadata,
                    SetFinished, SetNumPoints, Check, Pop

\* What is ready is the storage of the scan, and finished.
LEMMA Checks ==
  ASSUME TypeOK, ControlInv, NEW c \in Consumers, Check(c), pc'[c] = "write"
  PROVE  LET k == scan_storage[ScanOf(c)] IN
         /\ ScanOf(c) \in Scans /\ k \in 1..Len(storages) /\ storages[k].scan = ScanOf(c)
         /\ ReadyToWrite(storages[k])
         /\ UNCHANGED <<storages, scan_storage, files>>
         /\ \A d \in Consumers : pc[d] \notin {"write", "pop"}
<1>1. ScanOf(c) \in Scans
  BY MessageType DEF Check, Goto
<1>2. scan_storage[ScanOf(c)] # 0 /\ ReadyToWrite(storages[scan_storage[ScanOf(c)]])
  BY DEF Check, Goto, TypeOK
<1>3. \A d \in Consumers : pc[d] \notin {"write", "pop"}
  BY DEF Check, ControlInv, Consumers
<1> QED
  BY <1>1, <1>2, <1>3 DEF ControlInv, TypeOK, Check

\* Only Check lets a consumer write, and it looks while nobody else writes.
LEMMA WriterKeepsOnce ==
  ASSUME TypeOK, StreamInv, ControlInv, FinishedInv, OnceInv, Writer, UNCHANGED topicVars
  PROVE  OnceInv'
<1>m. \A c \in Consumers : pc[c] # "idle" => ScanOf(c)' = ScanOf(c)
  BY MessageStays
<1>1. \A s : Finished(s) => Finished(s)'
  BY StoragesStay DEF Finished
<1>2. ASSUME NEW c \in Consumers, pc'[c] \in {"write", "pop"}
      PROVE  \A s : s = ScanOf(c)' => Finished(s)'
  <2>1. pc[c] # "idle" /\ Finished(ScanOf(c))
    <3>1. CASE pc[c] = pc'[c]
      BY <1>2, <3>1 DEF OnceInv
    <3>2. CASE pc[c] # pc'[c] /\ pc'[c] = "write"
      <4>1. Check(c)
        BY <3>2, Arrives
      <4> QED
        BY <3>2, <4>1, Checks DEF Check, Goto, ReadyToWrite, Finished
    <3>3. CASE pc[c] # pc'[c] /\ pc'[c] = "pop"
      <4>1. pc[c] = "write"
        BY <3>3, Arrives DEF WriteFile, Goto
      <4> QED
        BY <4>1 DEF OnceInv
    <3> QED
      BY <1>2, <3>1, <3>2, <3>3
  <2> QED
    BY <1>m, <1>1, <2>1
<1>3. ASSUME NEW c \in Consumers, pc'[c] = "write"
      PROVE  \A s : s = ScanOf(c)' => ~Written(s)'
  <2>1. pc[c] # "idle" /\ ~Written(ScanOf(c))
    <3>1. CASE pc[c] = "write"
      BY <3>1 DEF OnceInv
    <3>2. CASE pc[c] # "write"
      <4>1. Check(c)
        BY <1>3, <3>2, Arrives
      <4>2. ~Popping(ScanOf(c))
        BY <1>3, <4>1, Checks DEF Popping
      <4>3. /\ ScanOf(c) \in Scans /\ scan_storage[ScanOf(c)] \in 1..Len(storages)
            /\ storages[scan_storage[ScanOf(c)]].finished
        BY <1>3, <4>1, Checks DEF ReadyToWrite
      <4>4. scan_storage[ScanOf(c)] # 0 /\ pc[c] # "idle"
        BY <4>1, <4>3 DEF Check, Goto
      <4> QED
        BY <4>2, <4>3, <4>4 DEF OnceInv
    <3> QED
      BY <3>1, <3>2
  <2>2. ASSUME NEW d \in Consumers, WriteFile(d) PROVE FALSE
    <3>1. pc[d] = "write" /\ pc'[d] = "pop"
      BY <2>2, Writes
    <3>2. c # d /\ pc[c] # "write"
      BY <1>3, <3>1, OneHolder
    <3>3. Check(c)
      BY <1>3, <3>2, Arrives
    <3> QED
      BY <1>3, <3>1, <3>3, Checks
  <2> QED
    BY <1>m, <2>1, <2>2, WrittenGrows
<1>4. ASSUME NEW s \in Scans, Written(s)' PROVE Finished(s)'
  <2>1. ASSUME NEW c \in Consumers, WriteFile(c) PROVE Finished(ScanOf(c))
    BY <2>1, Writes DEF OnceInv
  <2> QED
    BY <1>1, <1>4, <2>1, WrittenGrows DEF OnceInv
<1>5. ASSUME NEW s \in Scans, Written(s)', scan_storage'[s] # 0, ~Popping(s)'
      PROVE  ~storages'[scan_storage'[s]].finished
  <2>1. Written(s)
    <3>1. ASSUME NEW c \in Consumers, WriteFile(c) PROVE s # ScanOf(c)
      <4>1. pc[c] # "idle" /\ pc'[c] = "pop"
        BY <3>1, Writes
      <4>2. ScanOf(c)' = ScanOf(c)
        BY <1>m, <4>1
      <4> QED
        BY <1>5, <4>1, <4>2 DEF Popping
    <3> QED
      BY <1>5, <3>1, WrittenGrows
  <2>2. ASSUME NEW c \in Consumers, Create(c), s = ScanOf(c)
        PROVE  ~storages'[scan_storage'[s]].finished
    <3>1. scan_storage'[s] = Len(storages')
      BY <2>2 DEF Create, TypeOK
    <3>2. storages'[Len(storages')] = ScanStorage(s)
      BY <2>2, Creates
    <3> QED
      BY <3>1, <3>2 DEF ScanStorage
  <2>3. ASSUME NEW c \in Consumers, Pop(c) PROVE s # ScanOf(c)
    BY <1>5, <2>3 DEF Pop, TypeOK
  <2>4. CASE scan_storage'[s] = scan_storage[s]
    <3> DEFINE k == scan_storage[s]
    <3>1. ~Popping(s)
      <4> SUFFICES ASSUME NEW c \in Consumers, pc[c] = "pop", ScanOf(c) = s PROVE FALSE
        BY DEF Popping
      <4>1. pc'[c] # "pop"
        BY <1>5, <1>m DEF Popping
      <4> QED
        BY <2>3, <4>1, Arrives
    <3>2. ~storages[k].finished
      BY <1>5, <2>1, <2>4, <3>1 DEF OnceInv
    <3>3. k \in 1..Len(storages) /\ storages[k].scan = s /\ k \in 1..Len(storages')
      BY <1>5, <2>4, StoragesStay DEF ControlInv, TypeOK
    <3>4. ~(SetFinished /\ k = held)
      <4> SUFFICES ASSUME SetFinished, k = held PROVE FALSE
        OBVIOUS
      <4>1. Finishing /\ pc["status"] = "finish"
        BY DEF SetFinished, Goto, Finishing
      <4>2. s = ScanOf("status")
        BY <3>3, <4>1, HoldsStorage
      <4>3. Finished(s)
        BY <2>1 DEF OnceInv
      <4> QED
        BY <4>1, <4>2, <4>3, NotFinishedYet DEF Finished
    <3>5. storages'[k].finished = storages[k].finished \/ ~storages'[k].finished
      BY <3>3, <3>4, StoragesGain
    <3> QED
      BY <2>4, <3>2, <3>5
  <2>5. ASSUME NEW c \in Consumers, Create(c) \/ Pop(c), s # ScanOf(c)
        PROVE  scan_storage'[s] = scan_storage[s]
    BY <2>5 DEF Create, Pop, TypeOK
  <2> QED
    BY <2>2, <2>3, <2>4, <2>5 DEF Writer, Consumer, Take, Test, Missing, InsertPoint, UpdateMetadata,
                                  SetFinished, SetNumPoints, Check, WriteFile
<1>6. WrittenOnce'
  <2>1. ASSUME NEW c \in Consumers, WriteFile(c) PROVE WrittenOnce'
    <3>1. /\ Len(files) \in Nat /\ Len(files') = Len(files) + 1
          /\ files'[Len(files')].scan = ScanOf(c)
          /\ \A k \in 1..Len(files) : files'[k] = files[k]
      BY <2>1, Writes
    <3>2. ~Written(ScanOf(c))
      BY <2>1, Writes DEF OnceInv
    <3>3. \A k \in 1..Len(files) : files'[k].scan # files'[Len(files')].scan
      BY <3>1, <3>2 DEF Written
    <3>4. \A k \in 1..Len(files') : k \in 1..Len(files) \/ k = Len(files')
      BY <3>1
    <3> QED
      BY <3>1, <3>3, <3>4 DEF OnceInv, WrittenOnce
  <2>2. CASE UNCHANGED files
    BY <2>2 DEF OnceInv, WrittenOnce
  <2> QED
    BY <2>1, <2>2 DEF Writer, Consumer, Take, Test, Create, Missing, InsertPoint, UpdateMetadata,
                      SetFinished, SetNumPoints, Check, Pop
<1>7. ASSUME NEW c \in Consumers
      PROVE  /\ pc'[c] \in {"write", "pop"} => Finished(ScanOf(c))'
             /\ pc'[c] = "write" => ~Written(ScanOf(c))'
  BY <1>2, <1>3 DEF Finished, Written
<1> QED
  BY <1>4, <1>5, <1>6, <1>7 DEF OnceInv

-----------------------------------------------------------------------------
(* Complete files                                                           *)

\* A finished storage with as many points as the scan has all of them.
LEMMA ReadyIsFull ==
  ASSUME TypeOK, ControlInv, NEW k \in 1..Len(storages), storages[k].scan \in Sync,
         ReadyToWrite(storages[k])
  PROVE  Full(k)
<1>1. storages[k].points \in SUBSET Points /\ storages[k].num \in {None, Cardinality(Points)}
  BY StorageType
<1>2. storages[k].finished /\ storages[k].num = Cardinality(storages[k].points)
  BY DEF ControlInv, ReadyToWrite
<1>3. Cardinality(storages[k].points) \in Nat
  BY <1>1, FS_Subset, FS_CardinalityType, PointsAssumption
<1>4. Cardinality(Points) = Cardinality(storages[k].points)
  BY <1>1, <1>2, <1>3 DEF None
<1>5. Points = storages[k].points
  BY <1>1, <1>4, FS_Subset, PointsAssumption
<1> QED
  BY <1>2, <1>5 DEF Full

\* When a storage is full, both consumers are past the messages of its scan.
LEMMA FullIsOver ==
  ASSUME WInv, NEW k, Full(k), storages[k].scan \in Kept,
         NEW c \in Consumers, pc[c] \in {"test", "create", "use"}
  PROVE  ScanOf(c) # storages[k].scan
<1> DEFINE s == storages[k].scan
<1> USE DEF WInv
<1>k. k \in 1..Len(storages) /\ storages[k].finished /\ storages[k].points = Points
  BY DEF Full
<1>1. CASE c = "status"
  BY <1>1, <1>k, NotFinishedYet
<1>2. CASE c = "segment"
  <2> SUFFICES ASSUME ScanOf("segment") = s PROVE FALSE
    BY <1>2
  <2> DEFINE p == Message("segment").point
             i == taken["segment"]
  <2>1. i \in 1..Len(scan_segment) /\ Message("segment") \in SegmentMessages
    BY <1>2, MessageType DEF Consumers, Topic
  <2>2. p \in Points
    BY <2>1 DEF SegmentMessages
  <2>3. PICK j \in 1..i : /\ scan_segment[j].scan = s /\ scan_segment[j].point = p
                          /\ j = i => pc["segment"] \notin {"test", "create", "use"}
    BY <1>k, <2>2 DEF PointInv, PointTaken
  <2>4. j # i /\ j \in 1..Len(scan_segment)
    BY <1>2, <2>1, <2>3
  <2>5. scan_segment[i].scan = s /\ scan_segment[i].point = p /\ s \notin Fly
    BY DEF ScanOf, Message, Topic, Kept
  <2> QED
    BY <2>1, <2>3, <2>4, <2>5 DEF StreamInv, PointOnce
<1> QED
  BY <1>1, <1>2 DEF Consumers

\* A full storage stays full.
LEMMA FullStays ==
  ASSUME TypeOK, ControlInv, Writer, TypeOK', NEW k, Full(k)
  PROVE  Full(k)' /\ storages'[k].scan = storages[k].scan
<1>1. k \in 1..Len(storages) /\ storages[k].finished /\ storages[k].points = Points
  BY DEF Full
<1>2. /\ k \in 1..Len(storages') /\ storages'[k].scan = storages[k].scan
      /\ storages'[k].finished /\ Points \subseteq storages'[k].points
  BY <1>1, StoragesStay
<1>3. storages'[k].points \subseteq Points
  <2>1. storages' \in Seq(Storages)
    BY DEF TypeOK, Storages
  <2>2. storages'[k] \in Storages
    BY <1>2, <2>1, ElementOfSeq
  <2> QED
    BY <2>2 DEF Storages
<1> QED
  BY <1>2, <1>3 DEF Full

\* What is written of a kept scan is full, so that nobody interferes any more.
LEMMA WriterKeepsFull ==
  ASSUME WInv, Writer, UNCHANGED topicVars, TypeOK'
  PROVE  FullInv'
<1> USE DEF WInv
<1>m. \A c \in Consumers : pc[c] # "idle" => ScanOf(c)' = ScanOf(c)
  BY MessageStays
<1>o. \A s : Over(s) => Over(s)'
  BY FullStays DEF Over, Full
<1>1. ASSUME NEW c \in Consumers, pc'[c] = "write", ScanOf(c)' \in Kept
      PROVE  /\ Full(scan_storage[ScanOf(c)]) /\ ScanOf(c)' = ScanOf(c)
             /\ scan_storage'[ScanOf(c)] = scan_storage[ScanOf(c)]
  <2>1. CASE pc[c] = "write"
    <3>1. ScanOf(c)' = ScanOf(c) /\ ScanOf(c) \in Kept /\ Full(scan_storage[ScanOf(c)])
      BY <1>1, <1>m, <2>1 DEF FullInv
    <3>2. ScanOf(c) \in Scans /\ storages[scan_storage[ScanOf(c)]].scan = ScanOf(c)
      BY <2>1, MessageType DEF ControlInv
    <3>3. ASSUME NEW d \in Consumers, Create(d) PROVE ScanOf(d) # ScanOf(c)
      BY <3>1, <3>2, <3>3, FullIsOver DEF Create, Goto
    <3>4. ASSUME NEW d \in Consumers, Pop(d) PROVE FALSE
      <4>1. d = c
        BY <2>1, <3>4, OneHolder DEF Pop, Goto
      <4> QED
        BY <2>1, <3>4, <4>1 DEF Pop, Goto
    <3>5. ASSUME NEW d \in Consumers, Create(d)
          PROVE  scan_storage'[ScanOf(c)] = scan_storage[ScanOf(c)]
      BY <3>2, <3>3, <3>5 DEF Create, TypeOK
    <3> QED
      BY <3>1, <3>4, <3>5 DEF Writer, Consumer, Take, Test, Missing, InsertPoint, UpdateMetadata,
                              SetFinished, SetNumPoints, Check, WriteFile
  <2>2. CASE pc[c] # "write"
    <3>1. Check(c)
      BY <1>1, <2>2, Arrives
    <3>2. ScanOf(c)' = ScanOf(c)
      BY <1>m, <3>1 DEF Check, Goto
    <3>3. /\ scan_storage[ScanOf(c)] \in 1..Len(storages)
          /\ storages[scan_storage[ScanOf(c)]].scan = ScanOf(c)
          /\ ReadyToWrite(storages[scan_storage[ScanOf(c)]])
          /\ UNCHANGED scan_storage
      BY <1>1, <3>1, Checks
    <3>4. Full(scan_storage[ScanOf(c)])
      BY <1>1, <3>2, <3>3, ReadyIsFull DEF Kept
    <3> QED
      BY <3>2, <3>3, <3>4
  <2> QED
    BY <2>1, <2>2
<1>2. ASSUME NEW c \in Consumers, WriteFile(c), ScanOf(c) \in Kept
      PROVE  /\ Over(ScanOf(c)) /\ files'[Len(files')].points = Points
             /\ pc'[c] = "pop" /\ ScanOf(c)' = ScanOf(c)
  <2>1. /\ pc[c] = "write" /\ pc'[c] = "pop" /\ ScanOf(c) \in Scans
        /\ scan_storage[ScanOf(c)] \in 1..Len(storages)
        /\ files'[Len(files')].points = storages[scan_storage[ScanOf(c)]].points
    BY <1>2, Writes
  <2>2. Full(scan_storage[ScanOf(c)])
    BY <1>2, <2>1 DEF FullInv
  <2>3. storages[scan_storage[ScanOf(c)]].scan = ScanOf(c)
    BY <2>1 DEF ControlInv
  <2> QED
    BY <1>m, <2>1, <2>2, <2>3 DEF Over, Full
<1>3. ASSUME NEW c \in Consumers, pc'[c] = "pop", ScanOf(c)' \in Kept
      PROVE  pc[c] # "idle" /\ Over(ScanOf(c)) /\ ScanOf(c)' = ScanOf(c)
  <2>1. CASE pc[c] = "pop"
    BY <1>3, <1>m, <2>1 DEF FullInv
  <2>2. CASE pc[c] # "pop"
    <3>1. WriteFile(c)
      BY <1>3, <2>2, Arrives
    <3>2. pc[c] # "idle"
      BY <3>1, Writes
    <3> QED
      BY <1>2, <1>3, <1>m, <3>1, <3>2
  <2> QED
    BY <2>1, <2>2
<1>4. ASSUME NEW s \in Kept, Written(s)'
      PROVE  Over(s) /\ (scan_storage'[s] = 0 \/ Popping(s)')
  <2>1. ASSUME NEW c \in Consumers, WriteFile(c), s = ScanOf(c)
        PROVE  Over(s) /\ Popping(s)'
    BY <1>2, <2>1 DEF Popping
  <2>2. CASE Written(s)
    <3>1. Over(s) /\ (scan_storage[s] = 0 \/ Popping(s))
      BY <2>2 DEF FullInv
    <3>2. ASSUME NEW c \in Consumers, Create(c) PROVE s # ScanOf(c)
      BY <3>1, <3>2, FullIsOver DEF Over, Create, Goto
    <3>3. s \in Scans
      BY ScansAssumption DEF Kept
    <3>4. CASE scan_storage[s] = 0
      <4>1. ASSUME NEW c \in Consumers, Create(c) \/ Pop(c) PROVE scan_storage'[s] = 0
        BY <3>2, <3>3, <3>4, <4>1 DEF Create, Pop, TypeOK
      <4> QED
        BY <3>1, <3>4, <4>1 DEF Writer, Consumer, Take, Test, Missing, InsertPoint, UpdateMetadata,
                                SetFinished, SetNumPoints, Check, WriteFile
    <3>5. CASE Popping(s)
      <4>1. PICK c \in Consumers : pc[c] = "pop" /\ ScanOf(c) = s
        BY <3>5 DEF Popping
      <4>2. CASE pc'[c] = "pop"
        BY <1>m, <3>1, <4>1, <4>2 DEF Popping
      <4>3. CASE pc'[c] # "pop"
        <5>1. Pop(c)
          BY <4>1, <4>3, Arrives
        <5> QED
          BY <3>1, <3>3, <4>1, <5>1 DEF Pop, TypeOK
      <4> QED
        BY <4>2, <4>3
    <3> QED
      BY <3>1, <3>4, <3>5
  <2> QED
    BY <1>4, <2>1, <2>2, WrittenGrows
<1>5. ASSUME NEW c \in Consumers, pc'[c] = "use", ScanOf(c)' \in Kept
      PROVE  scan_storage'[ScanOf(c)] # 0 /\ ScanOf(c)' = ScanOf(c)
  <2>1. ASSUME Create(c) PROVE scan_storage'[ScanOf(c)] # 0 /\ pc[c] # "idle"
    <3>1. ScanOf(c) \in Scans /\ Len(storages') # 0
      BY <2>1, Creates
    <3> QED
      BY <2>1, <3>1 DEF Create, Goto, TypeOK
  <2>2. ASSUME Test(c) PROVE scan_storage'[ScanOf(c)] # 0 /\ pc[c] # "idle"
    BY <1>5, <2>2 DEF Test, Goto, TypeOK
  <2>3. CASE pc[c] = "use"
    <3>1. ScanOf(c)' = ScanOf(c) /\ ScanOf(c) \in Kept /\ ScanOf(c) \in Scans
      BY <1>5, <1>m, <2>3, ScansAssumption DEF Kept
    <3>2. scan_storage[ScanOf(c)] # 0
      BY <2>3, <3>1 DEF FullInv
    <3>3. ASSUME NEW d \in Consumers, Create(d) PROVE scan_storage'[ScanOf(c)] # 0
      <4>1. Len(storages') # 0
        BY <3>3, Creates
      <4> QED
        BY <3>1, <3>2, <3>3, <4>1 DEF Create, TypeOK
    <3>4. ASSUME NEW d \in Consumers, Pop(d) PROVE scan_storage'[ScanOf(c)] # 0
      <4>1. ScanOf(d) # ScanOf(c)
        <5> SUFFICES ASSUME ScanOf(d) = ScanOf(c) PROVE FALSE
          OBVIOUS
        <5>1. Over(ScanOf(c))
          BY <3>1, <3>4 DEF FullInv, Pop, Goto
        <5> QED
          BY <2>3, <3>1, <5>1, FullIsOver DEF Over
      <4> QED
        BY <3>1, <3>2, <3>4, <4>1 DEF Pop, TypeOK
    <3> QED
      BY <3>1, <3>2, <3>3, <3>4 DEF Writer, Consumer, Take, Test, Missing, InsertPoint, UpdateMetadata,
                                    SetFinished, SetNumPoints, Check, WriteFile
  <2> QED
    BY <1>5, <1>m, <2>1, <2>2, <2>3, Arrives
<1>6. FileComplete'
  <2>1. ASSUME NEW c \in Consumers, WriteFile(c) PROVE FileComplete'
    <3>1. /\ Len(files) \in Nat /\ Len(files') = Len(files) + 1
          /\ files'[Len(files')].scan = ScanOf(c)
          /\ \A k \in 1..Len(files) : files'[k] = files[k]
      BY <2>1, Writes
    <3>2. ScanOf(c) \in Sync \ Fly => files'[Len(files')].points = Points
      BY <1>2, <2>1 DEF Kept
    <3>3. \A k \in 1..Len(files') : k \in 1..Len(files) \/ k = Len(files')
      BY <3>1
    <3> QED
      BY <3>1, <3>2, <3>3 DEF FullInv, FileComplete
  <2>2. CASE UNCHANGED files
    BY <2>2 DEF FullInv, FileComplete
  <2> QED
    BY <2>1, <2>2 DEF Writer, Consumer, Take, Test, Create, Missing, InsertPoint, UpdateMetadata,
                      SetFinished, SetNumPoints, Check, Pop
<1>7. ASSUME NEW c \in Consumers, pc'[c] = "dead" PROVE ScanOf(c)' \notin Kept
  <2>1. CASE pc[c] = "dead"
    BY <1>m, <2>1 DEF FullInv, ConsumersLive, Kept
  <2>2. CASE pc[c] # "dead"
    <3>1. Missing(c)
      BY <1>7, <2>2, Arrives
    <3>2. pc[c] = "use" /\ scan_storage[ScanOf(c)] = 0
      BY <3>1 DEF Missing, Goto
    <3> QED
      BY <1>m, <3>2 DEF FullInv
  <2> QED
    BY <2>1, <2>2
<1>8. ASSUME NEW c \in Consumers, ScanOf(c)' \in Kept
      PROVE  /\ pc'[c] = "write" => Full(scan_storage[ScanOf(c)])'
             /\ pc'[c] = "pop" => Over(ScanOf(c))'
             /\ pc'[c] = "use" => scan_storage'[ScanOf(c)'] # 0
  <2>1. ASSUME pc'[c] = "write" PROVE Full(scan_storage[ScanOf(c)])'
    <3>1. PICK k : k = scan_storage[ScanOf(c)] /\ Full(k)
      BY <1>1, <1>8, <2>1
    <3>2. k = scan_storage'[ScanOf(c)']
      BY <1>1, <1>8, <2>1, <3>1
    <3> QED
      BY <3>1, <3>2, FullStays DEF Full
  <2>2. ASSUME pc'[c] = "pop" PROVE Over(ScanOf(c))'
    <3>1. PICK s : s = ScanOf(c) /\ Over(s) /\ s = ScanOf(c)'
      BY <1>3, <1>8, <2>2
    <3> QED
      BY <1>o, <3>1 DEF Over, Full
  <2> QED
    BY <1>5, <1>8, <2>1, <2>2
<1>9. \A s \in Kept : Written(s)' => Over(s)' /\ (scan_storage'[s] = 0 \/ Popping(s)')
  BY <1>4, <1>o
<1> QED
  BY <1>6, <1>7, <1>8, <1>9 DEF FullInv, ConsumersLive, Kept

-----------------------------------------------------------------------------
(* The theorems                                                             *)

\* Every step keeps the invariant.
LEMMA NextWInv == WInv /\ [Next]_vars => WInv'
<1> SUFFICES ASSUME WInv, [Next]_vars PROVE WInv'
  OBVIOUS
<1>1. CASE Stream!Next /\ UNCHANGED writerVars
  BY <1>1, StreamKeepsRest
<1>2. CASE Writer /\ UNCHANGED topicVars
  <2> USE <1>2 DEF WInv
  <2>1. TypeOK' /\ ControlInv'
    BY WriterTypeOK, WriterKeepsControl
  <2>2. StreamInv'
    BY DEF StreamInv, ClosedLast, ClosedAt, PointOnce, topicVars
  <2>3. FinishedInv' /\ PointInv'
    BY WriterKeepsFinished, WriterKeepsPoints
  <2>4. OnceInv' /\ FullInv'
    BY <2>1, WriterKeepsOnce, WriterKeepsFull
  <2> QED
    BY <2>1, <2>2, <2>3, <2>4
<1>3. CASE UNCHANGED vars
  <2>1. UNCHANGED <<phase, scan_status, scan_segment, storages, scan_storage, pc, taken, held, lock, files>>
    BY <1>3 DEF vars, topicVars, writerVars
  <2>2. \A c \in Consumers : UNCHANGED <<Topic(c), Message(c), ScanOf(c)>>
    BY <2>1 DEF Topic, Message, ScanOf
  <2>3. TypeOK'
    BY <2>1, <2>2 DEF WInv, TypeOK
  <2>4. StreamInv' /\ FinishedInv' /\ PointInv'
    BY <2>1 DEF WInv, StreamInv, ClosedLast, ClosedAt, PointOnce, FinishedInv, ClosedTaken, PointInv,
                PointTaken
  <2>5. ControlInv'
    BY <2>1 DEF WInv, ControlInv, Finishing, ScanOf, Message, Topic
  <2>6. OnceInv'
    BY <2>1 DEF WInv, OnceInv, Finished, Written, Popping, WrittenOnce, ScanOf, Message, Topic
  <2>7. FullInv'
    BY <2>1 DEF WInv, FullInv, Full, Over, Kept, Written, Popping, FileComplete, ConsumersLive,
                ScanOf, Message, Topic
  <2> QED
    BY <2>3, <2>4, <2>5, <2>6, <2>7 DEF WInv
<1> QED
  BY <1>1, <1>2, <1>3 DEF Next, Idle

\* The invariant holds of the two consumers and all that feeds them.
THEOREM Invariance == Spec => []WInv
  BY InitWInv, NextWInv, PTL DEF Spec

\* Types, in every reachable state.
THEOREM TypeCorrect == Spec => []TypeOK
  BY Invariance, PTL DEF WInv

\* write_file writes the file of a scan once, although both consumers check after every
\* message whether it is ready.
THEOREM WritesOnce == Spec => []WrittenOnce
<1>1. WInv => WrittenOnce
  BY DEF WInv, OnceInv
<1> QED
  BY <1>1, Invariance, PTL

\* The file of a step scan with enforce_sync has all points of it, in whatever order its
\* last point and its closed state come, and no consumer ends on a message of such a scan.
THEOREM FilesComplete == Spec => [](FileComplete /\ ConsumersLive)
<1>1. WInv => FileComplete /\ ConsumersLive
  BY DEF WInv, FullInv
<1> QED
  BY <1>1, Invariance, PTL

\* A step scan with enforce_sync has no storage left when its file was written and the
\* consumers are done.
THEOREM LeavesNothing == Spec => []NothingLeft
<1>1. WInv => NothingLeft
  <2> SUFFICES ASSUME WInv, Quiet, NEW k \in 1..Len(files), files[k].scan \in Sync \ Fly
               PROVE  scan_storage[files[k].scan] = 0
    BY DEF NothingLeft
  <2>1. Written(files[k].scan) /\ files[k].scan \in Kept
    BY DEF Written, Kept
  <2>2. ~Popping(files[k].scan)
    BY DEF Popping, Quiet
  <2> QED
    BY <2>1, <2>2 DEF WInv, FullInv
<1> QED
  BY <1>1, Invariance, PTL

-----------------------------------------------------------------------------
(* Writing at all: what was taken has reached a storage, and whoever        *)
(* completes the storage of a scan looks at it afterwards                   *)

InStorage(s, p) == \E k \in 1..Len(storages) : storages[k].scan = s /\ p \in storages[k].points
Complete(k) == k \in 1..Len(storages) /\ storages[k].finished
               /\ storages[k].num = Cardinality(Points) /\ storages[k].points = Points
Attended(s) == \E c \in Consumers : pc[c] \in {"count", "check", "write"} /\ ScanOf(c) = s
ClosedSeen == \A s \in Scans : phase[s] = "closed" => \E j \in 1..Len(scan_status) : ClosedAt(j, s)
StatusLives == /\ pc["status"] # "dead"
               /\ pc["status"] = "use" => scan_storage[ScanOf("status")] # 0
Counted(k) == storages[k].finished => \/ storages[k].num = Cardinality(Points)
                                      \/ pc["status"] = "count" /\ held = k
ArrivalInv ==
  /\ ClosedSeen /\ StatusLives
  /\ \A c \in Consumers : pc[c] = "pop" => Written(ScanOf(c))
  /\ \A k \in 1..Len(storages) : Counted(k)
  /\ \A s \in Scans : ClosedTaken(s) => Finished(s)
  /\ \A s \in Kept, p \in Points : PointTaken(s, p) => InStorage(s, p)
  /\ \A s \in Scans :
       /\ \A k \in 1..Len(storages) : storages[k].scan = s =>
            scan_storage[s] = k \/ Written(s) \/ CreatedTwice(s)
       /\ Complete(scan_storage[s]) => Written(s) \/ Attended(s)

\* How a storage changes.
LEMMA StorageSteps ==
  ASSUME TypeOK, ControlInv, Writer, NEW k \in 1..Len(storages)
  PROVE  \/ storages'[k] = storages[k]
         \/ /\ InsertPoint /\ k = scan_storage[ScanOf("segment")]
            /\ Message("segment").point \in storages'[k].points
            /\ storages'[k].finished = storages[k].finished
            /\ storages'[k].num = storages[k].num
         \/ SetFinished /\ k = held /\ storages'[k].finished
         \/ SetNumPoints /\ k = held /\ storages'[k].num = Cardinality(Points)
<1>1. CASE InsertPoint
  <2> DEFINE i == scan_storage[ScanOf("segment")]
             p == Message("segment").point
             e == [storages[i] EXCEPT !.points = @ \cup {p}]
  <2>1. Changes(i, e)
    BY <1>1, Inserts
  <2>2. e.finished = storages[i].finished /\ e.num = storages[i].num /\ p \in e.points
    BY <2>1 DEF Changes, Storages
  <2> HIDE DEF e
  <2> QED
    BY <1>1, <2>1, <2>2 DEF Changes
<1>2. CASE SetFinished
  <2> DEFINE e == [storages[held] EXCEPT !.finished = TRUE]
  <2>1. Changes(held, e)
    BY <1>2, Finishes
  <2>2. e.finished
    BY <2>1 DEF Changes, Storages
  <2> HIDE DEF e
  <2> QED
    BY <1>2, <2>1, <2>2 DEF Changes
<1>3. CASE SetNumPoints
  <2> DEFINE e == [storages[held] EXCEPT !.num = Cardinality(Points),
                                         !.sync = ScanOf("status") \in Sync]
  <2>1. Changes(held, e)
    BY <1>3, Counts
  <2>2. e.num = Cardinality(Points)
    BY <2>1 DEF Changes, Storages
  <2> HIDE DEF e
  <2> QED
    BY <1>3, <2>1, <2>2 DEF Changes
<1>4. ASSUME NEW c \in Consumers, Create(c) PROVE storages'[k] = storages[k]
  BY <1>4, Creates
<1>5. CASE UNCHANGED storages
  BY <1>5
<1> QED
  BY <1>1, <1>2, <1>3, <1>4, <1>5
  DEF Writer, Consumer, Take, Test, Missing, UpdateMetadata, Check, WriteFile, Pop

\* It holds at first.
LEMMA InitArrival == Init => ArrivalInv
<1> SUFFICES ASSUME Init PROVE ArrivalInv
  OBVIOUS
<1>1. ClosedSeen /\ StatusLives
  BY DEF Init, Stream!Init, ClosedSeen, StatusLives, Consumers
<1>2. \A s \in Scans : ~ClosedTaken(s) /\ \A p \in Points : ~PointTaken(s, p)
  BY DEF Init, ClosedTaken, PointTaken, Consumers
<1>3. /\ Len(storages) = 0 /\ \A k : k \notin 1..Len(storages)
      /\ \A c \in Consumers : pc[c] # "pop"
  BY DEF Init
<1>4. ASSUME NEW s \in Scans PROVE ~Complete(scan_storage[s])
  BY <1>3 DEF Complete
<1>5. \A s \in Kept : s \in Scans
  BY ScansAssumption DEF Kept
<1> QED
  BY <1>1, <1>2, <1>3, <1>4, <1>5 DEF ArrivalInv

\* Messages that were not taken yet change nothing, and the end of a scan is one.
LEMMA StreamKeepsArrival ==
  ASSUME WInv, ArrivalInv, Stream!Next, UNCHANGED writerVars
  PROVE  ArrivalInv'
<1> USE DEF writerVars
<1>g. /\ Grows(scan_status, scan_status') /\ Grows(scan_segment, scan_segment')
      /\ taken["status"] \in 0..Len(scan_status) /\ taken["segment"] \in 0..Len(scan_segment)
      /\ Len(scan_status) \in Nat /\ Len(scan_segment) \in Nat
  BY StreamGrows DEF WInv, TypeOK, Consumers, Topic
<1>1. ClosedSeen'
  <2> SUFFICES ASSUME NEW s \in Scans, phase'[s] = "closed"
               PROVE  \E j \in 1..Len(scan_status') : ClosedAt(j, s)'
    BY DEF ClosedSeen
  <2>1. CASE phase[s] = "closed"
    <3>1. PICK j \in 1..Len(scan_status) : ClosedAt(j, s)
      BY <2>1 DEF ArrivalInv, ClosedSeen
    <3> QED
      BY <1>g, <3>1 DEF Grows, ClosedAt
  <2>2. CASE phase[s] # "closed"
    <3>1. PICK status \in Reports : Stream!Report(s, status)
      BY <2>2 DEF Stream!Next, Stream!Open, Stream!Report, Stream!Emit, WInv, TypeOK
    <3>2. status = "closed" /\ scan_status' = Append(scan_status, [scan |-> s, status |-> status])
      BY <3>1 DEF Stream!Report, Stream!Announce, WInv, TypeOK
    <3>3. /\ Len(scan_status') = Len(scan_status) + 1
          /\ scan_status'[Len(scan_status')] = [scan |-> s, status |-> status]
      BY <3>2 DEF WInv, TypeOK
    <3> QED
      BY <1>g, <3>2, <3>3 DEF ClosedAt
  <2> QED
    BY <2>1, <2>2
<1>2. ASSUME NEW s \in Scans, ClosedTaken(s)' PROVE Finished(s)'
  <2>1. ClosedTaken(s)
    BY <1>2, <1>g DEF ClosedTaken, ClosedAt, Grows
  <2> QED
    BY <2>1 DEF ArrivalInv, Finished
<1>3. ASSUME NEW s \in Kept, NEW p \in Points, PointTaken(s, p)' PROVE InStorage(s, p)'
  <2>1. PointTaken(s, p)
    BY <1>3, <1>g DEF PointTaken, Grows
  <2> QED
    BY <2>1 DEF ArrivalInv, InStorage
<1>4. \A c \in Consumers : pc[c] # "idle" => ScanOf(c)' = ScanOf(c)
  BY MessageStays DEF WInv
<1>5. StatusLives'
  BY <1>4 DEF ArrivalInv, StatusLives, Consumers
<1>6. ASSUME NEW c \in Consumers, pc'[c] = "pop" PROVE Written(ScanOf(c))'
  BY <1>4, <1>6 DEF ArrivalInv, Written
<1>7. \A k \in 1..Len(storages') : Counted(k)'
  BY DEF ArrivalInv, Counted
<1>8. ASSUME NEW s \in Scans
      PROVE  /\ \A k \in 1..Len(storages') : storages'[k].scan = s =>
                  scan_storage'[s] = k \/ Written(s)' \/ CreatedTwice(s)'
             /\ Complete(scan_storage[s])' => Written(s)' \/ Attended(s)'
  <2>1. Attended(s) => Attended(s)'
    BY <1>4 DEF Attended
  <2> QED
    BY <2>1 DEF ArrivalInv, Written, CreatedTwice, Complete
<1> QED
  BY <1>1, <1>2, <1>3, <1>5, <1>6, <1>7, <1>8 DEF ArrivalInv

\* The closed state of a scan is behind the status consumer when its storage was finished.
LEMMA ClosedIsFinished ==
  ASSUME WInv, ArrivalInv, Writer, UNCHANGED topicVars, NEW s \in Scans, ClosedTaken(s)'
  PROVE  Finished(s)'
<1> USE DEF WInv, Consumers
<1> DEFINE early == {"test", "create", "use", "finish"}
           i == taken["status"]
<1>1. CASE ClosedTaken(s)
  BY <1>1, StoragesStay DEF ArrivalInv, Finished
<1>2. CASE ~ClosedTaken(s)
  <2>1. PICK j \in 1..taken'["status"] :
          ClosedAt(j, s) /\ (j = taken'["status"] => pc'["status"] \notin early)
    BY DEF ClosedTaken, ClosedAt, topicVars
  <2>2. i \in Nat
    BY DEF TypeOK
  <2>3. CASE Take("status")
    <3>1. taken'["status"] = i + 1 /\ pc["status"] = "idle" /\ pc'["status"] = "test"
      BY <2>3 DEF Take, Goto, TypeOK
    <3>2. j \in 1..i
      BY <2>1, <2>2, <3>1
    <3> QED
      BY <1>2, <2>1, <3>1, <3>2 DEF ClosedTaken
  <2>4. CASE ~Take("status")
    <3>1. taken'["status"] = i
      BY <2>4 DEF TypeOK, Writer, Consumer, Take, Test, Create, Missing, InsertPoint, UpdateMetadata,
                  SetFinished, SetNumPoints, Check, WriteFile, Pop
    <3>2. j = i /\ pc["status"] \in early /\ pc'["status"] \notin early
      BY <1>2, <2>1, <3>1 DEF ClosedTaken
    <3>3. Message("status").status = "closed" /\ ScanOf("status") = s
      BY <2>1, <3>2 DEF ClosedAt, ScanOf, Message, Topic
    <3>4. SetFinished
      <4>1. ASSUME NEW c \in {"segment"}, Consumer(c) PROVE FALSE
        BY <3>2, <4>1 DEF Consumer, Take, Test, Create, Missing, Check, WriteFile, Pop, Goto, TypeOK
      <4>2. CASE Test("status")
        BY <3>2, <4>2 DEF Test, Goto, TypeOK
      <4>3. CASE Missing("status")
        BY <4>3 DEF Missing, Goto, ArrivalInv, StatusLives
      <4>4. CASE Check("status")
        BY <3>2, <4>4 DEF Check, Goto
      <4>5. CASE Create("status") \/ WriteFile("status") \/ Pop("status")
        BY <3>2, <4>5 DEF Create, WriteFile, Pop, Goto, TypeOK
      <4>6. CASE InsertPoint \/ SetNumPoints
        BY <3>2, <4>6 DEF InsertPoint, SetNumPoints, Goto, TypeOK
      <4>7. CASE UpdateMetadata
        BY <3>2, <3>3, <4>7 DEF UpdateMetadata, Goto, TypeOK
      <4> QED
        BY <2>4, <4>1, <4>2, <4>3, <4>4, <4>5, <4>6, <4>7 DEF Writer, Consumer
    <3>5. /\ Finishing /\ Changes(held, [storages[held] EXCEPT !.finished = TRUE])
          /\ storages[held].scan = s
      BY <3>3, <3>4, Finishes, HoldsStorage
    <3>6. storages'[held].finished /\ storages'[held].scan = s /\ held \in 1..Len(storages')
      BY <3>5 DEF Changes, Storages
    <3> QED
      BY <3>6 DEF Finished
  <2> QED
    BY <2>3, <2>4
<1> QED
  BY <1>1, <1>2

\* A point is behind the segment consumer when a storage has it.
LEMMA PointIsStored ==
  ASSUME WInv, ArrivalInv, Writer, UNCHANGED topicVars,
         NEW s \in Kept, NEW p \in Points, PointTaken(s, p)'
  PROVE  InStorage(s, p)'
<1> USE DEF WInv, Consumers
<1> DEFINE early == {"test", "create", "use"}
           i == taken["segment"]
<1>1. CASE PointTaken(s, p)
  <2>1. PICK k \in 1..Len(storages) : storages[k].scan = s /\ p \in storages[k].points
    BY <1>1 DEF ArrivalInv, InStorage
  <2>2. k \in 1..Len(storages') /\ storages'[k].scan = s /\ p \in storages'[k].points
    BY <2>1, StoragesStay
  <2> QED
    BY <2>2 DEF InStorage
<1>2. CASE ~PointTaken(s, p)
  <2>1. PICK j \in 1..taken'["segment"] :
          /\ scan_segment[j].scan = s /\ scan_segment[j].point = p
          /\ j = taken'["segment"] => pc'["segment"] \notin early
    BY DEF PointTaken, topicVars
  <2>2. i \in Nat
    BY DEF TypeOK
  <2>3. CASE Take("segment")
    <3>1. taken'["segment"] = i + 1 /\ pc["segment"] = "idle" /\ pc'["segment"] = "test"
      BY <2>3 DEF Take, Goto, TypeOK
    <3>2. j \in 1..i
      BY <2>1, <2>2, <3>1
    <3> QED
      BY <1>2, <2>1, <3>1, <3>2 DEF PointTaken
  <2>4. CASE ~Take("segment")
    <3>1. taken'["segment"] = i
      BY <2>4 DEF TypeOK, Writer, Consumer, Take, Test, Create, Missing, InsertPoint, UpdateMetadata,
                  SetFinished, SetNumPoints, Check, WriteFile, Pop
    <3>2. j = i /\ pc["segment"] \in early /\ pc'["segment"] \notin early
      BY <1>2, <2>1, <3>1 DEF PointTaken
    <3>3. Message("segment").point = p /\ ScanOf("segment") = s
      BY <2>1, <3>2 DEF ScanOf, Message, Topic
    <3>4. InsertPoint
      <4>1. ASSUME NEW c \in {"status"}, Consumer(c) PROVE FALSE
        BY <3>2, <4>1 DEF Consumer, Take, Test, Create, Missing, Check, WriteFile, Pop, Goto, TypeOK
      <4>2. CASE Test("segment")
        BY <3>2, <4>2 DEF Test, Goto, TypeOK
      <4>3. CASE Missing("segment")
        BY <3>3, <4>3 DEF Missing, Goto, FullInv
      <4>4. CASE Check("segment")
        BY <3>2, <4>4 DEF Check, Goto
      <4>5. CASE Create("segment") \/ WriteFile("segment") \/ Pop("segment")
        BY <3>2, <4>5 DEF Create, WriteFile, Pop, Goto, TypeOK
      <4>6. CASE UpdateMetadata \/ SetFinished \/ SetNumPoints
        BY <3>2, <4>6 DEF UpdateMetadata, SetFinished, SetNumPoints, Goto, TypeOK
      <4> QED
        BY <2>4, <4>1, <4>2, <4>3, <4>4, <4>5, <4>6 DEF Writer, Consumer
    <3> DEFINE k == scan_storage[ScanOf("segment")]
               e == [storages[k] EXCEPT !.points = @ \cup {p}]
    <3>5. Changes(k, e) /\ ScanOf("segment") \in Scans
      BY <3>3, <3>4, Inserts
    <3>6. storages[k].scan = s
      BY <3>3, <3>4, <3>5 DEF ControlInv, InsertPoint
    <3>7. storages'[k].scan = s /\ p \in storages'[k].points /\ k \in 1..Len(storages')
      BY <3>5, <3>6 DEF Changes, Storages
    <3> HIDE DEF k
    <3> QED
      BY <3>7 DEF InStorage
  <2> QED
    BY <2>3, <2>4
<1> QED
  BY <1>1, <1>2

\* Nobody pops the storage that the status consumer is about to use.
LEMMA StatusStaysAlive ==
  ASSUME WInv, ArrivalInv, Writer, UNCHANGED topicVars
  PROVE  StatusLives'
<1> USE DEF WInv, Consumers
<1>1. pc'["status"] # "dead"
  <2> SUFFICES ASSUME pc'["status"] = "dead" PROVE FALSE
    OBVIOUS
  <2>1. Missing("status")
    BY Arrives DEF ArrivalInv, StatusLives
  <2> QED
    BY <2>1 DEF ArrivalInv, StatusLives, Missing, Goto
<1>2. ASSUME pc'["status"] = "use" PROVE scan_storage'[ScanOf("status")'] # 0
  <2>1. ASSUME Create("status") PROVE scan_storage'[ScanOf("status")] # 0 /\ pc["status"] # "idle"
    <3>1. ScanOf("status") \in Scans /\ Len(storages') # 0
      BY <2>1, Creates
    <3> QED
      BY <2>1, <3>1 DEF Create, Goto, TypeOK
  <2>2. ASSUME Test("status") PROVE scan_storage'[ScanOf("status")] # 0 /\ pc["status"] # "idle"
    BY <1>2, <2>2 DEF Test, Goto, TypeOK
  <2>3. ASSUME pc["status"] = "use" PROVE scan_storage'[ScanOf("status")] # 0
    <3>1. scan_storage[ScanOf("status")] # 0 /\ ScanOf("status") \in Scans
      BY <2>3, MessageType DEF ArrivalInv, StatusLives
    <3>2. ASSUME NEW d \in Consumers, Create(d) PROVE scan_storage'[ScanOf("status")] # 0
      <4>1. Len(storages') # 0
        BY <3>2, Creates
      <4> QED
        BY <3>1, <3>2, <4>1 DEF Create, TypeOK
    <3>3. ASSUME NEW d \in Consumers, Pop(d) PROVE scan_storage'[ScanOf("status")] # 0
      <4>1. Finished(ScanOf(d))
        BY <3>3 DEF OnceInv, Pop, Goto
      <4>2. ScanOf(d) # ScanOf("status")
        BY <2>3, <4>1, NotFinishedYet DEF Finished
      <4> QED
        BY <3>1, <3>3, <4>2 DEF Pop, TypeOK
    <3>4. CASE UNCHANGED scan_storage
      BY <3>1, <3>4
    <3> HIDE DEF Consumers
    <3> QED
      BY <3>2, <3>3, <3>4 DEF Writer, Consumer, Take, Test, Missing, InsertPoint, UpdateMetadata,
                              SetFinished, SetNumPoints, Check, WriteFile
  <2>4. ScanOf("status")' = ScanOf("status")
    BY <1>2, <2>1, <2>2, Arrives, MessageStays
  <2> QED
    BY <1>2, <2>1, <2>2, <2>3, <2>4, Arrives
<1> QED
  BY <1>1, <1>2 DEF StatusLives

\* Only the status consumer finishes a storage, and then counts.
LEMMA StaysCounted ==
  ASSUME WInv, ArrivalInv, Writer, NEW k \in 1..Len(storages')
  PROVE  Counted(k)'
<1> USE DEF WInv, Consumers
<1>1. CASE k \in 1..Len(storages)
  <2>1. CASE storages'[k] = storages[k]
    <3>1. Counted(k)
      BY <1>1 DEF ArrivalInv
    <3>2. pc["status"] = "count" /\ held = k /\ ~SetNumPoints => pc'["status"] = "count" /\ held' = k
      BY DEF Writer, Consumer, Take, Test, Create, Missing, InsertPoint, UpdateMetadata,
             SetFinished, Check, WriteFile, Pop, Goto, TypeOK
    <3>3. pc["status"] = "count" /\ held = k /\ SetNumPoints => storages'[k].num = Cardinality(Points)
      <4> SUFFICES ASSUME pc["status"] = "count", held = k, SetNumPoints
                   PROVE  storages'[k].num = Cardinality(Points)
        OBVIOUS
      <4> DEFINE e == [storages[held] EXCEPT !.num = Cardinality(Points),
                                             !.sync = ScanOf("status") \in Sync]
      <4>1. Changes(held, e)
        BY Counts
      <4>2. e.num = Cardinality(Points)
        BY <4>1 DEF Changes, Storages
      <4> QED
        BY <4>1, <4>2 DEF Changes
    <3> QED
      BY <2>1, <3>1, <3>2, <3>3 DEF Counted
  <2>2. CASE InsertPoint /\ storages'[k].finished = storages[k].finished
             /\ storages'[k].num = storages[k].num
    BY <1>1, <2>2 DEF ArrivalInv, Counted, InsertPoint, Goto, TypeOK
  <2>3. CASE SetFinished /\ k = held
    BY <2>3 DEF Counted, SetFinished, Goto, TypeOK
  <2>4. CASE storages'[k].num = Cardinality(Points)
    BY <2>4 DEF Counted
  <2> QED
    BY <1>1, <2>1, <2>2, <2>3, <2>4, StorageSteps
<1>2. CASE k \notin 1..Len(storages)
  BY <1>2, StoragesGain DEF Counted
<1> QED
  BY <1>1, <1>2

\* The storage of a scan is its only one until the scan is written, unless two were made.
LEMMA StaysTheOne ==
  ASSUME WInv, ArrivalInv, Writer, NEW s \in Scans,
         NEW k \in 1..Len(storages'), storages'[k].scan = s
  PROVE  scan_storage'[s] = k \/ Written(s)' \/ CreatedTwice(s)'
<1> USE DEF WInv
<1>1. /\ Len(storages) \in Nat /\ Len(storages') \in Nat /\ Len(storages) <= Len(storages')
      /\ \A j \in 1..Len(storages) : storages'[j].scan = storages[j].scan
  BY StoragesStay
<1>2. CASE k \in 1..Len(storages)
  <2>1. scan_storage[s] = k \/ Written(s) \/ CreatedTwice(s)
    BY <1>1, <1>2 DEF ArrivalInv
  <2>2. Written(s) => Written(s)'
    BY WrittenGrows
  <2>3. CreatedTwice(s) => CreatedTwice(s)'
    BY <1>1 DEF CreatedTwice
  <2>4. ASSUME scan_storage[s] = k, scan_storage'[s] # k
        PROVE  Written(s)' \/ CreatedTwice(s)'
    <3>1. ASSUME NEW c \in Consumers, Create(c) PROVE CreatedTwice(s)'
      <4>1. ScanOf(c) = s /\ Len(storages') = Len(storages) + 1
            /\ storages'[Len(storages')].scan = s
        BY <2>4, <3>1, Creates DEF Create, TypeOK, ScanStorage
      <4>2. k # Len(storages') /\ Len(storages') \in 1..Len(storages')
        BY <1>1, <1>2, <4>1
      <4> QED
        BY <4>1, <4>2 DEF CreatedTwice
    <3>2. ASSUME NEW c \in Consumers, Pop(c) PROVE Written(s)'
      <4>1. ScanOf(c) = s /\ pc[c] = "pop"
        BY <2>4, <3>2 DEF Pop, Goto, TypeOK
      <4> QED
        BY <2>2, <4>1 DEF ArrivalInv
    <3> QED
      BY <2>4, <3>1, <3>2 DEF Writer, Consumer, Take, Test, Missing, InsertPoint, UpdateMetadata,
                              SetFinished, SetNumPoints, Check, WriteFile
  <2> QED
    BY <2>1, <2>2, <2>3, <2>4
<1>3. CASE k \notin 1..Len(storages)
  <2>1. PICK c \in Consumers : Create(c) /\ k = Len(storages')
    BY <1>3, StoragesGain
  <2>2. storages'[k] = ScanStorage(ScanOf(c)) /\ ScanStorage(ScanOf(c)).scan = ScanOf(c)
    BY <2>1, Creates DEF ScanStorage
  <2> QED
    BY <2>1, <2>2 DEF Create, TypeOK
<1> QED
  BY <1>2, <1>3

\* Who completes the storage of a scan checks it next, and writes what is complete.
LEMMA StaysAttended ==
  ASSUME WInv, ArrivalInv, Writer, UNCHANGED topicVars, TypeOK',
         NEW s \in Scans, Complete(scan_storage[s])'
  PROVE  Written(s)' \/ Attended(s)'
<1> USE DEF WInv
<1> DEFINE k == scan_storage[s]
<1>m. \A c \in Consumers : pc[c] # "idle" => ScanOf(c)' = ScanOf(c)
  BY MessageStays
<1>w. Written(s) => Written(s)'
  BY WrittenGrows
<1>1. scan_storage'[s] \in 1..Len(storages')
      /\ storages'[scan_storage'[s]].finished
      /\ storages'[scan_storage'[s]].num = Cardinality(Points)
      /\ storages'[scan_storage'[s]].points = Points
  BY DEF Complete
<1>2. scan_storage'[s] = k
  <2>1. ASSUME NEW c \in Consumers, Create(c) PROVE ScanOf(c) # s
    BY <1>1, <2>1, Creates DEF Create, TypeOK, ScanStorage
  <2>2. ASSUME NEW c \in Consumers, Pop(c) PROVE ScanOf(c) # s
    BY <1>1, <2>2 DEF Pop, TypeOK
  <2>3. ASSUME NEW c \in Consumers, Create(c) \/ Pop(c) PROVE scan_storage'[s] = k
    BY <2>1, <2>2, <2>3 DEF Create, Pop, TypeOK
  <2> QED
    BY <2>3 DEF Writer, Consumer, Take, Test, Missing, InsertPoint, UpdateMetadata,
                SetFinished, SetNumPoints, Check, WriteFile
<1>3. k \in 1..Len(storages) /\ storages[k].scan = s
  BY <1>1, <1>2 DEF TypeOK, ControlInv
<1>4. ASSUME NEW c \in Consumers, pc[c] # "idle", ScanOf(c) = s,
             pc'[c] \in {"count", "check", "write"}
      PROVE  Attended(s)'
  BY <1>m, <1>4 DEF Attended
<1>5. CASE storages'[k] = storages[k]
  <2>1. Complete(k)
    BY <1>1, <1>2, <1>3, <1>5 DEF Complete
  <2>2. CASE Written(s)
    BY <1>w, <2>2
  <2>3. ASSUME NEW c \in Consumers, pc[c] \in {"count", "check", "write"}, ScanOf(c) = s
        PROVE  Written(s)' \/ Attended(s)'
    <3>1. CASE pc'[c] = pc[c]
      BY <1>4, <2>3, <3>1
    <3>2. CASE Check(c)
      <4>1. ReadyToWrite(storages[k])
        BY <2>1 DEF Complete, ReadyToWrite
      <4>2. pc'[c] = "write"
        BY <1>3, <2>3, <3>2, <4>1 DEF Check, Goto, TypeOK
      <4> QED
        BY <1>4, <2>3, <4>2
    <3>3. CASE WriteFile(c)
      <4>1. Len(files') = Len(files) + 1 /\ Len(files) \in Nat /\ files'[Len(files')].scan = s
        BY <2>3, <3>3, Writes
      <4> QED
        BY <4>1 DEF Written
    <3>4. CASE SetNumPoints
      BY <1>4, <2>3, <3>1, <3>4 DEF SetNumPoints, Goto, TypeOK, Consumers
    <3>5. ASSUME NEW d \in Consumers, Consumer(d), d # c PROVE pc'[c] = pc[c]
      <4>1. \E l : pc' = [pc EXCEPT ![d] = l]
        <5>1. CASE Take(d) \/ Test(d) \/ Create(d) \/ Missing(d)
          BY <5>1 DEF Take, Test, Create, Missing, Goto
        <5>2. CASE Check(d) \/ WriteFile(d) \/ Pop(d)
          BY <5>2 DEF Check, WriteFile, Pop, Goto
        <5> QED
          BY <3>5, <5>1, <5>2 DEF Consumer
      <4> QED
        BY <3>5, <4>1 DEF TypeOK
    <3>6. CASE Take(c) \/ Test(c) \/ Create(c) \/ Missing(c) \/ Pop(c)
      BY <2>3, <3>6 DEF Take, Test, Create, Missing, Pop, Goto
    <3>7. CASE InsertPoint \/ UpdateMetadata \/ SetFinished
      BY <2>3, <3>1, <3>7 DEF InsertPoint, UpdateMetadata, SetFinished, Goto, TypeOK
    <3> QED
      BY <3>1, <3>2, <3>3, <3>4, <3>5, <3>6, <3>7 DEF Writer, Consumer
  <2> QED
    BY <2>1, <2>2, <2>3 DEF ArrivalInv, Attended
<1>6. CASE InsertPoint /\ k = scan_storage[ScanOf("segment")]
  <2>1. pc["segment"] # "idle" /\ pc'["segment"] = "check"
    BY <1>6 DEF InsertPoint, Goto, TypeOK, Consumers
  <2>2. ScanOf("segment") \in Scans
    BY <1>6, Inserts
  <2>3. ScanOf("segment") = s
    BY <1>3, <1>6, <2>2 DEF ControlInv, InsertPoint
  <2> QED
    BY <1>4, <2>1, <2>3 DEF Consumers
<1>7. CASE (SetFinished \/ SetNumPoints) /\ k = held
  <2>1. Finishing
    BY <1>7 DEF SetFinished, SetNumPoints, Goto, Finishing
  <2>2. ScanOf("status") = s
    BY <1>3, <1>7, <2>1, HoldsStorage
  <2>3. pc["status"] # "idle" /\ pc'["status"] \in {"count", "check"}
    BY <1>7 DEF SetFinished, SetNumPoints, Goto, TypeOK, Consumers
  <2> QED
    BY <1>4, <2>2, <2>3 DEF Consumers
<1> QED
  BY <1>3, <1>5, <1>6, <1>7, StorageSteps

\* Every step of the consumers keeps it.
LEMMA WriterKeepsArrival ==
  ASSUME WInv, WInv', ArrivalInv, Writer, UNCHANGED topicVars
  PROVE  ArrivalInv'
<1>1. ClosedSeen'
  BY DEF ArrivalInv, ClosedSeen, ClosedAt, topicVars
<1>2. StatusLives'
  BY StatusStaysAlive
<1>3. ASSUME NEW c \in Consumers, pc'[c] = "pop"
      PROVE  Written(ScanOf(c))'
  <2>1. \E s : s = ScanOf(c)' /\ Written(s)'
    <3>1. CASE pc[c] = "pop"
      BY <1>3, <3>1, MessageStays, WrittenGrows DEF WInv, ArrivalInv
    <3>2. CASE pc[c] # "pop"
      <4>1. WriteFile(c)
        BY <1>3, <3>2, Arrives DEF WInv
      <4>2. /\ Len(files') = Len(files) + 1 /\ Len(files) \in Nat
            /\ files'[Len(files')].scan = ScanOf(c) /\ pc[c] = "write"
        BY <4>1, Writes DEF WInv
      <4>3. ScanOf(c)' = ScanOf(c)
        BY <4>2, MessageStays DEF WInv
      <4> QED
        BY <4>2, <4>3 DEF Written
    <3> QED
      BY <3>1, <3>2
  <2> QED
    BY <2>1 DEF Written
<1>4. \A k \in 1..Len(storages') : Counted(k)'
  BY StaysCounted
<1>5. /\ \A s \in Scans : ClosedTaken(s)' => Finished(s)'
      /\ \A s \in Kept, p \in Points : PointTaken(s, p)' => InStorage(s, p)'
  BY ClosedIsFinished, PointIsStored
<1>6. ASSUME NEW s \in Scans
      PROVE  /\ \A k \in 1..Len(storages') : storages'[k].scan = s =>
                  scan_storage'[s] = k \/ Written(s)' \/ CreatedTwice(s)'
             /\ Complete(scan_storage[s])' => Written(s)' \/ Attended(s)'
  BY StaysTheOne, StaysAttended DEF WInv
<1> QED
  BY <1>1, <1>2, <1>3, <1>4, <1>5, <1>6 DEF ArrivalInv

\* So does every step of the system.
LEMMA NextArrival == WInv /\ ArrivalInv /\ [Next]_vars /\ WInv' => ArrivalInv'
<1> SUFFICES ASSUME WInv, ArrivalInv, [Next]_vars, WInv' PROVE ArrivalInv'
  OBVIOUS
<1>1. CASE UNCHANGED vars
  <2>1. UNCHANGED <<phase, scan_status, scan_segment, storages, scan_storage, pc, taken, held, lock, files>>
    BY <1>1 DEF vars, topicVars, writerVars
  <2>2. \A c \in Consumers : ScanOf(c)' = ScanOf(c)
    BY <2>1 DEF ScanOf, Message, Topic
  <2>3. \A s : /\ UNCHANGED <<ClosedTaken(s), Finished(s), Written(s), CreatedTwice(s), Attended(s)>>
               /\ UNCHANGED Complete(scan_storage[s])
    BY <2>1, <2>2 DEF ClosedTaken, ClosedAt, Finished, Written, CreatedTwice, Attended, Complete
  <2>4. \A s, p : UNCHANGED <<PointTaken(s, p), InStorage(s, p)>>
    BY <2>1 DEF PointTaken, InStorage
  <2>5. ClosedSeen' /\ StatusLives' /\ \A k \in 1..Len(storages) : Counted(k)'
    BY <2>1, <2>2 DEF ArrivalInv, ClosedSeen, ClosedAt, StatusLives, Consumers, Counted
  <2>6. \A c \in Consumers : pc'[c] = "pop" => Written(ScanOf(c))'
    BY <2>1, <2>2 DEF ArrivalInv, Written
  <2> QED
    BY <2>1, <2>3, <2>4, <2>5, <2>6 DEF ArrivalInv
<1> QED
  BY <1>1, StreamKeepsArrival, WriterKeepsArrival DEF Next, Idle

\* When all messages were handled, a closed step scan with enforce_sync all points of which
\* were emitted has its file, unless the segment consumer has ended on another scan or both
\* consumers created a storage for it.
THEOREM WritesUnlessCreatedTwice == Spec => []UnwrittenWasCreatedTwice
<1>1. WInv /\ ArrivalInv => UnwrittenWasCreatedTwice
  <2> SUFFICES ASSUME WInv, ArrivalInv, Quiet, NEW s \in Kept, Closed(s),
                      pc["segment"] # "dead", ~CreatedTwice(s)
               PROVE  Written(s)
    BY DEF UnwrittenWasCreatedTwice, Kept
  <2> USE DEF WInv, Consumers
  <2>1. /\ pc["status"] = "idle" /\ taken["status"] = Len(scan_status)
        /\ pc["segment"] = "idle" /\ taken["segment"] = Len(scan_segment)
    BY DEF Quiet, Topic, ArrivalInv, StatusLives
  <2>2. s \in Scans
    BY ScansAssumption DEF Kept
  <2>3. ClosedTaken(s)
    BY <2>1, <2>2 DEF Closed, ArrivalInv, ClosedSeen, ClosedTaken
  <2>4. PICK k \in 1..Len(storages) : storages[k].scan = s /\ storages[k].finished
    BY <2>2, <2>3 DEF ArrivalInv, Finished
  <2>5. ASSUME NEW p \in Points PROVE p \in storages[k].points
    <3>1. PointTaken(s, p)
      <4>1. PICK d \in Devices, i \in 1..Len(scan_segment) :
              scan_segment[i] = [scan |-> s, point |-> p, by |-> d]
        BY DEF Closed, Stream!Emitted, Stream!Among
      <4> QED
        BY <2>1, <4>1 DEF PointTaken
    <3>2. PICK j \in 1..Len(storages) : storages[j].scan = s /\ p \in storages[j].points
      BY <3>1 DEF ArrivalInv, InStorage
    <3> QED
      BY <2>4, <3>2 DEF CreatedTwice
  <2>6. storages[k].points = Points
    BY <2>5, StorageType
  <2>7. storages[k].num = Cardinality(Points)
    BY <2>1, <2>4 DEF ArrivalInv, Counted
  <2>8. ~Attended(s)
    BY <2>1 DEF Attended
  <2>9. Written(s) \/ Complete(scan_storage[s])
    BY <2>2, <2>4, <2>6, <2>7 DEF ArrivalInv, Complete
  <2> QED
    BY <2>2, <2>8, <2>9 DEF ArrivalInv
<1>2. Init => WInv /\ ArrivalInv
  BY InitWInv, InitArrival
<1>3. WInv /\ ArrivalInv /\ [Next]_vars => WInv' /\ ArrivalInv'
  BY NextWInv, NextArrival
<1> QED
  BY <1>1, <1>2, <1>3, PTL DEF Spec
=============================================================================
