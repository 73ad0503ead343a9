----------------------------- MODULE FileWriter -----------------------------
(***************************************************************************)
(* The file writer's manager (file_writer/file_writer_manager.py) stores   *)
(* the points of a scan until the scan was closed and all of them are      *)
(* there, writes them to a file and forgets the scan.                      *)
(*                                                                         *)
(* Two consumers, each a thread, share scan_storage: one takes the scan    *)
(* states, the other the scan segments, both as PointStream has them. Only *)
(* check_storage_status runs under the manager's lock; what the consumers  *)
(* do before it is modelled access by access.                              *)
(***************************************************************************)
EXTENDS Integers, Sequences, FiniteSets

CONSTANTS
  Scans, Fly, Reports, Points, Devices,   (* see PointStream                *)
  Sync          (* Scans with enforce_sync.                                *)

ASSUME ScansAssumption == Fly \subseteq Scans /\ Sync \subseteq Scans
ASSUME ReportsAssumption == Reports \subseteq {"paused", "closed", "aborted", "halted"}
ASSUME PointsAssumption == IsFiniteSet(Points)

VARIABLES
  phase, scan_status, scan_segment,   (* see PointStream                     *)
  storages,     (* the ScanStorage objects that were ever created          *)
  scan_storage, (* which of them is the scan's, 0 if none                  *)
  pc,           (* the program counters of the two consumers               *)
  taken,        (* how many messages each has taken from its topic         *)
  held,         (* the ScanStorage that the status consumer holds          *)
  lock,         (* holder of FileWriterManager._lock                       *)
  files         (* the files announced as done                             *)

topicVars == <<phase, scan_status, scan_segment>>
writerVars == <<storages, scan_storage, pc, taken, held, lock, files>>
vars == <<topicVars, writerVars>>

Stream == INSTANCE PointStream

-----------------------------------------------------------------------------

Consumers == {"status", "segment"}
Topic(c) == IF c = "status" THEN scan_status ELSE scan_segment
Message(c) == Topic(c)[taken[c]]
ScanOf(c) == Message(c).scan
None == -1
ScanStorage(s) == [scan |-> s, points |-> {}, finished |-> FALSE, num |-> None, sync |-> TRUE]

TypeOK ==
  /\ phase \in [Scans -> Stream!Final \cup {"new", "open", "paused"}]
  /\ scan_status \in Seq([scan : Scans, status : Stream!Final \cup {"open", "paused"}])
  /\ scan_segment \in Seq([scan : Scans, point : Points, by : Devices])
  /\ storages \in Seq([scan : Scans, points : SUBSET Points, finished : BOOLEAN,
                       num : {None, Cardinality(Points)}, sync : BOOLEAN])
  /\ scan_storage \in [Scans -> 0..Len(storages)]
  /\ pc \in [Consumers -> {"idle", "test", "create", "use", "finish", "count",
                           "check", "write", "pop", "dead"}]
  /\ taken \in [Consumers -> Nat] /\ \A c \in Consumers : taken[c] <= Len(Topic(c))
  /\ held \in 0..Len(storages)
  /\ lock \in Consumers \cup {"free"}
  /\ files \in Seq([scan : Scans, points : SUBSET Points])

Init ==
  /\ Stream!Init
  /\ storages = <<>> /\ scan_storage = [s \in Scans |-> 0]
  /\ pc = [c \in Consumers |-> "idle"]
  /\ taken = [c \in Consumers |-> 0]
  /\ held = 0 /\ lock = "free" /\ files = <<>>

Goto(c, from, to) == pc[c] = from /\ pc' = [pc EXCEPT ![c] = to]

-----------------------------------------------------------------------------
(* Both consumers: if not self.scan_storage.get(scanID): create it           *)

Take(c) ==
  /\ Goto(c, "idle", "test")
  /\ taken[c] < Len(Topic(c))
  /\ taken' = [taken EXCEPT ![c] = @ + 1]
  /\ UNCHANGED <<storages, scan_storage, held, lock, files>>

Test(c) ==
  /\ Goto(c, "test", IF scan_storage[ScanOf(c)] = 0 THEN "create" ELSE "use")
  /\ UNCHANGED <<storages, scan_storage, taken, held, lock, files>>

\* The other consumer may have created one since.
Create(c) ==
  /\ Goto(c, "create", "use")
  /\ storages' = Append(storages, ScanStorage(ScanOf(c)))
  /\ scan_storage' = [scan_storage EXCEPT ![ScanOf(c)] = Len(storages')]
  /\ UNCHANGED <<taken, held, lock, files>>

\* The storage is looked up again; one that was popped is a KeyError, which ends
\* the consumer's thread.
Missing(c) ==
  /\ Goto(c, "use", "dead")
  /\ scan_storage[ScanOf(c)] = 0
  /\ UNCHANGED <<storages, scan_storage, taken, held, lock, files>>

-----------------------------------------------------------------------------
(* insert_to_scan_storage                                                   *)

InsertPoint ==
  LET k == scan_storage[ScanOf("segment")] IN
  /\ Goto("segment", "use", "check")
  /\ k # 0
  /\ storages' = [storages EXCEPT ![k].points = @ \cup {Message("segment").point}]
  /\ UNCHANGED <<scan_storage, taken, held, lock, files>>

-----------------------------------------------------------------------------
(* update_scan_storage_with_status                                          *)

\* The metadata is updated; for all but closed scans that is it.
UpdateMetadata ==
  LET k == scan_storage[ScanOf("status")]
      closed == Message("status").status = "closed"
  IN
  /\ Goto("status", "use", IF closed THEN "finish" ELSE "idle")
  /\ k # 0
  /\ held' = IF closed THEN k ELSE 0
  /\ UNCHANGED <<storages, scan_storage, taken, lock, files>>

SetFinished ==
  /\ Goto("status", "finish", "count")
  /\ storages' = [storages EXCEPT ![held].finished = TRUE]
  /\ UNCHANGED <<scan_storage, taken, held, lock, files>>

\* num_points is what the scan worker reports: one more than the last pointID.
SetNumPoints ==
  /\ Goto("status", "count", "check")
  /\ storages' = [storages EXCEPT ![held].num = Cardinality(Points),
                                  ![held].sync = ScanOf("status") \in Sync]
  /\ held' = 0
  /\ UNCHANGED <<scan_storage, taken, lock, files>>

-----------------------------------------------------------------------------
(* check_storage_status                                                     *)

\* Mutant of ReadyToWrite: a closed scan is written with what is there.
ReadyWhenFinished(storage) == storage.finished

\* num_points is compared with the number of points.
ReadyToWrite(storage) ==
  /\ storage.finished
  /\ storage.sync => storage.num = Cardinality(storage.points)

\* Mutant of Check: only the end of a scan is a reason to write.
CheckOnStatus(c) ==
  /\ lock = "free"
  /\ LET k == scan_storage[ScanOf(c)]
         ready == c = "status" /\ k # 0 /\ ReadyToWrite(storages[k])
     IN  /\ Goto(c, "check", IF ready THEN "write" ELSE "idle")
         /\ lock' = IF ready THEN c ELSE "free"
  /\ UNCHANGED <<storages, scan_storage, taken, held, files>>

Check(c) ==
  /\ lock = "free"
  /\ LET k == scan_storage[ScanOf(c)]
         ready == k # 0 /\ ReadyToWrite(storages[k])
     IN  /\ Goto(c, "check", IF ready THEN "write" ELSE "idle")
         /\ lock' = IF ready THEN c ELSE "free"
  /\ UNCHANGED <<storages, scan_storage, taken, held, files>>

\* write_file. A failure is announced by an alarm of severity MINOR and with the file;
\* it makes no difference to what follows.
WriteFile(c) ==
  /\ Goto(c, "write", "pop")
  /\ files' = Append(files, [scan |-> ScanOf(c),
                             points |-> storages[scan_storage[ScanOf(c)]].points])
  /\ UNCHANGED <<storages, scan_storage, taken, held, lock>>

\* Mutant of Pop: the storage stays.
PopNothing(c) ==
  /\ Goto(c, "pop", "idle")
  /\ lock' = "free"
  /\ UNCHANGED <<storages, scan_storage, taken, held, files>>

Pop(c) ==
  /\ Goto(c, "pop", "idle")
  /\ scan_storage' = [scan_storage EXCEPT ![ScanOf(c)] = 0]
  /\ lock' = "free"
  /\ UNCHANGED <<storages, taken, held, files>>

-----------------------------------------------------------------------------

Consumer(c) == Take(c) \/ Test(c) \/ Create(c) \/ Missing(c) \/ Check(c) \/ WriteFile(c)
               \/ Pop(c)
Writer == \/ \E c \in Consumers : Consumer(c)
          \/ InsertPoint
          \/ UpdateMetadata \/ SetFinished \/ SetNumPoints

\* Everything was published and dealt with.
Quiet == \A c \in Consumers : pc[c] = "dead" \/ (pc[c] = "idle" /\ taken[c] = Len(Topic(c)))
Idle == /\ Quiet
        /\ \A s \in Scans : phase[s] \in Stream!Final
        /\ UNCHANGED vars

Next == \/ Stream!Next /\ UNCHANGED writerVars
        \/ Writer /\ UNCHANGED topicVars
        \/ Idle
Spec == Init /\ [][Next]_vars

-----------------------------------------------------------------------------
(* Properties                                                               *)

\* write_file: the two consumers, each of which checks after every message, write the
\* file of a scan once.
WrittenOnce == \A j, k \in 1..Len(files) : files[j].scan = files[k].scan => j = k

\* ready_to_write: with enforce_sync the file of a step scan has all points of it, no
\* matter whether the last point or the closed state came first.
FileComplete ==
  \A k \in 1..Len(files) : files[k].scan \in Sync \ Fly => files[k].points = Points

\* A consumer's thread ends when the other one writes and pops the storage that it has
\* just seen. That takes a scan whose points may come after it was written.
ConsumersLive ==
  \A c \in Consumers : pc[c] = "dead" => ScanOf(c) \notin Sync \ Fly

\* A step scan with enforce_sync leaves nothing behind once its file is written: no late
\* message makes a new storage that would stay forever.
NothingLeft ==
  Quiet => \A k \in 1..Len(files) :
             files[k].scan \in Sync \ Fly => scan_storage[files[k].scan] = 0

Written(s) == \E k \in 1..Len(files) : files[k].scan = s
Closed(s) == phase[s] = "closed" /\ \A p \in Points : Stream!Emitted(s, p)
CreatedTwice(s) == \E j, k \in 1..Len(storages) :
                     j # k /\ storages[j].scan = s /\ storages[k].scan = s

\* "Helper class to store scan data until it is ready to be written to file": when all
\* messages were handled, a closed step scan of which all points were emitted has a file.
\* Without one there is one reason: the two consumers saw at the same time that there is
\* no storage, both created one, and the second one replaced the first.
UnwrittenWasCreatedTwice ==
  Quiet => \A s \in Sync \ Fly :
             Closed(s) => pc["segment"] = "dead" \/ Written(s) \/ CreatedTwice(s)
=============================================================================
