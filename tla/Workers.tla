------------------------------- MODULE Workers -------------------------------
(***************************************************************************)
(* Processing of the data stream. Clients keep a list of workers and write *)
(* it to redis (bec_lib/bec_worker_manager.py); the manager of the DAP     *)
(* server runs a process for each worker of that list                      *)
(* (data_processing/worker_manager.py), and a process fits the points of   *)
(* the current scan (data_processing/stream_processor.py).                 *)
(*                                                                         *)
(* A point is [scan, n, number]: the n-th one of its scan, and whether the *)
(* values to fit are numbers. A fit is the sequence of the points fitted.  *)
(***************************************************************************)
EXTENDS Integers, Sequences, FiniteSets, SequencesExt, Functions

CONSTANTS
  Managers,      (* The clients.                                              *)
  Programs,      (* What is asked of each client, the list in redis at the    *)
                 (* start, the bundles of the data stream, and whether the    *)
                 (* DAP server is started again at some time.                 *)
  Known,         (* Configurations whose worker class exists.                 *)
  Broken,        (* Configurations that the class refuses.                    *)
  Fits(_, _)     (* Whether a scan has the devices that a configuration fits. *)

VARIABLES
  todo,          (* what each client is still asked to do                     *)
  own,           (* BECWorkerManager._workers of each client                  *)
  stored,        (* dap_config in redis, a list of no or one configuration    *)
  chan,          (* dap_config messages for the DAP server                    *)
  dap,           (* where DAPWorkerManager is                                 *)
  workers,       (* DAPWorkerManager._workers                                 *)
  procs,         (* the processes that were started                           *)
  stream,        (* the bundles that are still to come                        *)
  again,         (* the DAP server may be started again                       *)
  log            (* what happened, for the properties                         *)

clients == <<todo, own>>
server == <<dap, workers, again>>
vars == <<clients, stored, chan, server, procs, stream, log>>

-----------------------------------------------------------------------------
Ids(list) == DOMAIN list
Listed == IF stored = <<>> THEN [id \in {} |-> "none"] ELSE stored[1]
With(list, id, conf) == [i \in Ids(list) \cup {id} |-> IF i = id THEN conf ELSE list[i]]
Without(list, id) == Restrict(list, Ids(list) \ {id})
None == <<>>

(* A client: BECWorkerManager. Only its constructor reads the list from    *)
(* redis; each change writes the client's own list.                        *)

Open(m) ==
  /\ todo[m] # <<>> /\ Head(todo[m]).op = "open"
  /\ todo' = [todo EXCEPT ![m] = Tail(@)]
  /\ own' = [own EXCEPT ![m] = Listed]
  /\ UNCHANGED <<stored, chan, server, procs, stream, log>>

\* add_worker raises for an ID that is there, update_worker for one that is not.
Accepted(list, o) == CASE o.op = "add" -> o.id \notin Ids(list)
                       [] o.op = "update" -> o.id \in Ids(list)
                       [] o.op = "remove" -> TRUE
Changed(list, o) == IF o.op = "remove" THEN Without(list, o.id) ELSE With(list, o.id, o.conf)

Change(m) ==
  /\ todo[m] # <<>> /\ Head(todo[m]).op # "open"
  /\ todo' = [todo EXCEPT ![m] = Tail(@)]
  /\ LET o == Head(todo[m]) IN
       IF Accepted(own[m], o)
       THEN /\ own' = [own EXCEPT ![m] = Changed(own[m], o)]
            /\ stored' = <<own'[m]>>
            /\ chan' = IF dap = "subscribed" THEN Append(chan, own'[m]) ELSE chan
            /\ log' = [log EXCEPT
                 !.stale = @ \/ own[m] # Listed,
                 !.missed = dap = "applied",
                 !.wanted = IF o.op = "remove" THEN Without(@, o.id) ELSE With(@, o.id, o.conf)]
       ELSE UNCHANGED <<own, stored, chan, log>>
  /\ UNCHANGED <<server, procs, stream>>

-----------------------------------------------------------------------------
(* The DAP server: DAPWorkerManager.                                       *)

NewProcess(id, conf) ==
  [id |-> id, conf |-> conf, state |-> "starting", queue |-> <<>>, scan |-> "none", data |-> <<>>,
   heard |-> <<>>, fits |-> {}]
Terminated(ps, n) == [ps EXCEPT ![n].state = "terminated"]

(* update_config: one worker of the list after the other, then those that  *)
(* are not in the list. s is the pair of the workers and the processes.    *)
Started(s, id, conf) ==
  [workers |-> With(s.workers, id, [conf |-> conf, proc |-> Len(s.procs) + 1]),
   procs |-> Append(s.procs, NewProcess(id, conf))]
\* Mutant of Configured: a change of the configuration is not noticed.
ConfiguredOnce(s, id, conf) ==
  IF conf \notin Known \/ id \in Ids(s.workers) THEN s ELSE Started(s, id, conf)
Configured(s, id, conf) ==
  CASE conf \notin Known -> s
    [] conf \in Known /\ id \notin Ids(s.workers) -> Started(s, id, conf)
    [] conf \in Known /\ id \in Ids(s.workers) ->
         IF s.workers[id].conf = conf THEN s
         ELSE Started([s EXCEPT !.procs = Terminated(@, s.workers[id].proc)], id, conf)

Removed(s, id) == [workers |-> Without(s.workers, id), procs |-> Terminated(s.procs, s.workers[id].proc)]

UpdateConfig(list) ==
  LET before == [workers |-> workers, procs |-> procs]
      listed == FoldLeft(LAMBDA s, id : Configured(s, id, list[id]), before, SetToSeq(Ids(list)))
      after == FoldLeft(LAMBDA s, id : Removed(s, id), listed, SetToSeq(Ids(listed.workers) \ Ids(list)))
  IN workers' = after.workers /\ procs' = after.procs

(* The constructor reads the list, and only then subscribes to changes.    *)
ReadConfig ==
  /\ dap = "off" /\ dap' = "applied"
  /\ IF stored = <<>> THEN UNCHANGED <<workers, procs>> ELSE UpdateConfig(stored[1])
  /\ log' = [log EXCEPT !.missed = FALSE]
  /\ UNCHANGED <<clients, stored, chan, again, stream>>
StartConfigConsumer ==
  /\ dap = "applied" /\ dap' = "subscribed"
  /\ UNCHANGED <<clients, stored, chan, workers, procs, again, stream, log>>
SetConfig ==
  /\ dap = "subscribed" /\ chan # <<>>
  /\ chan' = Tail(chan)
  /\ UpdateConfig(Head(chan))
  /\ UNCHANGED <<clients, stored, dap, again, stream, log>>

(* shutdown terminates the processes; the server is then started again.    *)
StartAgain ==
  /\ again /\ again' = FALSE
  /\ dap' = "off" /\ workers' = [id \in {} |-> "none"] /\ chan' = <<>>
  /\ procs' = [n \in DOMAIN procs |->
       IF \E id \in Ids(workers) : workers[id].proc = n THEN [procs[n] EXCEPT !.state = "terminated"] ELSE procs[n]]
  /\ UNCHANGED <<clients, stored, stream, log>>

-----------------------------------------------------------------------------
(* A process: StreamProcessor.run. The constructor of the class may raise. *)
Run(n) ==
  /\ procs[n].state = "starting"
  /\ procs' = [procs EXCEPT ![n].state = IF procs[n].conf \in Broken THEN "raised" ELSE "running"]
  /\ UNCHANGED <<clients, stored, chan, server, stream, log>>

(* The data stream: a bundle of points reaches every process that listens. *)
Emit ==
  /\ stream # <<>> /\ stream' = Tail(stream)
  /\ procs' = [n \in DOMAIN procs |->
       IF procs[n].state # "running" THEN procs[n]
       ELSE [procs[n] EXCEPT !.queue = Append(@, Head(stream)), !.heard = Append(@, Head(stream))]]
  /\ UNCHANGED <<clients, stored, chan, server, log>>

(* LmfitProcessor.process: s is the process's scan and data, with a result *)
(* for each point so far.                                                  *)
\* Mutant of ProcessPoint: four points are needed.
ProcessPointLate(s, p) ==
  IF ~p.number THEN [s EXCEPT !.results = Append(@, None)]
  ELSE LET data == Append(IF s.scan = p.scan THEN s.data ELSE <<>>, p) IN
       [scan |-> p.scan, data |-> data, results |-> Append(s.results, IF Len(data) <= 3 THEN None ELSE data)]
ProcessPoint(s, p) ==
  IF ~p.number THEN [s EXCEPT !.results = Append(@, None)]
  ELSE LET data == Append(IF s.scan = p.scan THEN s.data ELSE <<>>, p) IN
       [scan |-> p.scan, data |-> data, results |-> Append(s.results, IF Len(data) < 3 THEN None ELSE data)]

(* _run_forever: the results of a bundle are published if every point has  *)
(* one. A device that is not in the data raises, which ends the process.   *)
RunForever(n) ==
  LET p == procs[n] IN
  /\ p.state = "running" /\ p.queue # <<>>
  /\ IF \E k \in DOMAIN Head(p.queue) : ~Fits(p.conf, Head(p.queue)[k].scan)
     THEN procs' = [procs EXCEPT ![n].state = "raised"]
     ELSE LET s == FoldLeft(ProcessPoint, [scan |-> p.scan, data |-> p.data, results |-> <<>>], Head(p.queue))
          IN procs' = [procs EXCEPT ![n] = [p EXCEPT
               !.queue = Tail(@), !.scan = s.scan, !.data = s.data,
               !.fits = IF None \in Range(s.results) THEN @ ELSE @ \cup Range(s.results)]]
  /\ UNCHANGED <<clients, stored, chan, server, stream, log>>

-----------------------------------------------------------------------------
Init ==
  \E program \in Programs :
    /\ todo = program.ops /\ stored = program.stored /\ stream = program.stream /\ again = program.again
    /\ own = [m \in Managers |-> [id \in {} |-> "none"]]
    /\ chan = <<>> /\ dap = "off" /\ workers = [id \in {} |-> "none"] /\ procs = <<>>
    /\ log = [stale |-> FALSE, missed |-> FALSE,
              wanted |-> IF program.stored = <<>> THEN [id \in {} |-> "none"] ELSE program.stored[1]]

Dap == ReadConfig \/ StartConfigConsumer \/ SetConfig
Process(n) == n \in DOMAIN procs /\ (Run(n) \/ RunForever(n))
Next == (\E m \in Managers : Open(m) \/ Change(m)) \/ Dap \/ StartAgain \/ Emit \/ \E n \in DOMAIN procs : Process(n)

MaxProcesses == 6
Spec == Init /\ [][Next]_vars /\ WF_vars(Dap) /\ \A n \in 1..MaxProcesses : WF_vars(Process(n))

-----------------------------------------------------------------------------
TypeOK ==
  /\ dap \in {"off", "applied", "subscribed"}
  /\ Len(stored) <= 1 /\ Len(procs) <= MaxProcesses
  /\ \A n \in DOMAIN procs :
       /\ procs[n].state \in {"starting", "running", "raised", "terminated"}
       /\ Len(procs[n].data) <= Len(FlattenSeq(procs[n].heard))
  /\ \A id \in Ids(workers) : procs[workers[id].proc].id = id

Runs(id) == IF id \in Ids(workers) THEN {procs[workers[id].proc]} ELSE {}

RunningAreWanted ==
  ~log.stale /\ ~log.missed =>
    /\ Ids(workers) \subseteq Ids(log.wanted)
    /\ \A id \in Ids(log.wanted) : log.wanted[id] \in Known =>
         \E p \in Runs(id) :
           /\ p.conf = log.wanted[id] /\ p.state # "terminated"
           /\ p.state = "raised" => \/ p.conf \in Broken
                                    \/ \E k \in DOMAIN p.queue : \E j \in DOMAIN p.queue[k] :
                                         ~Fits(p.conf, p.queue[k][j].scan)

NoOrphans == \A n \in DOMAIN procs : procs[n].state \in {"starting", "running"} =>
               \E id \in Ids(workers) : workers[id].proc = n

Settled ==
  /\ dap = "subscribed" /\ chan = <<>>
  /\ \A n \in DOMAIN procs : procs[n].state = "running" => procs[n].queue = <<>>
(* The DAP server gets to every change of the list, and the processes to   *)
(* all of the data (worker_manager.py:84, stream_processor.py:102). Then   *)
(* the DAP server runs what the clients asked for: a process for each      *)
(* worker, with the latest configuration, and no other; every process that *)
(* runs is known to the manager, so that it can still be terminated, and   *)
(* no two fit for the same worker (worker_manager.py:113). A process is    *)
(* down only if its class refused the configuration, or a scan did not     *)
(* have its devices. Not so if a client wrote from a list that others had  *)
(* changed (bec_worker_manager.py:145), a change was written between the   *)
(* first reading of the list and the subscription (worker_manager.py:31),  *)
(* or the class of a worker is not known (worker_manager.py:98).           *)
WantedAreRun == []NoOrphans /\ <>[](Settled /\ RunningAreWanted)

FitsOneScan ==
  \A n \in DOMAIN procs : \A f \in procs[n].fits : \A k \in 2..Len(f) :
    /\ f[k].scan = f[1].scan /\ f[k - 1].n < f[k].n
    /\ \A h \in Range(FlattenSeq(procs[n].heard)) :
         h.scan = f[1].scan /\ h.n \in f[k - 1].n..f[k].n => h \in {f[k - 1], f[k]} \/ ~h.number

Points(p, scan) == SelectSeq(FlattenSeq(p.heard), LAMBDA x : x.scan = scan /\ x.number)
HasNoFit(p, x) == ~x.number \/ \E k \in DOMAIN Points(p, x.scan) : k < 3 /\ Points(p, x.scan)[k] = x
FitIsComplete ==
  \A n \in DOMAIN procs : LET p == procs[n] IN
    p.state = "running" /\ p.queue = <<>> =>
      \A scan \in {x.scan : x \in Range(FlattenSeq(p.heard))} :
        Len(Points(p, scan)) >= 3 =>
          \/ Points(p, scan) \in p.fits
          \/ \E k \in DOMAIN p.heard : /\ Last(Points(p, scan)) \in Range(p.heard[k])
                                       /\ \E x \in Range(p.heard[k]) : HasNoFit(p, x)

(* A fit is made from points of one scan, in their order and without a gap *)
(* but for those that are no numbers (stream_processor.py:224). When a     *)
(* process has gone through all that it heard, there is a fit with every   *)
(* point of each scan that has three; unless the last bundle of the scan   *)
(* has a point without a fit too: one of the first two of a scan, or one   *)
(* that is no number. Such a bundle is not published at all                *)
(* (stream_processor.py:108).                                              *)
FitsAreRight == FitsOneScan /\ FitIsComplete
=============================================================================
