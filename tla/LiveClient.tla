----------------------------- MODULE LiveClient -----------------------------
(***************************************************************************)
(* A client that runs scans: its storages (bec_lib/request_items.py,       *)
(* queue_items.py, scan_items.py), each filled by a thread of its own, the *)
(* alarm and callback handlers, and the live updates that show a scan      *)
(* while it runs and tell its user how it ended (bec_client). The scan     *)
(* server is reduced to what it publishes. Other clients use it too.       *)
(*                                                                         *)
(* A queue item holds one request. The storages are not full.              *)
(***************************************************************************)
EXTENDS Integers, FiniteSets, Sequences, SequencesExt, Functions, TLC

CONSTANT
  Programs   (* What happens: [req: the requests, each with its kind, the number of its   *)
             (* points, and its fate; own: those that this client makes one after the     *)
             (* other; others: those of other clients; queued: those that were made       *)
             (* before this client was started; acts: what other clients do to the queue; *)
             (* signals: how often the user presses Ctrl-C, and resumes; reads: the       *)
             (* callback looks at the scan storage].                                      *)

VARIABLES
  prog,    (* the program, with what is left of it                          *)
  ch,      (* messages on their way: one channel per topic and receiver     *)
  srv,     (* the scan server and what it keeps in redis                    *)
  st,      (* RequestStorage, QueueStorage, ScanStorage, the alarm stack    *)
  cbs,     (* the sync callback of each request: pending and seen events    *)
  seg,     (* the point in add_scan_segment, which holds the storage's lock *)
  dead,    (* consumer threads that have ended with an exception            *)
  main,    (* the main thread                                               *)
  live,    (* IPythonLiveUpdates                                            *)
  sig,     (* SigintHandler                                                 *)
  log      (* what happened, for the properties                             *)

vars == <<prog, ch, srv, st, cbs, seg, dead, main, live, sig, log>>

-----------------------------------------------------------------------------
None == 0
Requests == DOMAIN prog.req
Kind(r) == prog.req[r].kind
Points(r) == prog.req[r].n
IsScan(r) == Kind(r) \in {"scan", "fly"}
Send(c, t, m) == [c EXCEPT ![t] = Append(@, m)]
Received(t) == [ch EXCEPT ![t] = Tail(@)]

-----------------------------------------------------------------------------
(* The scan server, as its clients see it.                                 *)

SrvKeeps == UNCHANGED <<prog, st, cbs, seg, dead, main, live, sig, log>>
\* send_queue_status: what it says of an item, clients also read from redis when they need it;
\* the message itself only tells them of the items they do not know.
Publish(s, c) ==
  LET new == Range(s.q) \ s.told
  IN  srv' = [s EXCEPT !.told = @ \cup new] /\ ch' = IF new = {} THEN c ELSE Send(c, "queue", new)
Status(c, r, status) == IF IsScan(r) THEN Send(c, "status", [r |-> r, status |-> status]) ELSE c
SetInfo(f, v) == [srv EXCEPT !.info[Head(srv.q)][f] = v]
Head1 == Head(srv.q)
Running == srv.q # <<>> /\ srv.info[Head1].status \in {"RUNNING", "DEFERRED_PAUSE"}

Decide ==
  /\ ch.server # <<>> /\ SrvKeeps
  /\ LET r == Head(ch.server)
         ok == prog.req[r].fate # "rejected"
         answered == Send(Received("server"), "response", [r |-> r, ok |-> ok])
     IN  IF ok THEN Publish([srv EXCEPT !.q = Append(@, r), !.info[r].status = "PENDING"], answered)
         ELSE srv' = srv /\ ch' = answered
StartItem ==
  /\ srv.q # <<>> /\ ~srv.paused /\ srv.cleared = None /\ srv.info[Head1].status = "PENDING" /\ SrvKeeps
  /\ Publish(SetInfo("status", "RUNNING"), ch)
\* The report instruction is published before the scan is opened.
Report ==
  /\ Running /\ srv.step = 0 /\ SrvKeeps
  /\ Publish([SetInfo("instr", Kind(Head1) # "mv") EXCEPT !.step = 1], Status(ch, Head1, "open"))
\* A point of a scan; the progress of a flyer; a move, in which the request ID of the
\* device's readings changes before the movement is done.
Measure ==
  /\ Running /\ srv.step \in 1..Points(Head1) /\ SrvKeeps
  /\ LET s == [srv EXCEPT !.step = @ + 1] IN
     CASE Kind(Head1) = "scan" -> srv' = s /\ ch' = Send(ch, "segment", [r |-> Head1, point |-> srv.step])
       [] Kind(Head1) = "fly" -> srv' = [s EXCEPT !.progress = <<Head1, srv.step>>] /\ UNCHANGED ch
       [] OTHER -> /\ srv' = IF srv.step < Points(Head1) THEN [s EXCEPT !.readback = Head1]
                             ELSE [s EXCEPT !.reqStatus = Head1, !.moved = @ \cup {Head1}]
                   /\ UNCHANGED ch
Complete ==
  /\ Running /\ srv.step = Points(Head1) + 1 /\ prog.req[Head1].fate = "completes" /\ SrvKeeps
  /\ Publish(SetInfo("status", "COMPLETED"), Status(ch, Head1, "closed"))
Fail ==
  /\ Running /\ srv.step > 0 /\ prog.req[Head1].fate = "fails" /\ SrvKeeps
  /\ Publish(SetInfo("status", "STOPPED"), Status(Send(ch, "alarm", Head1), Head1, "aborted"))
\* The item goes to the history; a paused queue that is empty runs again.
Leave ==
  /\ srv.q # <<>> /\ srv.info[Head1].status \in {"COMPLETED", "STOPPED"} /\ SrvKeeps
  /\ Publish([srv EXCEPT !.q = Tail(@), !.hist = @ \cup {Head1}, !.step = 0, !.paused = @ /\ Len(srv.q) > 1], ch)
\* An item that was cleared while it ran is stopped, and goes to the history only.
LeaveCleared ==
  /\ srv.cleared # None /\ SrvKeeps /\ ch' = Status(ch, srv.cleared, "aborted")
  /\ srv' = [srv EXCEPT !.hist = @ \cup {srv.cleared}, !.info[srv.cleared].status = "STOPPED", !.cleared = None, !.step = 0]
Stop(c) ==
  IF Running \/ (srv.q # <<>> /\ srv.info[Head1].status = "PAUSED")
  THEN Publish([SetInfo("status", "STOPPED") EXCEPT !.paused = TRUE], Status(c, Head1, "aborted"))
  ELSE srv' = srv /\ ch' = c
Pause(c) ==
  IF Running THEN Publish([SetInfo("status", "PAUSED") EXCEPT !.paused = TRUE], c)
  ELSE srv' = srv /\ ch' = c
Deferred(c) == IF Running THEN Publish([SetInfo("status", "DEFERRED_PAUSE") EXCEPT !.paused = TRUE], c)
               ELSE srv' = srv /\ ch' = c
Checkpoint == srv.q # <<>> /\ srv.info[Head1].status = "DEFERRED_PAUSE" /\ srv.step > 0 /\ Pause(ch) /\ SrvKeeps
Continue(c) ==
  IF srv.q # <<>> /\ srv.info[Head1].status \in {"PAUSED", "DEFERRED_PAUSE"}
  THEN Publish([SetInfo("status", "RUNNING") EXCEPT !.paused = FALSE], c)
  ELSE Publish([srv EXCEPT !.paused = FALSE], c)
Clear(c) ==
  LET s == [srv EXCEPT !.q = <<>>, !.paused = FALSE]
  IN  IF Running THEN Publish([s EXCEPT !.cleared = Head1], c) ELSE Publish([s EXCEPT !.step = 0], c)

\* What this client, or another one, asks for.
Act(a, c) ==
  CASE a = "deferred" -> Deferred(c) [] a = "pause" -> Pause(c) [] a = "continue" -> Continue(c)
    [] a = "abort" -> Stop(c) [] a = "clear" -> srv.cleared = None /\ Clear(c)
Modify == ch.mods # <<>> /\ Act(Head(ch.mods), Received("mods")) /\ SrvKeeps
OthersAct ==
  \E a \in prog.acts:
    /\ srv.q # <<>> /\ Act(a, ch) /\ prog' = [prog EXCEPT !.acts = @ \ {a}]
    /\ UNCHANGED <<st, cbs, seg, dead, main, live, sig, log>>
OthersRequest ==
  /\ prog.others # {}
  /\ \E r \in prog.others:
       /\ ch' = Send(Send(ch, "server", r), "request", r)
       /\ prog' = [prog EXCEPT !.others = @ \ {r}]
  /\ UNCHANGED <<srv, st, cbs, seg, dead, main, live, sig, log>>
Server == Decide \/ StartItem \/ Report \/ Measure \/ Complete \/ Fail \/ Leave \/ LeaveCleared \/ Modify

-----------------------------------------------------------------------------
(* The client's consumers.                                                 *)

CliKeeps == UNCHANGED <<prog, srv, main, live, sig, log>>
Alive(c) == c \notin dead
StorageFree == seg = None
CallbacksFree(r) == ~(main.pc = "callback" /\ main.r = r)

\* An exception ends the consumer and interrupts the main thread, as Ctrl-C does.
Dies(c) == dead' = dead \cup {c} /\ sig' = [sig EXCEPT !.pending = TRUE]

AddRequest(r) == IF r \in Range(st.reqs) THEN st.reqs ELSE Append(st.reqs, r)
OnRequest ==
  /\ ch.request # <<>> /\ st' = [st EXCEPT !.reqs = AddRequest(Head(ch.request))] /\ ch' = Received("request")
  /\ CliKeeps /\ UNCHANGED <<cbs, seg, dead>>
OnResponse ==
  /\ ch.response # <<>> /\ ch' = Received("response")
  /\ LET m == Head(ch.response) IN
       st' = [st EXCEPT !.reqs = AddRequest(m.r), !.accepted[m.r] = IF m.ok THEN "yes" ELSE "no"]
  /\ CliKeeps /\ UNCHANGED <<cbs, seg, dead>>

NewScan == [closed |-> FALSE, num |-> 0, data |-> 0]
\* QueueStorage.update_with_status, then ScanStorage.update_with_queue_status.
OnQueue ==
  /\ ch.queue # <<>> /\ StorageFree /\ ch' = Received("queue")
  /\ st' = [st EXCEPT !.items = @ \cup Head(ch.queue),
                      !.scans = @ @@ [r \in {r \in Head(ch.queue): IsScan(r)} |-> NewScan]]
  /\ CliKeeps /\ UNCHANGED <<cbs, seg, dead>>

\* update_with_scan_status waits for the scan item; emit_status needs the request.
OnStatus ==
  /\ ch.status # <<>> /\ Alive("status") /\ StorageFree /\ ch' = Received("status")
  /\ LET m == Head(ch.status) IN
       /\ m.r \in DOMAIN st.scans /\ CallbacksFree(m.r)
       /\ st' = [st EXCEPT !.scans[m.r] =
                   [@ EXCEPT !.num = Points(m.r), !.closed = m.status = "closed"]]
       /\ IF m.r \in Range(st.reqs) THEN UNCHANGED <<dead, sig>> ELSE Dies("status")
  /\ UNCHANGED <<prog, srv, main, live, log, cbs, seg>>

\* add_scan_segment: the point is stored, then the callbacks are run, under the lock.
OnSegment ==
  /\ ch.segment # <<>> /\ Alive("segment") /\ StorageFree
  /\ LET m == Head(ch.segment) IN
       /\ m.r \in DOMAIN st.scans /\ seg' = m.r
       /\ st' = [st EXCEPT !.scans[m.r].data = m.point]
  /\ CliKeeps /\ UNCHANGED <<ch, cbs, dead>>
\* Mutant of EmitData: a callback's events are queued at the wrong end.
EmitDataInFront ==
  /\ seg # None /\ CallbacksFree(seg) /\ seg' = None /\ ch' = Received("segment")
  /\ IF seg \in Range(st.reqs)
       THEN /\ cbs' = [cbs EXCEPT ![seg].pending = IF cbs[seg].on THEN <<Head(ch.segment).point>> \o @ ELSE @]
            /\ UNCHANGED <<dead, sig>>
       ELSE Dies("segment") /\ UNCHANGED cbs
  /\ UNCHANGED <<prog, srv, st, main, live, log>>
EmitData ==
  /\ seg # None /\ CallbacksFree(seg) /\ seg' = None /\ ch' = Received("segment")
  /\ IF seg \in Range(st.reqs)
       THEN /\ cbs' = [cbs EXCEPT ![seg].pending = IF cbs[seg].on THEN Append(@, Head(ch.segment).point) ELSE @]
            /\ UNCHANGED <<dead, sig>>
       ELSE Dies("segment") /\ UNCHANGED cbs
  /\ UNCHANGED <<prog, srv, st, main, live, log>>

\* AlarmHandler.add_alarm
OnAlarm ==
  /\ ch.alarm # <<>> /\ ch' = Received("alarm")
  /\ st' = [st EXCEPT !.alarms = <<Head(ch.alarm)>> \o @]
  /\ log' = IF main.pc # "prompt" THEN [log EXCEPT !.late = @ \cup {<<main.r, Head(ch.alarm)>>}] ELSE log
  /\ UNCHANGED <<prog, srv, main, live, sig, cbs, seg, dead>>

-----------------------------------------------------------------------------
(* What the main thread sees.                                              *)

\* QueueItem._update_with_buffer: from the queue or the history in redis; an item that is in
\* neither is shown as it was last.
Info(r) == srv.info[r]
HasItem(r) == r \in st.items
HasPosition(r) == r \in Range(srv.q)
Position(r) == CHOOSE i \in DOMAIN srv.q: srv.q[i] = r

\* RequestItem.decision_pending
ScanSeen(r) == r \in DOMAIN st.scans
DecisionPending(r) == st.accepted[r] = "unknown" /\ ~ScanSeen(r)
Rejected(r) == st.accepted[r] = "no"

MainKeeps == UNCHANGED <<ch, srv, seg, dead>>
Unhandled == st.alarms # <<>>
Exits == [sig EXCEPT !.handler = IF sig.released THEN @ ELSE sig.original, !.released = TRUE]
Enters == [sig EXCEPT !.original = sig.handler, !.handler = "bec"]
Prompt == [pc |-> "prompt", r |-> None, q |-> None, point |-> 0]
InReport == main.pc \notin {"prompt", "register", "wait"}
Goto(pc) == main' = [main EXCEPT !.pc = pc]
Ended(why) ==
  /\ main' = Prompt /\ log' = [log EXCEPT !.how[main.r] = why]
  /\ sig' = IF InReport THEN Exits ELSE sig
\* An exception other than ScanInterruption: live updates are not reset.
Raise(why) == Ended(why) /\ UNCHANGED <<prog, st, cbs, live>>
\* check_alarms, before anything else. The alarm is handled when it is printed.
RaiseAlarm ==
  /\ Unhandled /\ Ended(<<"alarm", Head(st.alarms)>>)
  /\ st' = [st EXCEPT !.alarms = Tail(@)] /\ UNCHANGED <<prog, cbs, live>>
Quietly == UNCHANGED <<prog, st, cbs, live, sig, log>>

\* Mutant of ClearAlarms: a request leaves the alarms of earlier ones on the stack.
KeepAlarms == st
\* ScanObject._run: alarms are cleared and the request is sent; then it is stored with its
\* callback, and, unless its report is hidden, live updates follow it.
ClearAlarms == [st EXCEPT !.alarms = <<>>]
Run ==
  /\ main.pc = "prompt" /\ prog.own # <<>>
  /\ ch' = Send(ch, "server", Head(prog.own)) /\ st' = ClearAlarms
  /\ main' = [pc |-> "register", r |-> Head(prog.own), q |-> None, point |-> 0]
  /\ prog' = [prog EXCEPT !.own = Tail(@)]
  /\ UNCHANGED <<srv, seg, dead, cbs, live, sig, log>>
Register ==
  /\ main.pc = "register" /\ MainKeeps
  /\ st' = [st EXCEPT !.reqs = AddRequest(main.r)] /\ cbs' = [cbs EXCEPT ![main.r].on = TRUE]
  /\ IF prog.req[main.r].wait THEN Goto("wait") /\ UNCHANGED <<sig, log>>
     ELSE Goto("decide") /\ sig' = Enters /\ log' = [log EXCEPT !.runs = @ + 1]
  /\ UNCHANGED <<prog, live>>
\* %resume
Resume ==
  /\ main.pc = "prompt" /\ live.interrupted # None /\ prog.resumes > 0
  /\ ch' = Send(ch, "mods", "continue") /\ sig' = Enters
  /\ main' = [pc |-> "decide", r |-> live.interrupted, q |-> None, point |-> 0]
  /\ log' = [log EXCEPT !.runs = @ + 1] /\ prog' = [prog EXCEPT !.resumes = @ - 1]
  /\ UNCHANGED <<srv, seg, dead, cbs, live, st>>

-----------------------------------------------------------------------------
(* IPythonLiveUpdates.process_request                                      *)

\* ScanRequestMixin.wait
AwaitDecision ==
  /\ main.pc = "decide" /\ StorageFree /\ ~DecisionPending(main.r) /\ MainKeeps
  /\ CASE Unhandled -> RaiseAlarm
       [] ~Unhandled /\ Rejected(main.r) -> Raise(<<"rejected">>)
       [] OTHER -> HasItem(main.r) /\ Goto("last") /\ Quietly

\* The queue item of the last request in the storage, which is looked up twice.
AwaitQueue == main.pc = "last" /\ MainKeeps /\ HasItem(Last(st.reqs)) /\ Goto("queue") /\ Quietly
GetQueue ==
  /\ main.pc = "queue" /\ MainKeeps
  /\ IF HasItem(Last(st.reqs)) THEN main' = [main EXCEPT !.pc = "loop", !.q = Last(st.reqs)] /\ Quietly
     ELSE Raise(<<"none">>)

\* The request block of this request in the item. It has a report instruction if the item
\* has got so far.
HasBlock == main.q = main.r
Left == IF Info(main.q).instr THEN 1 - live.processed ELSE 0
Show == Goto(CASE Kind(main.r) = "umv" -> "rid" [] OTHER -> "scan")
Completed(status) == status = "COMPLETED"
ProcessQueue ==
  /\ main.pc = "loop" /\ MainKeeps
  /\ LET status == Info(main.q).status IN
     IF Completed(status) THEN Goto("after") /\ Quietly
     ELSE \/ RaiseAlarm
          \/ /\ ~Unhandled /\ HasPosition(main.q)
             /\ IF ~HasBlock THEN Raise(<<"index">>) ELSE Left > 0 /\ Show /\ Quietly
\* Mutant of AfterQueue: the count of what was shown is not reset.
AfterQueueCounts ==
  /\ main.pc = "after" /\ MainKeeps
  /\ CASE ~HasBlock -> Raise(<<"index">>)
       [] HasBlock /\ Left > 0 -> Show /\ Quietly
       [] OTHER -> /\ Ended(<<"done">>) /\ live' = [live EXCEPT !.interrupted = None]
                   /\ UNCHANGED <<prog, st, cbs>>
\* After the loop, what is left of the report is shown; then live updates are reset.
AfterQueue ==
  /\ main.pc = "after" /\ MainKeeps
  /\ CASE ~HasBlock -> Raise(<<"index">>)
       [] HasBlock /\ Left > 0 -> Show /\ Quietly
       [] OTHER -> /\ Ended(<<"done">>) /\ live' = [processed |-> 0, interrupted |-> None]
                   /\ UNCHANGED <<prog, st, cbs>>
Shown(points) ==
  /\ live' = [live EXCEPT !.processed = @ + 1]
  /\ log' = [log EXCEPT !.shown[main.r] = points]
  /\ Goto("loop") /\ UNCHANGED <<prog, st, cbs, sig>>

-----------------------------------------------------------------------------
(* LiveUpdatesTable, LiveUpdatesScanProgress                               *)

\* update_scan_item
AwaitScanItem == main.pc = "scan" /\ StorageFree /\ MainKeeps /\ ScanSeen(main.r) /\ Goto("start") /\ Quietly
\* Mutant of AwaitStart: a scan that is over already is not recognised.
AwaitStartInQueue ==
  /\ main.pc = "start" /\ MainKeeps
  /\ CASE Unhandled -> RaiseAlarm
       [] OTHER -> HasPosition(main.r) /\ Position(main.r) = 1 /\ Goto("points") /\ Quietly
\* wait_for_scan_to_start
AwaitStart ==
  /\ main.pc = "start" /\ MainKeeps
  /\ CASE Unhandled -> RaiseAlarm
       [] OTHER -> /\ st.scans[main.r].closed \/ (HasPosition(main.r) /\ Position(main.r) = 1)
                   /\ Goto("points") /\ Quietly
\* _run_update: the next point, and then the callbacks.
AllShown == st.scans[main.r].num # 0 /\ main.point = st.scans[main.r].num
ShowPoint ==
  /\ main.pc = "points" /\ Kind(main.r) = "scan" /\ MainKeeps
  /\ \/ RaiseAlarm
     \/ /\ ~Unhandled /\ st.scans[main.r].data > main.point
        /\ main' = [main EXCEPT !.pc = "poll", !.point = @ + 1] /\ Quietly
     \/ ~Unhandled /\ AllShown /\ Goto("finish") /\ Quietly
NextPoint == Goto(IF AllShown THEN "finish" ELSE "points")
PollCallbacks ==
  /\ main.pc = "poll" /\ MainKeeps
  /\ cbs' = [cbs EXCEPT ![main.r] = [@ EXCEPT !.pending = <<>>, !.seen = @ \o cbs[main.r].pending]]
  /\ IF prog.reads /\ cbs[main.r].pending # <<>> THEN Goto("callback") ELSE NextPoint
  /\ UNCHANGED <<prog, st, live, sig, log>>
\* A callback that looks at the scan storage needs its lock.
ReadInCallback == main.pc = "callback" /\ StorageFree /\ NextPoint /\ MainKeeps /\ Quietly
\* The progress of a flyer that is still the last one to have reported.
ShowProgress ==
  /\ main.pc = "points" /\ Kind(main.r) = "fly" /\ MainKeeps
  /\ \/ RaiseAlarm
     \/ /\ ~Unhandled /\ srv.progress[1] = main.r /\ srv.progress[2] > main.point
        /\ main' = [main EXCEPT !.point = srv.progress[2],
                                !.pc = IF srv.progress[2] = Points(main.r) THEN "finish" ELSE @]
        /\ Quietly
\* wait_for_scan_item_to_finish
AwaitEnd ==
  /\ main.pc = "finish" /\ MainKeeps
  /\ IF st.scans[main.r].closed /\ ~HasPosition(main.r) THEN Shown(main.point) ELSE RaiseAlarm

(* LiveUpdatesReadbackProgressbar; wait_for_RID                            *)
AwaitRID ==
  /\ main.pc = "rid" /\ MainKeeps
  /\ IF srv.readback = main.r THEN Goto("moving") /\ Quietly ELSE RaiseAlarm
AwaitMove ==
  /\ main.pc = "moving" /\ MainKeeps
  /\ \/ RaiseAlarm
     \/ ~Unhandled /\ srv.reqStatus = main.r /\ Shown(Points(main.r))

(* ScanReport.wait: _wait_move and _wait_scan.                             *)
Wait ==
  /\ main.pc = "wait" /\ MainKeeps
  /\ IF Kind(main.r) = "mv"
       THEN IF main.r \in srv.moved THEN Raise(<<"done">>) ELSE RaiseAlarm
       ELSE IF ~HasItem(main.r) THEN Raise(<<"timeout">>)
       ELSE \/ Info(main.r).status = "COMPLETED" /\ Raise(<<"done">>)
            \/ Info(main.r).status = "STOPPED" /\ Raise(<<"aborted">>)

-----------------------------------------------------------------------------
(* SigintHandler.handle_signals, for Ctrl-C and for a consumer that ended. *)

Interrupt(why, interrupted) ==
  IF main.pc = "prompt" THEN UNCHANGED <<main, log, live>>
  ELSE /\ main' = Prompt /\ log' = [log EXCEPT !.how[main.r] = <<why>>]
       /\ live' = IF interrupted /\ InReport THEN [live EXCEPT !.interrupted = main.r] ELSE live
Handle ==
  LET s == [sig EXCEPT !.pending = FALSE]
      left == IF InReport THEN [Exits EXCEPT !.pending = FALSE] ELSE s
      status == srv.info[Head1].status
  IN IF sig.handler # "bec" \/ srv.q = <<>> THEN Interrupt("keyboard", FALSE) /\ sig' = left
     ELSE IF status \notin {"RUNNING", "DEFERRED_PAUSE"} THEN Interrupt("keyboard", FALSE) /\ sig' = left
     ELSE \/ /\ IsScan(Head1) /\ sig' = [s EXCEPT !.again = TRUE, !.asks = Append(@, "deferred")]
             /\ UNCHANGED <<main, log, live>>
          \/ /\ ~IsScan(Head1) \/ sig.again
             /\ Interrupt("interrupted", TRUE)
             /\ sig' = [left EXCEPT !.asks = Append(@, "pause")]
Sigint ==
  /\ Handle /\ UNCHANGED <<st, cbs, ch, srv, seg, dead>>
  /\ \/ sig.pending /\ UNCHANGED prog
     \/ ~sig.pending /\ prog.signals > 0 /\ prog' = [prog EXCEPT !.signals = @ - 1]

\* request_scan_interruption, in a thread of its own: for whatever is the current item then,
\* an abort if that is not a scan.
RequestInterruption ==
  /\ sig.asks # <<>> /\ sig' = [sig EXCEPT !.asks = Tail(@)]
  /\ ch' = CASE srv.q = <<>> -> ch
             [] srv.q # <<>> /\ ~IsScan(Head1) -> Send(ch, "mods", "abort")
             [] OTHER -> Send(ch, "mods", Head(sig.asks))
  /\ UNCHANGED <<prog, srv, st, cbs, seg, dead, main, live, log>>

-----------------------------------------------------------------------------
NewInfo == [status |-> "NONE", instr |-> FALSE]
Init ==
  /\ \E p \in DOMAIN Programs: prog = Programs[p]
  /\ ch = [server |-> <<>>, request |-> <<>>, response |-> <<>>, queue |-> <<>>, status |-> <<>>,
           segment |-> <<>>, alarm |-> <<>>, mods |-> <<>>]
  /\ srv = [q |-> prog.queued, info |-> [r \in Requests |-> IF r \in Range(prog.queued)
              THEN [NewInfo EXCEPT !.status = "PENDING"] ELSE NewInfo],
            told |-> {}, hist |-> {}, paused |-> FALSE, step |-> 0, cleared |-> None,
            moved |-> {}, readback |-> None, reqStatus |-> None, progress |-> <<None, 0>>]
  /\ st = [reqs |-> <<>>, accepted |-> [r \in Requests |-> "unknown"], items |-> {}, scans |-> <<>>, alarms |-> <<>>]
  /\ cbs = [r \in Requests |-> [on |-> FALSE, pending |-> <<>>, seen |-> <<>>]]
  /\ seg = None /\ dead = {} /\ main = Prompt /\ live = [processed |-> 0, interrupted |-> None]
  /\ sig = [handler |-> "python", original |-> "python", released |-> FALSE, again |-> FALSE, pending |-> FALSE, asks |-> <<>>]
  /\ log = [how |-> [r \in Requests |-> <<"">>], shown |-> [r \in Requests |-> 0], late |-> {}, runs |-> 0]

Consumers == OnRequest \/ OnResponse \/ OnQueue \/ OnStatus \/ OnSegment \/ EmitData \/ OnAlarm
LiveUpdates ==
  Register \/ AwaitDecision \/ AwaitQueue \/ GetQueue \/ ProcessQueue \/ AfterQueue \/ AwaitScanItem \/ AwaitStart \/ ShowPoint
  \/ PollCallbacks \/ ReadInCallback \/ ShowProgress \/ AwaitEnd \/ AwaitRID \/ AwaitMove \/ Wait
Next == Server \/ Checkpoint \/ OthersAct \/ OthersRequest \/ Consumers \/ Run \/ Resume \/ LiveUpdates \/ Sigint \/ RequestInterruption
Spec ==
  /\ Init /\ [][Next]_vars
  /\ WF_vars(Server) /\ WF_vars(OnRequest) /\ WF_vars(OnResponse) /\ WF_vars(OnQueue) /\ WF_vars(OnStatus)
  /\ WF_vars(OnSegment \/ EmitData) /\ WF_vars(OnAlarm) /\ WF_vars(LiveUpdates) /\ WF_vars(Sigint /\ sig.pending)

-----------------------------------------------------------------------------
(* Properties                                                              *)

Failed(r) == prog.req[r].fate = "fails"
DidEnd(r, why) == log.how[r][1] = why

\* The storages know of requests that exist, the report that runs is that of a request which was
\* made, and what it shows is within the scan (request_items.py:104, ipython_live_updates.py:130).
TypeOK ==
  /\ IsInjective(st.reqs) /\ Range(st.reqs) \subseteq Requests
  /\ st.items \subseteq Requests /\ DOMAIN st.scans \subseteq {r \in Requests: IsScan(r)}
  /\ main.r \in Requests \cup {None} /\ (main.pc = "prompt" <=> main.r = None)
  /\ main.r # None => main.point \in 0..Points(main.r)
  /\ live.processed \in 0..1 /\ sig.handler \in {"python", "bec"} /\ dead \subseteq {"status", "segment"}

\* What a user is told of a request is what happened to it: the report ends normally only when
\* the request is completed; it ends with an alarm of that request, or of one whose alarm came
\* while the report ran; and with a missing queue item only because another client made a
\* request meanwhile, which live updates take for their own (ipython_live_updates.py:140-156,
\* alarm_handler.py:106, scans.py:36).
ToldWhatHappened ==
  \A r \in Requests:
    /\ DidEnd(r, "done") => srv.info[r].status = "COMPLETED" \/ r \in srv.moved
    /\ DidEnd(r, "rejected") => prog.req[r].fate = "rejected"
    /\ DidEnd(r, "aborted") => srv.info[r].status = "STOPPED"
    /\ DidEnd(r, "alarm") => LET a == log.how[r][2] IN Failed(a) /\ (a = r \/ <<r, a>> \in log.late)
    /\ DidEnd(r, "index") \/ DidEnd(r, "none") => \E i, j \in DOMAIN st.reqs: i < j /\ st.reqs[i] = r

\* A report that ends normally has shown every point of its scan, unless an earlier report of
\* this client ended with an exception and left its count of what it had shown behind
\* (ipython_live_updates.py:49, 211).
ShownCompletely ==
  \A r \in Requests:
    DidEnd(r, "done") /\ ~prog.req[r].wait =>
      log.shown[r] = Points(r) \/ \E e \in Requests: e < r /\ log.how[e][1] \notin {"", "done"}

\* A sync callback sees the points of its scan in their order, each once, from the first that
\* came after it was registered; when the report has ended normally at most the last one is
\* still pending (callback_handler.py:32, 138-152, live_table.py:185, scan_items.py:217).
CallbackSeesAll ==
  \A r \in Requests:
    LET events == cbs[r].seen \o cbs[r].pending
    IN  /\ \A i \in DOMAIN events: events[i] = events[1] + i - 1
        /\ DidEnd(r, "done") /\ log.shown[r] = Points(r) => Len(cbs[r].pending) <= 1

HandlerRestored == main.pc = "prompt" /\ log.runs <= 1 => sig.handler = "python"

(* What keeps a report from ending.                                        *)
Held == srv.paused /\ HasPosition(main.r)
Stopped == main.pc # "register" /\ srv.info[main.r].status = "STOPPED"
Cleared == HasItem(main.r) /\ ~HasPosition(main.r) /\ main.r \notin srv.hist
LockCycle == main.pc = "callback" /\ seg = main.r
Overwritten ==
  /\ main.r \in srv.hist
  /\ \/ main.pc = "points" /\ srv.progress[1] # main.r
     \/ main.pc = "rid" /\ srv.readback # main.r
     \/ main.pc = "moving" /\ srv.reqStatus # main.r
Mistaken ==
  \/ main.pc = "last" /\ Last(st.reqs) # main.r
  \/ main.pc = "loop" /\ main.q # main.r
\* A report ends, unless the queue is held by someone, the request was stopped without an alarm
\* or cleared, a consumer has died, the callback and the consumer wait for each other, the next
\* request's readings have replaced those that the report waits for, or it follows another
\* client's request (ipython_live_updates.py:141-149, live_table.py:85, move_device.py:35-111,
\* scan_progress.py:36, scan_items.py:218). At the prompt Ctrl-C is python's own again, for as
\* long as there was one report only: the handler remembers that it was released
\* (signals.py:41-70).
ReportsEnd ==
  /\ []HandlerRestored
  /\ []<>(main.pc = "prompt" \/ Held \/ Stopped \/ Cleared \/ dead # {} \/ LockCycle \/ Overwritten \/ Mistaken)
=============================================================================
