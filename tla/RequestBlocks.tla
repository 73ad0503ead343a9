---------------------------- MODULE RequestBlocks ----------------------------
(***************************************************************************)
(* What becomes of a client's requests: the contexts of bec_lib/scans.py   *)
(* mark them as members of a scan definition, a group or a dataset, the    *)
(* scan guard accepts or rejects them, the queue manager puts them into    *)
(* items, and a worker for each queue takes the request blocks of its      *)
(* items one by one and counts the scans.                                  *)
(*                                                                         *)
(* What an interruption does to a queue is in ScanQueue and what a block   *)
(* does in ScanExecution; here a block is opened and closed or fails.      *)
(***************************************************************************)
EXTENDS Integers, FiniteSets, Sequences, SequencesExt

CONSTANTS
  Queues,        (* Names of scan queues.                                   *)
  Available,     (* Request types that the scan manager has published.      *)
  Kinds, Devices,  (* Request types and devices that a client may name.     *)
  Disabled,      (* Devices that are not enabled.                           *)
  Clients,       (* Sequence of client programs: sequences of steps.        *)
  MaxRestarts    (* Bound: restarts.                                        *)

(* What a client does next: it enters or leaves a context, or sends a      *)
(* request. The requests of the contexts go to the first queue.            *)
Contexts == {"enter scan_def", "exit scan_def", "enter scan_group", "exit scan_group",
             "enter dataset_id_on_hold", "exit dataset_id_on_hold"}
OfContexts == {"open_scan_def", "close_scan_def", "close_scan_group"}
Steps == [do : Contexts, live : BOOLEAN] \cup
         [do : {"request"}, kind : Kinds \ OfContexts, dev : Devices, queue : Queues, live : BOOLEAN, foreign : BOOLEAN]
ASSUME NamesAssumption == "primary" \in Queues /\ "" \in Devices
ASSUME ClientsAssumption == \A p \in DOMAIN Clients : Clients[p] \in Seq(Steps)

VARIABLES
  steps,         (* what the client has still to do                         *)
  context,       (* Scans._scan_def_id, _scan_group, _dataset_id_on_hold    *)
  sent,          (* scan_queue_request                                      *)
  answered,      (* RequestResponseMessages: one for each request           *)
  inserts,       (* scan_queue_insert: requests that are still to be added  *)
  inserter,      (* the consumer of inserts                                 *)
  items, queue,  (* InstructionQueueItems; ScanQueue.queue                  *)
  worker,        (* for each queue                                          *)
  scan_number, dataset_number,   (* redis                                   *)
  restarts,      (* items that are restarted: "waits", "found" or "over"      *)
  opened,        (* scans in the order in which they were opened            *)
  log            (* what else happened, for the properties                  *)

client == <<steps, context, sent>>
numbers == <<scan_number, dataset_number>>
vars == <<client, answered, inserts, inserter, items, queue, worker, numbers, restarts, opened, log>>

-----------------------------------------------------------------------------
(* The client.                                                             *)

Request(kind, dev, q) ==
  [kind |-> kind, dev |-> dev, queue |-> q, def |-> context.def, group |-> context.group,
   hold |-> context.hold]
Ask(r) == sent' = Append(sent, r)
Fresh == context.fresh + 1

\* A request of another client, which has entered no context.
Foreign(r) == [r EXCEPT !.def = 0, !.group = 0, !.hold = 0]

\* What the client does next; a request of a context goes to the first queue.
Do(step) ==
  LET own(kind) == Ask(Request(kind, "", "primary"))
      asked == Request(step.kind, step.dev, step.queue)
  IN CASE step.do = "request" -> Ask(IF step.foreign THEN Foreign(asked) ELSE asked) /\ UNCHANGED <<context, dataset_number>>
       [] step.do = "enter scan_def" ->
            /\ context' = [context EXCEPT !.def = Fresh, !.fresh = Fresh]
            /\ Ask([Request("open_scan_def", "", "primary") EXCEPT !.def = Fresh])
            /\ UNCHANGED dataset_number
       [] step.do = "exit scan_def" ->
            own("close_scan_def") /\ context' = [context EXCEPT !.def = 0] /\ UNCHANGED dataset_number
       [] step.do = "enter scan_group" ->
            context' = [context EXCEPT !.group = Fresh, !.fresh = Fresh] /\ UNCHANGED <<sent, dataset_number>>
       [] step.do = "exit scan_group" ->
            own("close_scan_group") /\ context' = [context EXCEPT !.group = 0] /\ UNCHANGED dataset_number
       [] step.do = "enter dataset_id_on_hold" ->
            /\ context' = [context EXCEPT !.calls = @ + 1, !.fresh = Fresh,
                                          !.hold = IF @ = 0 THEN Fresh ELSE @]
            /\ UNCHANGED <<sent, dataset_number>>
       [] step.do = "exit dataset_id_on_hold" ->
            /\ context' = [context EXCEPT !.calls = @ - 1, !.hold = IF context.calls = 1 THEN 0 ELSE @]
            /\ dataset_number' = dataset_number + (IF context.calls = 1 THEN 1 ELSE 0)
            /\ UNCHANGED sent

\* A client with live updates goes on when its last request is over.
Over(r) == r \in log.over
MustFollow == steps # <<>> /\ Head(steps).live /\ sent # <<>> /\ ~Over(Len(sent))
Client ==
  /\ steps # <<>> /\ ~MustFollow
  /\ steps' = Tail(steps) /\ Do(Head(steps))
  /\ log' = IF Head(steps).do = "exit dataset_id_on_hold" /\ \E r \in DOMAIN sent:
                  sent[r].hold = context.hold /\ ~Over(r)
              THEN [log EXCEPT !.left = @ \cup {context.hold}] ELSE log
  /\ UNCHANGED <<answered, inserts, inserter, items, queue, worker, scan_number, restarts, opened>>

-----------------------------------------------------------------------------
(* The scan guard.                                                         *)

IsValid(r) == r.kind \in Available /\ (r.kind = "device_rpc" => r.dev # "") /\ r.dev \notin Disabled
HandleRequest ==
  /\ Len(answered) < Len(sent)
  /\ LET r == Len(answered) + 1
         accepted == IsValid(sent[r])
     IN  /\ answered' = Append(answered, accepted)
         /\ inserts' = IF accepted THEN Append(inserts, r) ELSE inserts
         /\ log' = IF accepted THEN log ELSE [log EXCEPT !.over = @ \cup {r}]
  /\ UNCHANGED <<client, inserter, items, queue, worker, numbers, restarts, opened>>

-----------------------------------------------------------------------------
(* The queue manager: a request becomes a block of an item.                *)

NoScan == <<0, 0>>
Scans == {"scan", "bad scan", "failing scan"}    (* instances of ScanBase   *)
IsScan(r) == sent[r].kind \in Scans
ScansOf(defs, d) == {s \in defs: s.def = d}

\* RequestBlockQueue.append: the scanID of a definition is that of its first block.
ScanOf(d, defs, own) ==
  IF d # 0 /\ ScansOf(defs, d) # {} THEN (CHOOSE s \in ScansOf(defs, d): TRUE).scan ELSE own
NewBlock(i, r, defs, number) ==
  LET d == sent[r].def
      own == IF IsScan(r) \/ d # 0 THEN <<i, number>> ELSE NoScan
  IN  [req |-> r, is_scan |-> IsScan(r), number |-> 0,
       scan |-> ScanOf(d, defs, own)]
Defined(i, r, defs, block) ==
  IF sent[r].def # 0 /\ ScansOf(defs, sent[r].def) = {} THEN defs \cup {[def |-> sent[r].def, scan |-> block.scan]}
  ELSE defs

AppendBlock(item, i, r) ==
  LET block == NewBlock(i, r, item.defs, Len(item.blocks) + 1)
  IN  [item EXCEPT !.blocks = Append(@, block), !.defs = Defined(i, r, @, block)]
EmptyItem(group) ==
  [blocks |-> <<>>, next |-> 1, active |-> 0, defs |-> {}, closed |-> FALSE, group |-> group,
   status |-> "PENDING"]
NewItem(i, r) == AppendBlock(EmptyItem(sent[r].group), i, r)

QueueOf(i) == sent[items[i].blocks[1].req].queue

\* get_queue_item; a definition goes before a group.
\* Mutant of Members: requests of a definition are not looked for.
MembersOfGroup(r, q) == {i \in ToSet(q): sent[r].group # 0 /\ items[i].group = sent[r].group}
Members(r, q) ==
  IF sent[r].def # 0 THEN {i \in ToSet(q): ScansOf(items[i].defs, sent[r].def) # {}}
  ELSE IF sent[r].group # 0 THEN {i \in ToSet(q): items[i].group = sent[r].group}
  ELSE {}
\* The first one of them, if any.
IsFirst(i, found, seq) ==
  \/ found = {} /\ i = 0
  \/ \E k \in DOMAIN seq: seq[k] = i /\ i \in found /\ \A l \in 1..(k - 1): seq[l] \notin found

Receive ==
  /\ inserter.pc = "idle" /\ inserts # <<>>
  /\ inserts' = Tail(inserts)
  /\ inserter' = [pc |-> "look", req |-> Head(inserts), item |-> 0,
                  seen |-> queue[sent[Head(inserts)].queue]]
  /\ UNCHANGED <<client, answered, items, queue, worker, numbers, restarts, opened, log>>

\* The loop over the deque fails when the worker changes it meanwhile.
Look ==
  /\ inserter.pc = "look"
  /\ \E i \in ToSet(inserter.seen) \cup {0}:
       /\ IsFirst(i, Members(inserter.req, inserter.seen), inserter.seen)
       /\ inserter' = [inserter EXCEPT !.pc = "insert", !.item = i]
  /\ UNCHANGED <<client, answered, inserts, items, queue, worker, numbers, restarts, opened, log>>
LookFails ==
  /\ inserter.pc = "look" /\ (sent[inserter.req].def # 0 \/ sent[inserter.req].group # 0)
  /\ inserter.seen # <<>> /\ inserter.seen # queue[sent[inserter.req].queue]
  /\ inserter' = [inserter EXCEPT !.pc = "idle"]
  /\ log' = [log EXCEPT !.over = @ \cup {inserter.req}, !.unqueued = @ \cup {inserter.req}]
  /\ UNCHANGED <<client, answered, inserts, items, queue, worker, numbers, restarts, opened>>

\* The scan class refuses its arguments.
AssembleFails ==
  /\ inserter.pc = "insert" /\ sent[inserter.req].kind = "wrong arguments"
  /\ inserter' = [inserter EXCEPT !.pc = "idle"]
  /\ log' = [log EXCEPT !.over = @ \cup {inserter.req}]
  /\ UNCHANGED <<client, answered, inserts, items, queue, worker, numbers, restarts, opened>>

\* A request that is appended to an item which has ended is never looked at.
Ended(i) == items[i].status \in {"COMPLETED", "STOPPED"}
Insert ==
  LET r == inserter.req
      i == inserter.item
  IN  /\ inserter.pc = "insert" /\ sent[r].kind # "wrong arguments"
      /\ inserter' = [inserter EXCEPT !.pc = "idle"]
      /\ IF i # 0
           THEN items' = [items EXCEPT ![i] = AppendBlock(@, i, r)] /\ UNCHANGED queue
           ELSE /\ items' = Append(items, NewItem(Len(items) + 1, r))
                /\ queue' = [queue EXCEPT ![sent[r].queue] = Append(@, Len(items) + 1)]
      /\ log' = IF i # 0 /\ Ended(i) THEN [log EXCEPT !.over = @ \cup {r}] ELSE log
      /\ UNCHANGED <<client, answered, inserts, worker, numbers, restarts, opened>>

\* set_restart waits until the scan is the last of the history and has left the queue.
RestartFound(i) ==
  LET q == QueueOf(i)
  IN  /\ restarts[i] = "waits" /\ items[i].status = "STOPPED" /\ i \notin ToSet(queue[q])
      /\ worker[q].item = i \/ worker[q].item = 0
      /\ restarts' = [restarts EXCEPT ![i] = "found"]
      /\ UNCHANGED <<client, answered, inserts, inserter, items, queue, worker, numbers, opened, log>>
RestartTimesOut(i) ==
  /\ restarts[i] = "waits" /\ restarts' = [restarts EXCEPT ![i] = "over"]
  /\ UNCHANGED <<client, answered, inserts, inserter, items, queue, worker, numbers, opened, log>>

\* Its first request alone is inserted again, at the front.
Reinsert(i) ==
  LET r == items[i].blocks[1].req
      q == QueueOf(i)
  IN \E j \in ToSet(queue[q]) \cup {0}:
      /\ restarts[i] = "found" /\ restarts' = [restarts EXCEPT ![i] = "over"]
      /\ IsFirst(j, Members(r, queue[q]), queue[q])
      /\ IF j # 0
           THEN items' = [items EXCEPT ![j] = AppendBlock(@, j, r)] /\ UNCHANGED queue
           ELSE /\ items' = Append(items, NewItem(Len(items) + 1, r))
                /\ queue' = [queue EXCEPT ![q] = <<Len(items) + 1>> \o @]
      /\ log' = [log EXCEPT !.over = IF j # 0 /\ Ended(j) THEN @ ELSE @ \ {r}, !.defs = @ \cup ({sent[r].def} \ {0}),
                            !.pushed = @ \/ (j = 0 /\ worker[q].item \in ToSet(queue[q]))]
      /\ UNCHANGED <<client, answered, inserts, inserter, worker, numbers, opened>>

-----------------------------------------------------------------------------
(* The worker of a queue.                                                  *)

WorkerKeeps == UNCHANGED <<client, answered, inserts, inserter, restarts>>
Go(q, pc) == worker' = [worker EXCEPT ![q].pc = pc]
At(q, pc) == worker[q].pc = pc
Mine(q) == worker[q].item
Item(q) == items[Mine(q)]
Active(q) == Item(q).blocks[Item(q).active]
ActiveRequest(q) == sent[Active(q).req]

\* ScanQueue.__next__: whatever is at the head goes when there was an item before.
Pop(q) ==
  /\ At(q, "choose") /\ Go(q, "take")
  /\ queue' = [queue EXCEPT ![q] = IF @ = <<>> THEN @ ELSE Tail(@)]
  /\ WorkerKeeps /\ UNCHANGED <<items, numbers, opened, log>>
Take(q) ==
  /\ At(q, "take") /\ (queue[q] # <<>> \/ Mine(q) # 0)
  /\ worker' = [worker EXCEPT ![q] = IF queue[q] = <<>> THEN [@ EXCEPT !.item = 0]
                                     ELSE [@ EXCEPT !.item = Head(queue[q]), !.pc = "next"]]
  /\ WorkerKeeps /\ UNCHANGED <<items, queue, numbers, opened, log>>

\* The blocks of the items that scanIDs_head goes through: up to its own one, unless that
\* is completed.
UpTo(q, i) ==
  {queue[q][k]: k \in {n \in DOMAIN queue[q]: \A l \in 1..(n - 1): queue[q][l] # i \/ items[i].status = "COMPLETED"}}
BlocksUpTo(q, i) == UNION {{j} \X DOMAIN items[j].blocks: j \in UpTo(q, i)}
\* It counts the scans of the items ahead, and those of its own item before its own scan.
\* Mutant of Ahead: the block itself counts.
AheadAndOwn(q, i, scan) ==
  {x \in BlocksUpTo(q, i): LET j == x[1]  b == x[2] IN
     /\ items[j].blocks[b].scan # NoScan /\ items[j].status # "COMPLETED"
     /\ j = i => \A c \in 1..(b - 1): items[j].blocks[c].scan # scan}
Ahead(q, i, scan) ==
  {x \in BlocksUpTo(q, i): LET j == x[1]  b == x[2] IN
     /\ items[j].blocks[b].scan # NoScan /\ items[j].status # "COMPLETED"
     /\ j = i => \A c \in 1..b: items[j].blocks[c].scan # scan}
Predicted(q, i, scan) == scan_number + Cardinality(Ahead(q, i, scan))

\* _pull_request_block: the predicted scan number is now fixed.
Pull(q) ==
  LET n == Item(q).next
      block == Item(q).blocks[n]
  IN  /\ At(q, "next") /\ n \in DOMAIN Item(q).blocks
      /\ items' = [items EXCEPT ![Mine(q)] = [@ EXCEPT !.next = n + 1, !.active = n,
           !.blocks[n].number = IF block.is_scan THEN Predicted(q, Mine(q), block.scan) ELSE 0]]
      /\ Go(q, "first") /\ WorkerKeeps /\ UNCHANGED <<queue, numbers, opened, log>>

\* The macros are not complete or the group is open: the worker waits for more.
MustWait(i) == items[i].defs # {} \/ (items[i].group # 0 /\ ~items[i].closed)
\* Mutant of Finish: a group is over when it has no requests left.
FinishOpenGroup(q) ==
  /\ At(q, "next") /\ Item(q).next \notin DOMAIN Item(q).blocks /\ Item(q).defs = {}
  /\ items' = [items EXCEPT ![Mine(q)].status = "COMPLETED"]
  /\ Go(q, "choose") /\ WorkerKeeps /\ UNCHANGED <<queue, numbers, opened, log>>
Finish(q) ==
  /\ At(q, "next") /\ Item(q).next \notin DOMAIN Item(q).blocks /\ ~MustWait(Mine(q))
  /\ items' = [items EXCEPT ![Mine(q)].status = "COMPLETED"]
  /\ Go(q, "choose") /\ WorkerKeeps /\ UNCHANGED <<queue, numbers, opened, log>>

\* The first instruction of a block. A definition that has a scan opens it once more.
Start(q) ==
  /\ At(q, "first") /\ ActiveRequest(q).kind # "bad scan"
  /\ items' = [items EXCEPT ![Mine(q)].status = "RUNNING"]
  /\ opened' = IF ~Active(q).is_scan THEN opened
       ELSE Append(opened, [scan |-> Active(q).scan, req |-> Active(q).req, item |-> Mine(q), queue |-> q,
              number |-> scan_number, predicted |-> Active(q).number, dataset |-> dataset_number,
              beside |-> \E d \in Item(q).defs: d.def # ActiveRequest(q).def,
              later |-> \E b \in 1..(Item(q).active - 1): Item(q).blocks[b].scan \notin {NoScan, Active(q).scan}])
  /\ Go(q, "last") /\ WorkerKeeps /\ UNCHANGED <<queue, numbers, log>>

\* _get_next looks for the instructions that end a definition or a group. A closed group
\* ends the item, whatever it has left.
LastInstruction(q) ==
  LET r == ActiveRequest(q)
      item == [Item(q) EXCEPT
        !.defs = IF r.kind = "close_scan_def" THEN @ \ ScansOf(@, r.def) ELSE @,
        !.closed = @ \/ r.kind = "close_scan_group"]
      leaves == r.kind = "close_scan_group" /\ item.defs = {}
      rest == {item.blocks[b].req: b \in item.next..Len(item.blocks)}
  IN  /\ At(q, "last") /\ r.kind # "failing scan"
      /\ items' = [items EXCEPT ![Mine(q)] = IF leaves THEN [item EXCEPT !.status = "COMPLETED"] ELSE item]
      /\ Go(q, IF leaves THEN "choose" ELSE "count")
      /\ log' = IF leaves THEN [log EXCEPT !.over = @ \cup {Active(q).req} \cup rest] ELSE log
      /\ WorkerKeeps /\ UNCHANGED <<queue, numbers, opened>>

\* increase_scan_number reads the number and then writes it. A scan of a definition counts
\* when the definition is closed.
\* Mutant of Counts: a definition is not counted when it is closed.
CountsScans(q) == Active(q).is_scan /\ ActiveRequest(q).def = 0
Counts(q) ==
  /\ Active(q).is_scan \/ ActiveRequest(q).def # 0
  /\ ActiveRequest(q).def = 0 \/ ActiveRequest(q).kind = "close_scan_def"
CountsDataset(q) == ActiveRequest(q).hold = 0
After(q) == IF Item(q).status = "STOPPED" THEN "choose" ELSE "next"
Leave(q) == IF Item(q).status = "STOPPED" THEN items ELSE [items EXCEPT ![Mine(q)].active = 0]
EndBlock(q, n) ==
  /\ items' = Leave(q)
  /\ worker' = [worker EXCEPT ![q] = [@ EXCEPT !.pc = IF After(q) = "next" THEN "again" ELSE "choose", !.read = n]]
  /\ log' = [log EXCEPT !.over = @ \cup {Active(q).req}]
Uncounted(q) ==
  /\ At(q, "count") /\ ~Counts(q) /\ EndBlock(q, 0)
  /\ WorkerKeeps /\ UNCHANGED <<queue, numbers, opened>>
ReadNumber(q) ==
  /\ At(q, "count") /\ Counts(q)
  /\ worker' = [worker EXCEPT ![q] = [@ EXCEPT !.pc = "write", !.read = scan_number]]
  /\ WorkerKeeps /\ UNCHANGED <<items, queue, numbers, opened, log>>
WriteNumber(q) ==
  /\ At(q, "write")
  /\ scan_number' = worker[q].read + 1
  /\ dataset_number' = dataset_number + (IF CountsDataset(q) THEN 1 ELSE 0)
  /\ items' = Leave(q)
  /\ worker' = [worker EXCEPT ![q] = [@ EXCEPT !.pc = IF After(q) = "next" THEN "again" ELSE "choose", !.read = 0]]
  /\ log' = [log EXCEPT !.over = @ \cup {Active(q).req}, !.raced = @ \/ scan_number # worker[q].read]
  /\ WorkerKeeps /\ UNCHANGED <<queue, opened>>

\* The next block, in the handler of the StopIteration of the one before: here an
\* exception of its generator is not caught.
Again(q) ==
  /\ At(q, "again")
  /\ Go(q, IF Item(q).next \in DOMAIN Item(q).blocks
             /\ sent[Item(q).blocks[Item(q).next].req].kind = "bad scan" THEN "dead" ELSE "next")
  /\ WorkerKeeps /\ UNCHANGED <<items, queue, numbers, opened, log>>

\* A scan fails, in its first instruction or while it runs, or is restarted. What is left
\* of its item is gone.
Abort(q) ==
  /\ items' = [items EXCEPT ![Mine(q)].status = "STOPPED"]
  /\ Go(q, "count")
  /\ log' = [log EXCEPT !.over = @ \cup {Item(q).blocks[b].req: b \in DOMAIN Item(q).blocks},
                        !.defs = @ \cup {d.def: d \in Item(q).defs},
                        !.groups = @ \cup {Item(q).group}]
  /\ UNCHANGED <<client, answered, inserts, inserter, queue, numbers, opened>>
Fail(q) ==
  /\ \/ At(q, "first") /\ ActiveRequest(q).kind = "bad scan"
     \/ At(q, "last") /\ ActiveRequest(q).kind = "failing scan"
  /\ Abort(q) /\ UNCHANGED restarts
Restart(q) ==
  /\ At(q, "last") /\ Item(q).status = "RUNNING" /\ ActiveRequest(q).kind = "scan"
  /\ Cardinality(DOMAIN restarts) < MaxRestarts
  /\ restarts' = [i \in DOMAIN restarts \cup {Mine(q)} |-> IF i \in DOMAIN restarts THEN restarts[i] ELSE "waits"]
  /\ Abort(q)

Worker(q) ==
  \/ Pop(q) \/ Take(q) \/ Pull(q) \/ Finish(q) \/ Start(q) \/ LastInstruction(q) \/ Uncounted(q) \/ ReadNumber(q)
  \/ WriteNumber(q) \/ Again(q) \/ Fail(q)
Server ==
  \/ HandleRequest \/ Receive \/ Look \/ LookFails \/ AssembleFails \/ Insert
  \/ \E i \in DOMAIN restarts: RestartFound(i) \/ RestartTimesOut(i) \/ Reinsert(i)

Init ==
  /\ \E p \in DOMAIN Clients: steps = Clients[p]
  /\ context = [def |-> 0, group |-> 0, hold |-> 0, calls |-> 0, fresh |-> 0]
  /\ sent = <<>> /\ answered = <<>> /\ inserts = <<>>
  /\ inserter = [pc |-> "idle", req |-> 0, item |-> 0, seen |-> <<>>]
  /\ items = <<>> /\ queue = [q \in Queues |-> <<>>]
  /\ worker = [q \in Queues |-> [pc |-> "take", item |-> 0, read |-> 0]]
  /\ scan_number = 1 /\ dataset_number = 1 /\ restarts = <<>> /\ opened = <<>>
  /\ log = [over |-> {}, left |-> {}, unqueued |-> {}, defs |-> {}, groups |-> {}, raced |-> FALSE,
            pushed |-> FALSE]

\* Everybody waits: for a request, or for the end of a definition or group; a client for
\* the end of its last request.
Waiting ==
  /\ steps = <<>> \/ MustFollow
  /\ Len(answered) = Len(sent) /\ inserts = <<>> /\ inserter.pc = "idle"
  /\ \A i \in DOMAIN restarts: restarts[i] = "over"
  /\ \A q \in Queues: worker[q].pc \in {"take", "next", "dead"}
  /\ UNCHANGED vars
Next == Client \/ Server \/ (\E q \in Queues: Worker(q) \/ Restart(q)) \/ Waiting

\* A client may stop at any time; threads go on.
Spec == Init /\ [][Next]_vars /\ WF_vars(Server) /\ \A q \in Queues: WF_vars(Worker(q))

-----------------------------------------------------------------------------
(* Properties.                                                             *)

TypeOK ==
  /\ inserter.pc \in {"idle", "look", "insert"} /\ DOMAIN restarts \subseteq DOMAIN items
  /\ \A q \in Queues: ToSet(queue[q]) \subseteq DOMAIN items /\ Mine(q) \in 0..Len(items)
  /\ \A i \in DOMAIN items: items[i].active \in 0..Len(items[i].blocks) /\ items[i].next > items[i].active
  /\ \A i \in DOMAIN items: \A b \in DOMAIN items[i].blocks: items[i].blocks[b].req \in DOMAIN sent
  /\ Len(answered) <= Len(sent) /\ scan_number \in Nat /\ dataset_number \in Nat

OneQueue == \A r \in DOMAIN sent: sent[r].queue = "primary"

\* The number a scan is announced with when its block is taken is the number it is opened
\* with, unless it is a later scan of a group, another queue counts scans as well, or a
\* restart went in front of a scan that had begun.
PredictedIsOpened ==
  \A k \in DOMAIN opened: LET o == opened[k] IN
    o.predicted = o.number \/ o.later \/ ~OneQueue \/ log.pushed

\* A scan number names one scan, unless a definition was aborted or repeated before it was
\* closed, two queues run at a time, one of them wrote a number that the other had counted
\* past, or a scan ran in an item that had a definition open of which it was no part: the
\* contexts were nested, or the end of the definition got lost on its way.
UniqueNumbers ==
  \A j, k \in DOMAIN opened: LET o == opened[j]  p == opened[k] IN
    o.number = p.number =>
      \/ o.scan = p.scan \/ o.queue # p.queue \/ log.raced \/ o.beside \/ p.beside
      \/ \E r \in {o.req, p.req}: sent[r].def \in log.defs

DefinitionIsOneScan ==
  \A j, k \in DOMAIN opened: LET o == opened[j]  p == opened[k]  d == sent[o.req].def IN
    d # 0 /\ sent[p.req].def = d => o.scan = p.scan \/ o.queue # p.queue \/ d \in log.defs

\* A definition in a group is an item of its own.
GroupStaysTogether ==
  \A i, j, k \in DOMAIN opened:
    LET g == sent[opened[i].req].group IN
      /\ i < j /\ j < k /\ Cardinality({opened[l].queue : l \in {i, j, k}}) = 1
      /\ g # 0 /\ sent[opened[k].req].group = g
      => \/ sent[opened[j].req].group = g \/ g \in log.groups
         \/ sent[opened[i].req].def # sent[opened[k].req].def \/ sent[opened[i].req].def \in log.defs

Repeated(k) == \E l \in 1..(k - 1): opened[l].req = opened[k].req
OutOfHold(h, j, k) ==
  \/ \E l \in j..k: sent[opened[l].req].hold # h
  \/ \E r \in 1..opened[k].req \cup 1..opened[j].req: sent[r].hold # h /\ sent[r].kind \in {"bad scan", "close_scan_def"}
DatasetHeld ==
  \A j, k \in DOMAIN opened: LET h == sent[opened[j].req].hold IN
    j < k /\ h # 0 /\ sent[opened[k].req].hold = h =>
      \/ opened[j].dataset = opened[k].dataset \/ OutOfHold(h, j, k)
      \/ h \in log.left \/ Repeated(j) \/ Repeated(k) \/ ~OneQueue \/ log.pushed

\* What the contexts of a client promise: the scans of a definition in one queue are one
\* scan, unless it was aborted or repeated and goes on in a new item; no scan comes between
\* those of a group in its queue, unless the group was aborted or has definitions; the
\* scans of a dataset on hold have its number, unless the client left the context before
\* they were over, a restart repeats one of them or went in front of a scan that had begun,
\* the other queue counted, or a scan of somebody else ran between them, or a request that
\* counts and opens no scan was there before them.
ContextsHold == DefinitionIsOneScan /\ GroupStaysTogether /\ DatasetHeld

OnlyAccepted == \A i \in DOMAIN items: \A b \in DOMAIN items[i].blocks: answered[items[i].blocks[b].req]

Nested == \E r \in DOMAIN sent: sent[r].kind = "close_scan_def" /\ sent[r].def = 0
\* Every accepted request, and no other one, is carried out, or gone with its item, unless
\* its worker is dead, or its queue waits for the end of a definition or a group that nobody
\* will send: the contexts were nested, the client stopped, the request got lost on its way,
\* or a restart repeated the first request of the item alone; or a restart went in front of
\* a scan that had begun.
RequestsServed ==
  /\ []OnlyAccepted
  /\ <>[](\/ \A r \in DOMAIN answered: answered[r] => Over(r)
          \/ \E q \in Queues: worker[q].pc = "dead"
          \/ Nested \/ log.unqueued # {} \/ log.pushed
          \/ /\ steps # <<>> \/ DOMAIN restarts # {}
             /\ \E q \in Queues: At(q, "next") /\ MustWait(Mine(q)))

=============================================================================
