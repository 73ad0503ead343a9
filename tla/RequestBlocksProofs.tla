------------------------- MODULE RequestBlocksProofs -------------------------
(***************************************************************************)
(* Theorems about RequestBlocks for all queues, all programs of the        *)
(* clients, whatever the scan manager has published and whichever devices  *)
(* are disabled, and any number of restarts.                               *)
(***************************************************************************)
EXTENDS RequestBlocks, SequenceTheorems, FiniteSetTheorems, TLAPS

Def(r) == sent[r].def
Kind(r) == sent[r].kind
Accepted == {r \in DOMAIN answered : answered[r]}

-----------------------------------------------------------------------------
(* Types.                                                                  *)

Requests == [kind : Kinds \cup OfContexts, dev : Devices, queue : Queues, def : Nat, group : Nat, hold : Nat]
ScanIds == Nat \X Nat
BlockSet == [req : Nat, is_scan : BOOLEAN, number : Nat, scan : ScanIds]
Entries == [def : Nat, scan : ScanIds]
ItemSet == [blocks : Seq(BlockSet), next : Nat, active : Nat, defs : SUBSET Entries, closed : BOOLEAN,
            group : Nat, status : {"PENDING", "RUNNING", "COMPLETED", "STOPPED"}]
Openings == [scan : ScanIds, req : Nat, item : Nat, queue : Queues, number : Nat, predicted : Nat, dataset : Int,
             beside : BOOLEAN, later : BOOLEAN]
Places == {"take", "next", "first", "last", "count", "write", "again", "choose", "dead"}

ClientType ==
  /\ steps \in Seq(Steps) /\ sent \in Seq(Requests)
  /\ context \in [def : Nat, group : Nat, hold : Nat, calls : Int, fresh : Nat]
AnswerType == answered \in Seq(BOOLEAN) /\ Len(answered) <= Len(sent)
InsertType ==
  /\ inserts \in Seq(Nat) /\ \A k \in DOMAIN inserts : inserts[k] \in Accepted
  /\ inserter \in [pc : {"idle", "look", "insert"}, req : Nat, item : Nat, seen : Seq(Nat)]
  /\ inserter.pc # "idle" => inserter.req \in Accepted

\* An item has at least one block, and the blocks of requests to its queue.
IsItem(i) == i \in 1..Len(items)
Home(i, q) == IsItem(i) /\ \A b \in DOMAIN items[i].blocks : sent[items[i].blocks[b].req].queue = q
ItemType ==
  /\ items \in Seq(ItemSet)
  /\ \A i \in DOMAIN items : items[i].active < items[i].next
  /\ \A i \in DOMAIN items : items[i].blocks # <<>> /\ \A b \in DOMAIN items[i].blocks : items[i].blocks[b].req \in Accepted
QueuePlace == queue \in [Queues -> Seq(Nat)] /\ \A q \in Queues : \A k \in DOMAIN queue[q] : Home(queue[q][k], q)
WorkerPlace ==
  /\ worker \in [Queues -> [pc : Places, item : Nat, read : Nat]]
  /\ \A q \in Queues : Mine(q) # 0 => Home(Mine(q), q)
  /\ \A q \in Queues : worker[q].pc # "take" => Mine(q) # 0
  /\ \A q \in Queues : worker[q].pc \in {"first", "last", "count", "write"} => Item(q).active \in DOMAIN Item(q).blocks
InserterPlace ==
  /\ inserter.pc = "look" => \A k \in DOMAIN inserter.seen : Home(inserter.seen[k], sent[inserter.req].queue)
  /\ inserter.pc = "insert" /\ inserter.item # 0 => Home(inserter.item, sent[inserter.req].queue)
PlaceType == QueuePlace /\ WorkerPlace /\ InserterPlace
NumberType == scan_number \in Nat /\ dataset_number \in Int
RestartType == \A i \in DOMAIN restarts : \E q \in Queues : Home(i, q)
LogType == log \in [over : SUBSET Nat, left : SUBSET Nat, unqueued : SUBSET Nat, defs : SUBSET Nat, groups : SUBSET Nat,
                    raced : BOOLEAN, pushed : BOOLEAN]
OpenedType == opened \in Seq(Openings)
Types == /\ ClientType /\ AnswerType /\ InsertType /\ ItemType /\ PlaceType /\ NumberType /\ RestartType /\ LogType
         /\ OpenedType

\* Appending to a sequence keeps what it had.
LEMMA Appended ==
  ASSUME NEW S, NEW s \in Seq(S), NEW e \in S
  PROVE  /\ Append(s, e) \in Seq(S) /\ Len(Append(s, e)) = Len(s) + 1
         /\ DOMAIN Append(s, e) = DOMAIN s \cup {Len(s) + 1} /\ DOMAIN s = 1..Len(s)
         /\ \A k \in DOMAIN s : Append(s, e)[k] = s[k] /\ k # Len(s) + 1
         /\ Append(s, e)[Len(s) + 1] = e
  OBVIOUS

\* What a step of the client does: it sends a request that belongs to the definition that
\* it is in, if any, opens a new one, or closes it and is in none.
Enters(r) == Kind(r) = "open_scan_def"
LEMMA DoEffect ==
  ASSUME ClientType, NEW step \in Steps, Do(step)
  PROVE  /\ sent' \in Seq(Requests)
         /\ context' \in [def : Nat, group : Nat, hold : Nat, calls : Int, fresh : Nat]
         /\ NumberType => dataset_number' \in Int
         /\ \/ sent' = sent /\ context.def' = context.def /\ context.fresh' >= context.fresh
            \/ \E r \in Requests :
                 /\ sent' = Append(sent, r)
                 /\ \/ /\ r.kind # "close_scan_def" /\ r.def \in {0, context.def} /\ context.def' = context.def
                       /\ context.fresh' = context.fresh
                    \/ /\ r.kind = "open_scan_def" /\ r.def = context.fresh + 1 /\ context.def' = r.def
                       /\ context.fresh' = r.def
                    \/ /\ r.kind = "close_scan_def" /\ r.def = context.def /\ context.def' = 0
                       /\ context.fresh' = context.fresh
<1> USE DEF ClientType, Fresh, NumberType
<1>1. ASSUME NEW kind \in Kinds \cup OfContexts, NEW dev \in Devices, NEW q \in Queues
      PROVE  /\ Request(kind, dev, q) \in Requests /\ Request(kind, dev, q).kind = kind
             /\ Request(kind, dev, q).def = context.def
  <2>1. [kind |-> kind, dev |-> dev, queue |-> q, def |-> context.def, group |-> context.group,
         hold |-> context.hold] \in Requests
    BY DEF Requests
  <2> QED
    BY <2>1 DEF Request
<1>s. /\ "" \in Devices /\ "primary" \in Queues
      /\ {"open_scan_def", "close_scan_def", "close_scan_group"} \subseteq Kinds \cup OfContexts
  BY NamesAssumption DEF OfContexts
<1>n. /\ context.fresh + 1 \in Nat /\ context.fresh + 1 >= context.fresh
      /\ context.calls + 1 \in Int /\ context.calls - 1 \in Int
      /\ (IF context.hold = 0 THEN context.fresh + 1 ELSE context.hold) \in Nat
      /\ (IF context.calls = 1 THEN 0 ELSE context.hold) \in Nat
  OBVIOUS
<1>2. step.do \in Contexts \cup {"request"}
  BY DEF Steps
<1>3. CASE step.do = "request"
  <2>1. step.kind \in Kinds \ OfContexts /\ step.dev \in Devices /\ step.queue \in Queues
    BY <1>3 DEF Steps, Contexts
  <2> DEFINE r == IF step.foreign THEN Foreign(Request(step.kind, step.dev, step.queue))
                                  ELSE Request(step.kind, step.dev, step.queue)
  <2>2. r \in Requests /\ r.kind = step.kind /\ r.def \in {0, context.def}
    <3> DEFINE own == Request(step.kind, step.dev, step.queue)
    <3>1. own \in Requests /\ own.kind = step.kind /\ own.def = context.def
      BY <1>1, <2>1
    <3> HIDE DEF own
    <3>2. Foreign(own) \in Requests /\ Foreign(own).kind = own.kind /\ Foreign(own).def = 0
      BY <3>1 DEF Foreign, Requests
    <3> QED
      BY <3>1, <3>2 DEF own
  <2>3. sent' = Append(sent, r) /\ UNCHANGED <<context, dataset_number>>
    BY <1>3 DEF Do, Ask
  <2> QED
    BY <2>1, <2>2, <2>3, Appended DEF OfContexts
<1>4. CASE step.do = "enter scan_def"
  <2> DEFINE r == [Request("open_scan_def", "", "primary") EXCEPT !.def = context.fresh + 1]
  <2>1. r \in Requests /\ r.kind = "open_scan_def" /\ r.def = context.fresh + 1
    <3> DEFINE own == Request("open_scan_def", "", "primary")
    <3>1. own \in Requests /\ own.kind = "open_scan_def"
      BY <1>1, <1>s
    <3> HIDE DEF own
    <3> DEFINE n == context.fresh + 1
    <3>2. n \in Nat
      BY <1>n
    <3> HIDE DEF n
    <3>3. [own EXCEPT !.def = n] \in Requests /\ [own EXCEPT !.def = n].kind = "open_scan_def" /\ [own EXCEPT !.def = n].def = n
      BY <3>1, <3>2 DEF Requests
    <3> QED
      BY <3>3 DEF own, n
  <2>2. /\ sent' = Append(sent, r) /\ UNCHANGED dataset_number
        /\ context' = [context EXCEPT !.def = context.fresh + 1, !.fresh = context.fresh + 1]
    BY <1>4 DEF Do, Ask
  <2> QED
    BY <1>n, <2>1, <2>2, Appended
<1>5. CASE step.do = "exit scan_def"
  <2> DEFINE r == Request("close_scan_def", "", "primary")
  <2>1. r \in Requests /\ r.kind = "close_scan_def" /\ r.def = context.def
    BY <1>1, <1>s
  <2>2. sent' = Append(sent, r) /\ UNCHANGED dataset_number /\ context' = [context EXCEPT !.def = 0]
    BY <1>5 DEF Do, Ask
  <2> QED
    BY <1>n, <2>1, <2>2, Appended
<1>6. CASE step.do = "enter scan_group"
  <2>1. context' = [context EXCEPT !.group = context.fresh + 1, !.fresh = context.fresh + 1]
        /\ UNCHANGED <<sent, dataset_number>>
    BY <1>6 DEF Do
  <2> QED
    BY <1>n, <2>1
<1>7. CASE step.do = "exit scan_group"
  <2> DEFINE r == Request("close_scan_group", "", "primary")
  <2>1. r \in Requests /\ r.kind = "close_scan_group" /\ r.def = context.def
    BY <1>1, <1>s
  <2>2. sent' = Append(sent, r) /\ UNCHANGED dataset_number /\ context' = [context EXCEPT !.group = 0]
    BY <1>7 DEF Do, Ask
  <2> QED
    BY <1>n, <2>1, <2>2, Appended
<1>8. CASE step.do = "enter dataset_id_on_hold"
  <2>1. /\ context' = [context EXCEPT !.calls = context.calls + 1, !.fresh = context.fresh + 1,
                                      !.hold = IF context.hold = 0 THEN context.fresh + 1 ELSE context.hold]
        /\ UNCHANGED <<sent, dataset_number>>
    BY <1>8 DEF Do
  <2> QED
    BY <1>n, <2>1
<1>9. CASE step.do = "exit dataset_id_on_hold"
  <2>1. /\ context' = [context EXCEPT !.calls = context.calls - 1, !.hold = IF context.calls = 1 THEN 0 ELSE context.hold]
        /\ UNCHANGED sent
    BY <1>9 DEF Do
  <2>2. dataset_number' = dataset_number + (IF context.calls = 1 THEN 1 ELSE 0)
    BY <1>9 DEF Do
  <2>3. NumberType => dataset_number + (IF context.calls = 1 THEN 1 ELSE 0) \in Int
    BY DEF NumberType
  <2>4. NumberType => dataset_number' \in Int
    BY <2>2, <2>3
  <2>5. /\ context' \in [def : Nat, group : Nat, hold : Nat, calls : Int, fresh : Nat]
        /\ context.def' = context.def /\ context.fresh' = context.fresh
    BY <1>n, <2>1
  <2>6. context.fresh' >= context.fresh
    BY <2>5
  <2> QED
    BY <2>1, <2>4, <2>5, <2>6
<1> QED
  BY <1>2, <1>3, <1>4, <1>5, <1>6, <1>7, <1>8, <1>9 DEF Contexts

-----------------------------------------------------------------------------
(* What a step does to an item: a request becomes its last block, a new     *)
(* item has one block, or the worker that has the item goes on with it.     *)

\* The definition of a request is opened by its first block in an item, and later ones get
\* the scan of one that is open.
Entered(r, before, after, scan) ==
  \/ after = before /\ (Def(r) = 0 \/ \E e \in before : e.def = Def(r) /\ e.scan = scan)
  \/ after = before \cup {[def |-> Def(r), scan |-> scan]} /\ Def(r) # 0 /\ \A e \in before : e.def # Def(r)

LEMMA SentType ==
  ASSUME ClientType, NEW r \in DOMAIN sent
  PROVE  /\ r \in Nat /\ sent[r] \in Requests /\ Def(r) \in Nat /\ sent[r].group \in Nat /\ sent[r].hold \in Nat
         /\ sent[r].queue \in Queues
<1>1. r \in Nat /\ sent[r] \in Requests
  BY DEF ClientType
<1> QED
  BY <1>1 DEF Requests, Def

\* What AppendBlock returns.
Extends(new, old, r) ==
  LET n == Len(old.blocks) + 1 IN
  /\ new \in ItemSet /\ new.next = old.next /\ new.active = old.active /\ new.group = old.group /\ new.status = old.status
  /\ n \notin DOMAIN old.blocks /\ DOMAIN new.blocks = DOMAIN old.blocks \cup {n}
  /\ \A b \in DOMAIN old.blocks : new.blocks[b] = old.blocks[b]
  /\ new.blocks[n].req = r /\ new.blocks[n].is_scan = IsScan(r)
  /\ Entered(r, old.defs, new.defs, new.blocks[n].scan)
LEMMA AppendBlockExtends ==
  ASSUME NEW item \in ItemSet, NEW i \in Nat, NEW r \in DOMAIN sent, ClientType
  PROVE  Extends(AppendBlock(item, i, r), item, r)
<1> DEFINE n == Len(item.blocks) + 1
           d == Def(r)
           same == ScansOf(item.defs, d)
           own == IF IsScan(r) \/ d # 0 THEN <<i, n>> ELSE NoScan
           scan == ScanOf(d, item.defs, own)
           block == NewBlock(i, r, item.defs, n)
           defs == Defined(i, r, item.defs, block)
<1>1. r \in Nat /\ d \in Nat /\ n \in Nat /\ item.blocks \in Seq(BlockSet) /\ item.defs \subseteq Entries
  BY SentType DEF ItemSet
<1>2. same \subseteq item.defs /\ \A e \in item.defs : e \in same <=> e.def = d
  BY DEF ScansOf
<1>3. own \in ScanIds /\ IsScan(r) \in BOOLEAN
  BY <1>1 DEF ScanIds, NoScan, IsScan
<1>4. \/ (d = 0 \/ same = {}) /\ scan = own
      \/ d # 0 /\ \E e \in same : scan = e.scan
  <2>1. CASE d # 0 /\ same # {}
    <3>1. (CHOOSE e \in same : TRUE) \in same
      BY <2>1
    <3>2. scan = (CHOOSE e \in same : TRUE).scan
      BY <2>1 DEF ScanOf
    <3> QED
      BY <2>1, <3>1, <3>2
  <2>2. CASE ~(d # 0 /\ same # {})
    <3>1. scan = own
      BY <2>2 DEF ScanOf
    <3> QED
      BY <2>2, <3>1
  <2> QED
    BY <2>1, <2>2
<1>5. scan \in ScanIds
  BY <1>1, <1>2, <1>3, <1>4 DEF Entries
<1>6. block = [req |-> r, is_scan |-> IsScan(r), number |-> 0, scan |-> scan]
  BY DEF NewBlock, Def
<1>7. block \in BlockSet /\ block.req = r /\ block.is_scan = IsScan(r) /\ block.scan = scan
  BY <1>1, <1>3, <1>5, <1>6 DEF BlockSet
<1>8. defs = IF d # 0 /\ same = {} THEN item.defs \cup {[def |-> d, scan |-> block.scan]} ELSE item.defs
  BY DEF Defined, Def
<1>9. defs \subseteq Entries /\ Entered(r, item.defs, defs, block.scan)
  <2>1. [def |-> d, scan |-> block.scan] \in Entries
    BY <1>1, <1>5, <1>7 DEF Entries
  <2> QED
    BY <1>1, <1>2, <1>4, <1>7, <1>8, <2>1 DEF Entered
<1>10. AppendBlock(item, i, r) = [item EXCEPT !.blocks = Append(item.blocks, block), !.defs = defs]
  BY DEF AppendBlock
<1> HIDE DEF block, defs
<1>11. Append(item.blocks, block) \in Seq(BlockSet)
  BY <1>1, <1>7
<1>12. /\ AppendBlock(item, i, r) \in ItemSet
       /\ AppendBlock(item, i, r).blocks = Append(item.blocks, block) /\ AppendBlock(item, i, r).defs = defs
       /\ AppendBlock(item, i, r).next = item.next /\ AppendBlock(item, i, r).active = item.active
       /\ AppendBlock(item, i, r).group = item.group /\ AppendBlock(item, i, r).status = item.status
  BY <1>9, <1>10, <1>11 DEF ItemSet
<1> QED
  BY <1>1, <1>7, <1>9, <1>12, Appended DEF Extends

\* A request is added to the item i, or i is a new item for it.
Others(i) == \A j \in DOMAIN items \ {i} : j \in DOMAIN items' /\ items'[j] = items[j]
Adds(i, r) == i \in DOMAIN items /\ DOMAIN items' = DOMAIN items /\ Others(i) /\ Extends(items'[i], items[i], r)
Makes(i, r) ==
  /\ i = Len(items) + 1 /\ i \notin DOMAIN items /\ DOMAIN items' = DOMAIN items \cup {i} /\ Others(i)
  /\ Extends(items'[i], EmptyItem(sent[r].group), r)
LEMMA EmptyItemType == ASSUME NEW g \in Nat PROVE EmptyItem(g) \in ItemSet
  BY DEF EmptyItem, ItemSet

LEMMA AddsBlock ==
  ASSUME ClientType, ItemType, NEW i \in DOMAIN items, NEW r \in DOMAIN sent,
         items' = [items EXCEPT ![i] = AppendBlock(@, i, r)]
  PROVE  Adds(i, r) /\ items' \in Seq(ItemSet) /\ Len(items') = Len(items)
<1>1. i \in Nat /\ items[i] \in ItemSet
  BY DEF ItemType
<1>2. Extends(AppendBlock(items[i], i, r), items[i], r)
  BY <1>1, AppendBlockExtends
<1>3. AppendBlock(items[i], i, r) \in ItemSet
  BY <1>2 DEF Extends
<1>4. /\ items' \in Seq(ItemSet) /\ DOMAIN items' = DOMAIN items /\ Len(items') = Len(items)
      /\ items'[i] = AppendBlock(items[i], i, r) /\ \A j \in DOMAIN items \ {i} : items'[j] = items[j]
  BY <1>3 DEF ItemType
<1> QED
  BY <1>2, <1>4 DEF Adds, Others

LEMMA MakesItem ==
  ASSUME ClientType, ItemType, NEW r \in DOMAIN sent, items' = Append(items, NewItem(Len(items) + 1, r))
  PROVE  Makes(Len(items) + 1, r) /\ items' \in Seq(ItemSet) /\ Len(items') = Len(items) + 1
<1> DEFINE i == Len(items) + 1
           empty == EmptyItem(sent[r].group)
           new == NewItem(i, r)
<1>1. i \in Nat /\ sent[r].group \in Nat /\ items \in Seq(ItemSet)
  BY SentType DEF ItemType
<1>2. Extends(AppendBlock(empty, i, r), empty, r)
  BY <1>1, AppendBlockExtends, EmptyItemType
<1>3. new = AppendBlock(empty, i, r) /\ new \in ItemSet
  BY <1>2 DEF Extends, NewItem
<1> HIDE DEF new
<1>4. items' = Append(items, new)
  BY DEF new
<1> QED
  BY <1>1, <1>2, <1>3, <1>4, Appended DEF Makes, Others

-----------------------------------------------------------------------------
(* What a step of a worker does.                                           *)

\* The worker goes on with the item i.
Works(i) ==
  /\ i \in DOMAIN items /\ DOMAIN items' = DOMAIN items /\ Len(items') = Len(items) /\ Others(i) /\ items' \in Seq(ItemSet)
  /\ DOMAIN items'[i].blocks = DOMAIN items[i].blocks
  /\ \A b \in DOMAIN items[i].blocks :
       /\ items'[i].blocks[b].req = items[i].blocks[b].req /\ items'[i].blocks[b].is_scan = items[i].blocks[b].is_scan
       /\ items'[i].blocks[b].scan = items[i].blocks[b].scan
  /\ items'[i].next >= items[i].next /\ items'[i].active < items'[i].next
Same(i) == items'[i].active = items[i].active /\ items'[i].blocks = items[i].blocks
NoItem == items' = items
Goes(q, pc) ==
  /\ worker' \in [Queues -> [pc : Places, item : Nat, read : Nat]] /\ worker'[q].pc = pc
  /\ \A p \in Queues \ {q} : worker'[p] = worker[p]
Keeps(q) == worker'[q].item = worker[q].item

Pops(q) ==
  /\ At(q, "choose") /\ Goes(q, "take") /\ Keeps(q) /\ NoItem
  /\ queue' = [queue EXCEPT ![q] = IF @ = <<>> THEN @ ELSE Tail(@)]
Takes(q) ==
  /\ At(q, "take") /\ NoItem
  /\ \/ Goes(q, "take") /\ worker'[q].item = 0
     \/ Goes(q, "next") /\ queue[q] # <<>> /\ worker'[q].item = Head(queue[q])
Pulls(q) ==
  LET i == Mine(q)  n == items[i].next IN
  /\ At(q, "next") /\ Goes(q, "first") /\ Keeps(q) /\ Works(i) /\ n \in DOMAIN items[i].blocks
  /\ items'[i].active = n /\ items'[i].next = n + 1 /\ items'[i].defs = items[i].defs /\ items'[i].status = items[i].status
  /\ items'[i].blocks[n].number = IF items[i].blocks[n].is_scan THEN Predicted(q, i, items[i].blocks[n].scan) ELSE 0
Finishes(q) ==
  LET i == Mine(q) IN
  /\ At(q, "next") /\ Goes(q, "choose") /\ Keeps(q) /\ Works(i) /\ Same(i)
  /\ items[i].defs = {} /\ items'[i].defs = {} /\ items'[i].status = "COMPLETED"
Begins(q) ==
  LET i == Mine(q) IN
  /\ At(q, "first") /\ Goes(q, "last") /\ Keeps(q) /\ Works(i) /\ Same(i)
  /\ items'[i].defs = items[i].defs /\ items'[i].status = "RUNNING"
Ends(q) ==
  LET i == Mine(q)  r == ActiveRequest(q) IN
  /\ At(q, "last") /\ Keeps(q) /\ Works(i) /\ Same(i)
  /\ items'[i].defs = IF r.kind = "close_scan_def" THEN items[i].defs \ ScansOf(items[i].defs, r.def) ELSE items[i].defs
  /\ \/ Goes(q, "count") /\ items'[i].status = items[i].status
     \/ Goes(q, "choose") /\ items'[i].status = "COMPLETED" /\ r.kind = "close_scan_group" /\ items'[i].defs = {}
Leaves(q) ==
  LET i == Mine(q) IN
  /\ (At(q, "count") /\ ~Counts(q)) \/ At(q, "write")
  /\ Keeps(q) /\ Works(i)
  /\ items'[i].blocks = items[i].blocks /\ items'[i].defs = items[i].defs /\ items'[i].status = items[i].status
  /\ \/ Goes(q, "choose") /\ items[i].status = "STOPPED"
     \/ Goes(q, "again") /\ items[i].status # "STOPPED"
Reads(q) == At(q, "count") /\ Goes(q, "write") /\ Keeps(q) /\ NoItem /\ worker'[q].read = scan_number
Turns(q) == At(q, "again") /\ (Goes(q, "next") \/ Goes(q, "dead")) /\ Keeps(q) /\ NoItem
Aborts(q) ==
  LET i == Mine(q) IN
  /\ worker[q].pc \in {"first", "last"} /\ Goes(q, "count") /\ Keeps(q) /\ Works(i) /\ Same(i)
  /\ items'[i].defs = items[i].defs /\ items'[i].status = "STOPPED" /\ \A e \in items[i].defs : e.def \in log.defs'

\* Each of them from the action of its worker.
LEMMA GoEffect ==
  ASSUME PlaceType, NEW q \in Queues, NEW pc \in Places, Go(q, pc)
  PROVE  Goes(q, pc) /\ Keeps(q)
  BY DEF PlaceType, QueuePlace, WorkerPlace, InserterPlace, Go, Goes, Keeps
LEMMA MineType ==
  ASSUME Types, NEW q \in Queues, worker[q].pc # "take"
  PROVE  /\ Mine(q) \in DOMAIN items /\ items[Mine(q)] \in ItemSet /\ items[Mine(q)].active < items[Mine(q)].next
         /\ Mine(q) \in 1..Len(items)
  BY DEF Types, PlaceType, QueuePlace, WorkerPlace, InserterPlace, ItemType, Home, IsItem, Mine
LEMMA ActiveType ==
  ASSUME Types, NEW q \in Queues, worker[q].pc \in {"first", "last", "count", "write"}
  PROVE  /\ items[Mine(q)].active \in DOMAIN items[Mine(q)].blocks
         /\ Active(q) \in BlockSet /\ Active(q).req \in DOMAIN sent /\ Active(q).req \in Accepted
<1>1. worker[q].pc # "take" /\ items[Mine(q)].active \in DOMAIN items[Mine(q)].blocks
  BY DEF Types, PlaceType, QueuePlace, WorkerPlace, InserterPlace, Item
<1>2. Mine(q) \in DOMAIN items /\ items[Mine(q)].blocks \in Seq(BlockSet)
  BY <1>1, MineType DEF ItemSet
<1>3. items[Mine(q)].blocks[items[Mine(q)].active].req \in Accepted
  BY <1>1, <1>2 DEF Types, ItemType
<1>4. Accepted \subseteq DOMAIN sent
  BY DEF Types, AnswerType, ClientType, Accepted
<1> QED
  BY <1>1, <1>2, <1>3, <1>4 DEF Active, Item

\* One item is replaced by another one that has the same blocks.
LEMMA WorksOn ==
  ASSUME Types, NEW q \in Queues, worker[q].pc # "take", NEW new \in ItemSet, items' = [items EXCEPT ![Mine(q)] = new],
         DOMAIN new.blocks = DOMAIN items[Mine(q)].blocks,
         \A b \in DOMAIN new.blocks :
           /\ new.blocks[b].req = items[Mine(q)].blocks[b].req /\ new.blocks[b].is_scan = items[Mine(q)].blocks[b].is_scan
           /\ new.blocks[b].scan = items[Mine(q)].blocks[b].scan,
         new.next >= items[Mine(q)].next, new.active < new.next
  PROVE  Works(Mine(q)) /\ items'[Mine(q)] = new
<1>1. Mine(q) \in DOMAIN items /\ items \in Seq(ItemSet)
  BY MineType DEF Types, ItemType
<1> HIDE DEF Mine
<1> QED
  BY <1>1 DEF Works, Others

LEMMA PopEffect == ASSUME Types, NEW q \in Queues, Pop(q) PROVE Pops(q)
  BY GoEffect DEF Pop, Pops, Types, Places, NoItem
LEMMA TakeEffect == ASSUME Types, NEW q \in Queues, Take(q) PROVE Takes(q)
<1>1. worker \in [Queues -> [pc : Places, item : Nat, read : Nat]] /\ queue[q] \in Seq(Nat)
  BY DEF Types, PlaceType, QueuePlace, WorkerPlace, InserterPlace
<1>2. CASE queue[q] = <<>>
  <2>1. worker' = [worker EXCEPT ![q] = [worker[q] EXCEPT !.item = 0]] /\ At(q, "take") /\ NoItem
    BY <1>2 DEF Take, NoItem
  <2> QED
    BY <1>1, <2>1 DEF Takes, Goes, At
<1>3. CASE queue[q] # <<>>
  <2>1. worker' = [worker EXCEPT ![q] = [worker[q] EXCEPT !.item = Head(queue[q]), !.pc = "next"]] /\ At(q, "take") /\ NoItem
    BY <1>3 DEF Take, NoItem
  <2>2. Head(queue[q]) \in Nat /\ "next" \in Places
    BY <1>1, <1>3 DEF Places
  <2> QED
    BY <1>1, <1>3, <2>1, <2>2 DEF Takes, Goes, At
<1> QED
  BY <1>2, <1>3
LEMMA TurnEffect == ASSUME Types, NEW q \in Queues, Again(q) PROVE Turns(q)
<1>1. (Go(q, "next") \/ Go(q, "dead")) /\ NoItem /\ At(q, "again")
  BY DEF Again, NoItem
<1> QED
  BY <1>1, GoEffect DEF Turns, Types, Places
LEMMA ReadEffect == ASSUME Types, NEW q \in Queues, ReadNumber(q) PROVE Reads(q)
<1>1. worker \in [Queues -> [pc : Places, item : Nat, read : Nat]] /\ scan_number \in Nat /\ "write" \in Places
  BY DEF Types, PlaceType, QueuePlace, WorkerPlace, InserterPlace, NumberType, Places
<1> QED
  BY <1>1 DEF ReadNumber, Reads, Goes, Keeps, NoItem

\* The number that a block is announced with is a number: the blocks ahead are finitely many.
LEMMA PredictedType ==
  ASSUME Types, NEW q \in Queues, NEW i, NEW scan
  PROVE  Predicted(q, i, scan) \in Nat /\ IsFiniteSet(Ahead(q, i, scan))
<1> DEFINE longest == [j \in DOMAIN items |-> Len(items[j].blocks)]
<1>1. queue[q] \in Seq(Nat) /\ items \in Seq(ItemSet) /\ \A k \in DOMAIN queue[q] : queue[q][k] \in DOMAIN items
  BY DEF Types, PlaceType, QueuePlace, WorkerPlace, InserterPlace, ItemType, Home, IsItem
<1>2. UpTo(q, i) \subseteq DOMAIN items
  BY <1>1 DEF UpTo
<1>3. IsFiniteSet(DOMAIN items) /\ \A j \in DOMAIN items : IsFiniteSet(DOMAIN items[j].blocks)
  <2>1. IsFiniteSet(1..Len(items)) /\ DOMAIN items = 1..Len(items)
    BY <1>1, FS_Interval
  <2>2. ASSUME NEW j \in DOMAIN items PROVE IsFiniteSet(DOMAIN items[j].blocks)
    <3>1. items[j].blocks \in Seq(BlockSet)
      <4>1. items[j] \in ItemSet
        BY <1>1
      <4> QED
        BY <4>1 DEF ItemSet
    <3>2. Len(items[j].blocks) \in Int /\ DOMAIN items[j].blocks = 1..Len(items[j].blocks)
      BY <3>1
    <3> QED
      BY <3>2, FS_Interval
  <2> QED
    BY <2>1, <2>2
<1>4. IsFiniteSet(BlocksUpTo(q, i))
  <2> DEFINE Product(j) == {j} \X DOMAIN items[j].blocks
  <2>1. IsFiniteSet(UpTo(q, i))
    BY <1>2, <1>3, FS_Subset
  <2>2. ASSUME NEW j \in UpTo(q, i) PROVE IsFiniteSet(Product(j))
    BY <1>2, <1>3, FS_Singleton, FS_Product
  <2> DEFINE Families == {Product(j) : j \in UpTo(q, i)}
  <2>3. IsFiniteSet(Families)
    <3> HIDE DEF Product
    <3>1. [j \in UpTo(q, i) |-> Product(j)] \in Surjection(UpTo(q, i), Families)
      BY DEF Surjection
    <3> QED
      BY <2>1, <3>1, FS_Surjection
  <2>4. \A T \in Families : IsFiniteSet(T)
    BY <2>2
  <2>5. IsFiniteSet(UNION Families)
    BY <2>3, <2>4, FS_UNION
  <2> QED
    BY <2>5 DEF BlocksUpTo
<1>5. Ahead(q, i, scan) \subseteq BlocksUpTo(q, i)
  BY DEF Ahead
<1>6. IsFiniteSet(Ahead(q, i, scan))
  BY <1>4, <1>5, FS_Subset
<1>7. Cardinality(Ahead(q, i, scan)) \in Nat
  BY <1>6, FS_CardinalityType
<1> QED
  BY <1>6, <1>7 DEF Predicted, Types, NumberType

LEMMA PullEffect == ASSUME Types, NEW q \in Queues, Pull(q) PROVE Pulls(q)
<1> DEFINE i == Mine(q)
           old == items[i]
           n == old.next
           m == IF old.blocks[n].is_scan THEN Predicted(q, i, old.blocks[n].scan) ELSE 0
<1>1. worker[q].pc # "take" /\ old \in ItemSet /\ old.active < old.next /\ n \in DOMAIN old.blocks
  BY MineType DEF Pull, At, Item
<1>2. m \in Nat
  BY PredictedType
<1> DEFINE block == [old.blocks[n] EXCEPT !.number = m]
           new == [old EXCEPT !.next = n + 1, !.active = n, !.blocks = [old.blocks EXCEPT ![n] = block]]
<1>3. items' = [items EXCEPT ![i] = new]
  BY DEF Pull, Item
<1> HIDE DEF m, i
<1>4. old.blocks \in Seq(BlockSet) /\ old.blocks[n] \in BlockSet
  BY <1>1 DEF ItemSet
<1>5. /\ block \in BlockSet /\ block.number = m /\ block.req = old.blocks[n].req /\ block.is_scan = old.blocks[n].is_scan
      /\ block.scan = old.blocks[n].scan
  BY <1>2, <1>4 DEF BlockSet
<1> HIDE DEF block
<1>6. /\ [old.blocks EXCEPT ![n] = block] \in Seq(BlockSet) /\ DOMAIN [old.blocks EXCEPT ![n] = block] = DOMAIN old.blocks
      /\ [old.blocks EXCEPT ![n] = block][n] = block
      /\ \A b \in DOMAIN old.blocks : b # n => [old.blocks EXCEPT ![n] = block][b] = old.blocks[b]
  BY <1>1, <1>4, <1>5
<1>7. n \in Nat /\ n + 1 \in Nat
  BY <1>1 DEF ItemSet
<1>8. /\ new \in ItemSet /\ new.next = n + 1 /\ new.active = n /\ new.blocks = [old.blocks EXCEPT ![n] = block]
      /\ new.defs = old.defs /\ new.status = old.status
  BY <1>1, <1>6, <1>7 DEF ItemSet
<1> HIDE DEF new
<1>9. Works(i) /\ items'[i] = new
  <2>1. /\ DOMAIN new.blocks = DOMAIN old.blocks
        /\ \A b \in DOMAIN new.blocks :
             /\ new.blocks[b].req = old.blocks[b].req /\ new.blocks[b].is_scan = old.blocks[b].is_scan
             /\ new.blocks[b].scan = old.blocks[b].scan
    BY <1>5, <1>6, <1>8
  <2>2. new.next >= old.next /\ new.active < new.next
    BY <1>7, <1>8
  <2> QED
    BY <1>1, <1>3, <1>8, <2>1, <2>2, WorksOn DEF i
<1>10. At(q, "next") /\ Goes(q, "first") /\ Keeps(q)
  BY GoEffect DEF Pull, Types, Places
<1>11. new.blocks[n].number = m
  BY <1>5, <1>6, <1>8
<1> QED
  BY <1>1, <1>8, <1>9, <1>10, <1>11 DEF Pulls, i, m

LEMMA FinishEffect == ASSUME Types, NEW q \in Queues, Finish(q) PROVE Finishes(q)
<1> DEFINE i == Mine(q)
           new == [items[i] EXCEPT !.status = "COMPLETED"]
<1>1. worker[q].pc # "take" /\ items[i] \in ItemSet /\ items[i].active < items[i].next
  BY MineType DEF Finish, At
<1>2. items' = [items EXCEPT ![i] = new] /\ items[i].defs = {}
  BY DEF Finish, MustWait
<1> HIDE DEF i
<1>3. /\ new \in ItemSet /\ new.status = "COMPLETED" /\ new.blocks = items[i].blocks /\ new.next = items[i].next
      /\ new.active = items[i].active /\ new.defs = items[i].defs /\ new.next >= items[i].next
  BY <1>1 DEF ItemSet
<1> HIDE DEF new
<1>4. Works(i) /\ items'[i] = new
  BY <1>1, <1>2, <1>3, WorksOn DEF i
<1>5. At(q, "next") /\ Goes(q, "choose") /\ Keeps(q)
  BY GoEffect DEF Finish, Types, Places
<1> QED
  BY <1>2, <1>3, <1>4, <1>5 DEF Finishes, Same, i

LEMMA StartEffect == ASSUME Types, NEW q \in Queues, Start(q) PROVE Begins(q)
<1> DEFINE i == Mine(q)
           new == [items[i] EXCEPT !.status = "RUNNING"]
<1>1. worker[q].pc # "take" /\ items[i] \in ItemSet /\ items[i].active < items[i].next
  BY MineType DEF Start, At
<1>2. items' = [items EXCEPT ![i] = new]
  BY DEF Start
<1> HIDE DEF i
<1>3. /\ new \in ItemSet /\ new.status = "RUNNING" /\ new.blocks = items[i].blocks /\ new.next = items[i].next
      /\ new.active = items[i].active /\ new.defs = items[i].defs /\ new.next >= items[i].next
  BY <1>1 DEF ItemSet
<1> HIDE DEF new
<1>4. Works(i) /\ items'[i] = new
  BY <1>1, <1>2, <1>3, WorksOn DEF i
<1>5. At(q, "first") /\ Goes(q, "last") /\ Keeps(q)
  BY GoEffect DEF Start, Types, Places
<1> QED
  BY <1>3, <1>4, <1>5 DEF Begins, Same, i

LEMMA AbortEffect == ASSUME Types, NEW q \in Queues, Abort(q), worker[q].pc \in {"first", "last"} PROVE Aborts(q)
<1> DEFINE i == Mine(q)
           new == [items[i] EXCEPT !.status = "STOPPED"]
<1>1. worker[q].pc # "take" /\ items[i] \in ItemSet /\ items[i].active < items[i].next
  BY MineType
<1>2. items' = [items EXCEPT ![i] = new]
  BY DEF Abort
<1>3. \A e \in items[i].defs : e.def \in log.defs'
  BY DEF Abort, Types, LogType, Item
<1> HIDE DEF i
<1>4. /\ new \in ItemSet /\ new.status = "STOPPED" /\ new.blocks = items[i].blocks /\ new.next = items[i].next
      /\ new.active = items[i].active /\ new.defs = items[i].defs /\ new.next >= items[i].next
  BY <1>1 DEF ItemSet
<1> HIDE DEF new
<1>5. Works(i) /\ items'[i] = new
  BY <1>1, <1>2, <1>4, WorksOn DEF i
<1>6. Goes(q, "count") /\ Keeps(q)
  BY GoEffect DEF Abort, Types, Places
<1> QED
  BY <1>3, <1>4, <1>5, <1>6 DEF Aborts, Same, i

LEMMA EndEffect == ASSUME Types, NEW q \in Queues, LastInstruction(q) PROVE Ends(q)
<1> DEFINE i == Mine(q)
           r == ActiveRequest(q)
           defs == IF r.kind = "close_scan_def" THEN items[i].defs \ ScansOf(items[i].defs, r.def) ELSE items[i].defs
           item == [items[i] EXCEPT !.defs = defs, !.closed = items[i].closed \/ r.kind = "close_scan_group"]
           leaves == r.kind = "close_scan_group" /\ item.defs = {}
           new == IF leaves THEN [item EXCEPT !.status = "COMPLETED"] ELSE item
<1>1. worker[q].pc # "take" /\ items[i] \in ItemSet /\ items[i].active < items[i].next
  BY MineType DEF LastInstruction, At
<1>2. items' = [items EXCEPT ![i] = new] /\ Go(q, IF leaves THEN "choose" ELSE "count") /\ At(q, "last")
  BY DEF LastInstruction, Item
<1>3. (leaves => Goes(q, "choose")) /\ (~leaves => Goes(q, "count")) /\ Keeps(q)
  BY <1>2, GoEffect DEF Types, Places
<1> HIDE DEF i
<1>4. defs \subseteq items[i].defs /\ defs \in SUBSET Entries
  BY <1>1 DEF ItemSet
<1> HIDE DEF defs
<1>5. /\ item \in ItemSet /\ item.defs = defs /\ item.blocks = items[i].blocks /\ item.next = items[i].next
      /\ item.active = items[i].active /\ item.status = items[i].status
  BY <1>1, <1>4 DEF ItemSet
<1> HIDE DEF item
<1>6. /\ new \in ItemSet /\ new.defs = defs /\ new.blocks = items[i].blocks /\ new.next = items[i].next
      /\ new.active = items[i].active /\ new.status = IF leaves THEN "COMPLETED" ELSE items[i].status
  BY <1>5 DEF ItemSet
<1>7. leaves <=> (r.kind = "close_scan_group" /\ defs = {})
  BY <1>5
<1> HIDE DEF leaves
<1> HIDE DEF new
<1>8. new.next >= items[i].next /\ new.active < new.next
  BY <1>1, <1>6 DEF ItemSet
<1>9. Works(i) /\ items'[i] = new
  BY <1>1, <1>2, <1>6, <1>8, WorksOn DEF i
<1>10. items'[i].defs = defs /\ items'[i].status = (IF leaves THEN "COMPLETED" ELSE items[i].status) /\ Same(i)
  BY <1>6, <1>9 DEF Same
<1> QED
  BY <1>2, <1>3, <1>7, <1>9, <1>10 DEF Ends, i, defs

\* The end of a block, with n the number that the worker has read.
LEMMA LeaveEffect ==
  ASSUME Types, NEW q \in Queues, (At(q, "count") /\ ~Counts(q)) \/ At(q, "write"), NEW n \in Nat, items' = Leave(q),
         worker' = [worker EXCEPT ![q] = [@ EXCEPT !.pc = IF After(q) = "next" THEN "again" ELSE "choose", !.read = n]]
  PROVE  Leaves(q)
<1> DEFINE i == Mine(q)
           new == IF items[i].status = "STOPPED" THEN items[i] ELSE [items[i] EXCEPT !.active = 0]
<1>1. worker[q].pc # "take" /\ items[i] \in ItemSet /\ items[i].active < items[i].next
  BY MineType DEF At
<1>2. items' = [items EXCEPT ![i] = new]
  <2>1. items \in Seq(ItemSet) /\ i \in DOMAIN items
    BY <1>1, MineType DEF Types, ItemType
  <2>2. [items EXCEPT ![i] = items[i]] = items
    BY <2>1
  <2>3. CASE items[i].status = "STOPPED"
    <3>1. items' = items /\ new = items[i]
      BY <2>3 DEF Leave, Item
    <3> QED
      BY <2>2, <3>1
  <2>4. CASE items[i].status # "STOPPED"
    BY <2>4 DEF Leave, Item
  <2> QED
    BY <2>3, <2>4
<1>3. /\ items[i].status = "STOPPED" => Goes(q, "choose")
      /\ items[i].status # "STOPPED" => Goes(q, "again")
      /\ Keeps(q)
  <2>1. worker \in [Queues -> [pc : Places, item : Nat, read : Nat]]
    BY DEF Types, PlaceType, QueuePlace, WorkerPlace, InserterPlace
  <2>2. CASE items[i].status = "STOPPED"
    <3>1. worker' = [worker EXCEPT ![q] = [worker[q] EXCEPT !.pc = "choose", !.read = n]] /\ "choose" \in Places
      BY <2>2 DEF After, Item, Places
    <3> QED
      <4>1. PICK w : w = [worker[q] EXCEPT !.pc = "choose", !.read = n]
        OBVIOUS
      <4>0. worker[q] \in [pc : Places, item : Nat, read : Nat]
        BY <2>1
      <4>2. w \in [pc : Places, item : Nat, read : Nat] /\ w.pc = "choose" /\ w.item = worker[q].item
        BY <3>1, <4>0, <4>1
      <4> QED
        BY <2>1, <2>2, <3>1, <4>1, <4>2 DEF Goes, Keeps
  <2>3. CASE items[i].status # "STOPPED"
    <3>1. worker' = [worker EXCEPT ![q] = [worker[q] EXCEPT !.pc = "again", !.read = n]] /\ "again" \in Places
      BY <2>3 DEF After, Item, Places
    <3> QED
      <4>1. PICK w : w = [worker[q] EXCEPT !.pc = "again", !.read = n]
        OBVIOUS
      <4>0. worker[q] \in [pc : Places, item : Nat, read : Nat]
        BY <2>1
      <4>2. w \in [pc : Places, item : Nat, read : Nat] /\ w.pc = "again" /\ w.item = worker[q].item
        BY <3>1, <4>0, <4>1
      <4> QED
        BY <2>1, <2>3, <3>1, <4>1, <4>2 DEF Goes, Keeps
  <2> QED
    BY <2>2, <2>3
<1> HIDE DEF i
<1>4. /\ new \in ItemSet /\ new.defs = items[i].defs /\ new.blocks = items[i].blocks /\ new.next = items[i].next
      /\ new.status = items[i].status /\ new.active < new.next /\ new.next >= items[i].next
  BY <1>1 DEF ItemSet
<1> HIDE DEF new
<1>5. Works(i) /\ items'[i] = new
  BY <1>1, <1>2, <1>4, WorksOn DEF i
<1> QED
  BY <1>3, <1>4, <1>5 DEF Leaves, i

\* Every step of a worker is one of these.
WorkerMoves(q) ==
  Pops(q) \/ Takes(q) \/ Pulls(q) \/ Finishes(q) \/ Begins(q) \/ Ends(q) \/ Leaves(q) \/ Reads(q) \/ Turns(q) \/ Aborts(q)
LEMMA WorkerEffect ==
  ASSUME Types, NEW q \in Queues, Worker(q) \/ Restart(q)
  PROVE  WorkerMoves(q)
<1>1. CASE Uncounted(q)
  <2>1. items' = Leave(q) /\ At(q, "count") /\ ~Counts(q)
        /\ worker' = [worker EXCEPT ![q] = [@ EXCEPT !.pc = IF After(q) = "next" THEN "again" ELSE "choose", !.read = 0]]
    BY <1>1 DEF Uncounted, EndBlock
  <2> QED
    BY <2>1, LeaveEffect DEF At, WorkerMoves
<1>2. CASE WriteNumber(q)
  <2>1. items' = Leave(q) /\ At(q, "write")
        /\ worker' = [worker EXCEPT ![q] = [@ EXCEPT !.pc = IF After(q) = "next" THEN "again" ELSE "choose", !.read = 0]]
    BY <1>2 DEF WriteNumber
  <2> QED
    BY <2>1, LeaveEffect DEF At, WorkerMoves
<1>3. CASE Fail(q) \/ Restart(q)
  <2>1. Abort(q) /\ worker[q].pc \in {"first", "last"}
    BY <1>3 DEF Fail, Restart, At
  <2> QED
    BY <2>1, AbortEffect DEF WorkerMoves
<1> QED
  BY <1>1, <1>2, <1>3, PopEffect, TakeEffect, PullEffect, FinishEffect, StartEffect, EndEffect, ReadEffect, TurnEffect
     DEF Worker, WorkerMoves

-----------------------------------------------------------------------------
(* The types are invariant.                                                *)

\* A request becomes a block of an item of its queue, or a new item in that queue.
Joins(i, r) == Adds(i, r) /\ Home(i, sent[r].queue) /\ queue' = queue
Arrives(r) ==
  LET q == sent[r].queue  i == Len(items) + 1 IN
  /\ Makes(i, r)
  /\ \/ queue' = [queue EXCEPT ![q] = Append(queue[q], i)]
     \/ queue' = [queue EXCEPT ![q] = <<i>> \o queue[q]]
LEMMA InsertEffect ==
  ASSUME Types, Insert
  PROVE  /\ inserter.pc = "insert" /\ inserter.req \in Accepted /\ inserter.req \in DOMAIN sent
         /\ inserter' = [inserter EXCEPT !.pc = "idle"] /\ items' \in Seq(ItemSet) /\ Len(items') >= Len(items)
         /\ \/ inserter.item # 0 /\ Joins(inserter.item, inserter.req)
            \/ inserter.item = 0 /\ Arrives(inserter.req)
               /\ queue' = [queue EXCEPT ![sent[inserter.req].queue] = Append(@, Len(items) + 1)]
         /\ log.defs' = log.defs /\ log.pushed' = log.pushed /\ log.raced' = log.raced
         /\ UNCHANGED <<client, answered, inserts, worker, numbers, restarts, opened>>
<1> DEFINE r == inserter.req
           i == inserter.item
<1>1. inserter.pc = "insert" /\ inserter' = [inserter EXCEPT !.pc = "idle"]
      /\ UNCHANGED <<client, answered, inserts, worker, numbers, restarts, opened>>
  BY DEF Insert
<1>2. r \in Accepted /\ r \in DOMAIN sent
  BY <1>1 DEF Types, InsertType, AnswerType, ClientType, Accepted
<1>3. log.defs' = log.defs /\ log.pushed' = log.pushed /\ log.raced' = log.raced
  BY DEF Insert, Types, LogType
<1>4. CASE i # 0
  <2>1. items' = [items EXCEPT ![i] = AppendBlock(@, i, r)] /\ queue' = queue
    BY <1>4 DEF Insert
  <2>2. Home(i, sent[r].queue)
    BY <1>1, <1>4 DEF Types, PlaceType, QueuePlace, WorkerPlace, InserterPlace
  <2>3. i \in DOMAIN items
    BY <2>2 DEF Home, IsItem, Types, ItemType
  <2>4. Adds(i, r) /\ items' \in Seq(ItemSet) /\ Len(items') = Len(items)
    BY <1>2, <2>1, <2>3, AddsBlock DEF Types
  <2> QED
    BY <1>1, <1>2, <1>3, <1>4, <2>1, <2>2, <2>4 DEF Joins
<1>5. CASE i = 0
  <2>1. /\ items' = Append(items, NewItem(Len(items) + 1, r))
        /\ queue' = [queue EXCEPT ![sent[r].queue] = Append(@, Len(items) + 1)]
    BY <1>5 DEF Insert
  <2>2. Makes(Len(items) + 1, r) /\ items' \in Seq(ItemSet) /\ Len(items') = Len(items) + 1
    BY <1>2, <2>1, MakesItem DEF Types
  <2> QED
    BY <1>1, <1>2, <1>3, <1>5, <2>1, <2>2 DEF Arrives
<1> QED
  BY <1>4, <1>5

\* A restart does the same with the first request of an item.
LEMMA ReinsertEffect ==
  ASSUME Types, NEW k \in DOMAIN restarts, Reinsert(k)
  PROVE  \E r \in Accepted :
           /\ \E i \in DOMAIN items : \E b \in DOMAIN items[i].blocks : items[i].blocks[b].req = r
           /\ r \in DOMAIN sent /\ items' \in Seq(ItemSet) /\ Len(items') >= Len(items)
           /\ \/ \E j \in DOMAIN items : Joins(j, r) /\ log.pushed' = log.pushed
              \/ Arrives(r) /\ LET q == sent[r].queue IN
                               /\ queue' = [queue EXCEPT ![q] = <<Len(items) + 1>> \o @]
                               /\ log.pushed' = (log.pushed \/ worker[q].item \in ToSet(queue[q]))
           /\ Def(r) # 0 => Def(r) \in log.defs'
           /\ log.defs \subseteq log.defs' /\ log.raced' = log.raced
           /\ DOMAIN restarts' = DOMAIN restarts
           /\ UNCHANGED <<client, answered, inserts, inserter, worker, numbers, opened>>
<1> DEFINE r == items[k].blocks[1].req
           q == QueueOf(k)
<1>1. /\ r \in Accepted /\ r \in DOMAIN sent /\ q = sent[r].queue /\ q \in Queues
      /\ k \in DOMAIN items /\ 1 \in DOMAIN items[k].blocks
  <2>1. k \in DOMAIN items
    BY DEF Types, RestartType, Home, IsItem, ItemType
  <2>2. items[k] \in ItemSet /\ items[k].blocks # <<>>
    BY <2>1 DEF Types, ItemType
  <2>3. 1 \in DOMAIN items[k].blocks
    BY <2>2 DEF ItemSet
  <2>4. r \in Accepted
    BY <2>1, <2>3 DEF Types, ItemType
  <2>5. r \in DOMAIN sent
    BY <2>4 DEF Types, AnswerType, ClientType, Accepted
  <2> QED
    BY <2>1, <2>3, <2>4, <2>5, SentType DEF QueueOf, Types
<1>b. \E i \in DOMAIN items : \E b \in DOMAIN items[i].blocks : items[i].blocks[b].req = r
  BY <1>1
<1>j. PICK j \in ToSet(queue[q]) \cup {0} :
        /\ j # 0 => items' = [items EXCEPT ![j] = AppendBlock(@, j, r)] /\ queue' = queue
        /\ j = 0 => /\ items' = Append(items, NewItem(Len(items) + 1, r))
                    /\ queue' = [queue EXCEPT ![q] = <<Len(items) + 1>> \o @]
        /\ log' = [log EXCEPT !.over = IF j # 0 /\ Ended(j) THEN @ ELSE @ \ {r}, !.defs = @ \cup ({sent[r].def} \ {0}),
                              !.pushed = @ \/ (j = 0 /\ worker[q].item \in ToSet(queue[q]))]
  BY DEF Reinsert, Mine
<1>2. /\ Def(r) # 0 => Def(r) \in log.defs'
      /\ log.defs \subseteq log.defs' /\ log.raced' = log.raced
      /\ log.pushed' = (log.pushed \/ (j = 0 /\ worker[q].item \in ToSet(queue[q])))
  BY <1>j DEF Types, LogType, Def
<1>3. /\ UNCHANGED <<client, answered, inserts, inserter, worker, numbers, opened>>
      /\ DOMAIN restarts' = DOMAIN restarts
  BY DEF Reinsert
<1>5. j # 0 => j \in DOMAIN items /\ Home(j, q)
  <2> SUFFICES ASSUME j # 0 PROVE j \in DOMAIN items /\ Home(j, q)
    OBVIOUS
  <2>3. PICK n \in DOMAIN queue[q] : j = queue[q][n]
    BY DEF ToSet
  <2>4. Home(queue[q][n], q)
    BY <1>1, <2>3 DEF Types, PlaceType, QueuePlace, WorkerPlace, InserterPlace
  <2>5. DOMAIN items = 1..Len(items)
    BY DEF Types, ItemType
  <2> HIDE DEF q
  <2> QED
    BY <2>3, <2>4, <2>5 DEF Home, IsItem
<1>6. CASE j # 0
  <2>1. Adds(j, r) /\ items' \in Seq(ItemSet) /\ Len(items') = Len(items)
    BY <1>1, <1>j, <1>5, <1>6, AddsBlock DEF Types
  <2>2. Joins(j, r) /\ log.pushed' = log.pushed
    BY <1>1, <1>2, <1>j, <1>5, <1>6, <2>1 DEF Joins, Types, LogType
  <2> HIDE DEF r
  <2> QED
    BY <1>1, <1>b, <1>2, <1>3, <1>5, <1>6, <2>1, <2>2
<1>7. CASE j = 0
  <2>1. Makes(Len(items) + 1, r) /\ items' \in Seq(ItemSet) /\ Len(items') = Len(items) + 1
    BY <1>1, <1>j, <1>7, MakesItem DEF Types
  <2>2. Arrives(r) /\ log.pushed' = (log.pushed \/ worker[q].item \in ToSet(queue[q]))
        /\ queue' = [queue EXCEPT ![q] = <<Len(items) + 1>> \o @]
    BY <1>1, <1>2, <1>j, <1>7, <2>1 DEF Arrives, Types, LogType
  <2>3. /\ queue' = [queue EXCEPT ![sent[r].queue] = <<Len(items) + 1>> \o @]
        /\ log.pushed' = (log.pushed \/ worker[sent[r].queue].item \in ToSet(queue[sent[r].queue]))
    BY <1>1, <2>2
  <2>4. Len(items') >= Len(items)
    BY <2>1 DEF Types, ItemType
  <2> HIDE DEF r, q
  <2> QED
    BY <1>1, <1>b, <1>2, <1>3, <2>1, <2>2, <2>3, <2>4
<1> QED
  BY <1>6, <1>7

\* What every step keeps: requests and their answers, and the queue that an item belongs to.
SentKept == \A r \in DOMAIN sent : r \in DOMAIN sent' /\ sent'[r] = sent[r]
ItemKept(i) ==
  /\ i \in DOMAIN items' /\ items'[i].blocks # <<>> /\ items'[i].active < items'[i].next
  /\ \A b \in DOMAIN items'[i].blocks :
       \/ b \in DOMAIN items[i].blocks /\ items'[i].blocks[b].req = items[i].blocks[b].req
       \/ items'[i].blocks[b].req \in Accepted /\ Home(i, sent[items'[i].blocks[b].req].queue)
  /\ DOMAIN items[i].blocks \subseteq DOMAIN items'[i].blocks
Remembers ==
  /\ SentKept /\ Accepted \subseteq Accepted' /\ items' \in Seq(ItemSet) /\ Len(items') >= Len(items)
  /\ \A i \in DOMAIN items : ItemKept(i)

LEMMA HomeOnce ==
  ASSUME Types, NEW i, NEW p, NEW q, Home(i, p), Home(i, q)
  PROVE  p = q /\ i \in DOMAIN items /\ 1 \in DOMAIN items[i].blocks
<1>1. i \in DOMAIN items /\ items[i] \in ItemSet /\ items[i].blocks # <<>>
  BY DEF Home, IsItem, Types, ItemType
<1>2. 1 \in DOMAIN items[i].blocks
  BY <1>1 DEF ItemSet
<1> QED
  BY <1>1, <1>2 DEF Home

LEMMA HomeKept ==
  ASSUME Types, Remembers, NEW i, NEW q, Home(i, q)
  PROVE  Home(i, q)'
<1>1. i \in DOMAIN items /\ DOMAIN items = 1..Len(items) /\ DOMAIN items' = 1..Len(items')
  BY HomeOnce DEF Types, ItemType, Remembers
<1>2. ItemKept(i) /\ Len(items') >= Len(items)
  BY <1>1 DEF Remembers
<1>3. ASSUME NEW b \in DOMAIN items'[i].blocks
      PROVE  sent'[items'[i].blocks[b].req].queue = q
  <2>1. CASE b \in DOMAIN items[i].blocks /\ items'[i].blocks[b].req = items[i].blocks[b].req
    <3>1. items[i].blocks[b].req \in DOMAIN sent
      BY <1>1, <2>1 DEF Types, ItemType, AnswerType, ClientType, Accepted
    <3> QED
      BY <2>1, <3>1 DEF Home, Remembers, SentKept
  <2>2. CASE items'[i].blocks[b].req \in Accepted /\ Home(i, sent[items'[i].blocks[b].req].queue)
    <3>1. items'[i].blocks[b].req \in DOMAIN sent
      BY <2>2 DEF Types, AnswerType, ClientType, Accepted
    <3>2. sent[items'[i].blocks[b].req].queue = q
      BY <2>2, HomeOnce
    <3> QED
      BY <3>1, <3>2 DEF Remembers, SentKept
  <2> QED
    BY <1>2, <1>3, <2>1, <2>2 DEF ItemKept
<1> QED
  BY <1>1, <1>2, <1>3 DEF Home, IsItem

\* Steps that leave the items alone remember; so do those of a worker, and added requests.
LEMMA RemembersItems == ASSUME Types, SentKept, Accepted \subseteq Accepted', NoItem PROVE Remembers
<1>1. ASSUME NEW i \in DOMAIN items PROVE ItemKept(i)
  BY DEF Types, ItemType, NoItem, ItemKept
<1> QED
  BY <1>1 DEF Types, ItemType, NoItem, Remembers
LEMMA RemembersWork ==
  ASSUME Types, SentKept, Accepted \subseteq Accepted', NEW k, Works(k)
  PROVE  Remembers
<1>1. ASSUME NEW i \in DOMAIN items PROVE ItemKept(i)
  <2>1. CASE i # k
    BY <2>1 DEF Types, ItemType, Works, Others, ItemKept
  <2>2. CASE i = k
    <3>1. /\ items[k].blocks # <<>> /\ k \in DOMAIN items /\ items[k] \in ItemSet /\ items'[k] \in ItemSet
          /\ DOMAIN items'[k].blocks = DOMAIN items[k].blocks
          /\ items'[k].active < items'[k].next
          /\ \A b \in DOMAIN items[k].blocks : items'[k].blocks[b].req = items[k].blocks[b].req
      BY <2>2 DEF Types, ItemType, Works
    <3>2. items'[k].blocks # <<>>
      BY <3>1 DEF ItemSet
    <3> QED
      BY <2>2, <3>1, <3>2 DEF ItemKept, Works
  <2> QED
    BY <2>1, <2>2
<1> QED
  BY <1>1 DEF Remembers, Works, Types, ItemType
LEMMA RemembersAdding ==
  ASSUME Types, SentKept, Accepted \subseteq Accepted', NEW r \in Accepted,
         items' \in Seq(ItemSet), Len(items') >= Len(items),
         (\E i : Joins(i, r)) \/ Arrives(r)
  PROVE  /\ Remembers
         /\ \A i \in DOMAIN items' \ DOMAIN items :
              Makes(i, r) /\ items'[i].blocks # <<>> /\ items'[i].active < items'[i].next
              /\ \A b \in DOMAIN items'[i].blocks : items'[i].blocks[b].req = r
<1>1. CASE \E i : Joins(i, r)
  <2>1. PICK j : Joins(j, r)
    BY <1>1
  <2>2. /\ j \in DOMAIN items /\ DOMAIN items' = DOMAIN items /\ Others(j) /\ Extends(items'[j], items[j], r)
        /\ Home(j, sent[r].queue)
    BY <2>1 DEF Joins, Adds
  <2>3. ASSUME NEW i \in DOMAIN items PROVE ItemKept(i)
    <3>1. CASE i # j
      BY <2>2, <3>1 DEF Types, ItemType, Others, ItemKept
    <3>2. CASE i = j
      <4>1. items[j].blocks # <<>> /\ items[j] \in ItemSet /\ items'[j] \in ItemSet /\ items[j].active < items[j].next
        BY <2>2 DEF Types, ItemType, Extends
      <4>2. items'[j].blocks # <<>>
        BY <2>2, <4>1 DEF ItemSet, Extends
      <4>3. ASSUME NEW b \in DOMAIN items'[j].blocks
            PROVE  \/ b \in DOMAIN items[j].blocks /\ items'[j].blocks[b].req = items[j].blocks[b].req
                   \/ items'[j].blocks[b].req = r
        BY <2>2 DEF Extends
      <4> QED
        BY <2>2, <3>2, <4>1, <4>2, <4>3 DEF ItemKept, Extends
    <3> QED
      BY <3>1, <3>2
  <2> QED
    BY <2>2, <2>3 DEF Remembers
<1>2. CASE Arrives(r)
  <2> DEFINE n == Len(items) + 1
  <2>1. /\ n \notin DOMAIN items /\ DOMAIN items' = DOMAIN items \cup {n} /\ Others(n)
        /\ Extends(items'[n], EmptyItem(sent[r].group), r) /\ Makes(n, r)
    BY <1>2 DEF Arrives, Makes
  <2>2. ASSUME NEW i \in DOMAIN items PROVE ItemKept(i)
    BY <2>1 DEF Types, ItemType, Others, ItemKept
  <2>3. /\ items'[n].blocks # <<>> /\ items'[n].active < items'[n].next
        /\ \A b \in DOMAIN items'[n].blocks : items'[n].blocks[b].req = r
    BY <2>1 DEF Extends, EmptyItem, ItemSet
  <2> HIDE DEF n
  <2> QED
    BY <2>1, <2>2, <2>3 DEF Remembers
<1> QED
  BY <1>1, <1>2

LEMMA WorkerStays ==
  ASSUME Types, Remembers, NEW p \in Queues, worker'[p] = worker[p],
         Mine(p) # 0 => \/ items'[Mine(p)].active = items[Mine(p)].active
                        \/ worker[p].pc \notin {"first", "last", "count", "write"}
  PROVE  /\ Mine(p)' # 0 => Home(Mine(p), p)'
         /\ worker'[p].pc # "take" => Mine(p)' # 0
         /\ worker'[p].pc \in {"first", "last", "count", "write"} => Item(p).active' \in DOMAIN Item(p).blocks'
<1>1. Mine(p)' = Mine(p) /\ worker'[p].pc = worker[p].pc
  BY DEF Mine
<1>2. Mine(p) # 0 => Home(Mine(p), p)'
  <2> SUFFICES ASSUME Mine(p) # 0 PROVE Home(Mine(p), p)'
    OBVIOUS
  <2>1. PICK i : i = Mine(p)
    OBVIOUS
  <2>2. Home(i, p)
    BY <2>1 DEF Types, PlaceType, WorkerPlace
  <2>3. Home(i, p)'
    BY <2>2, HomeKept
  <2> QED
    BY <1>1, <2>1, <2>3
<1>3. ASSUME worker[p].pc \in {"first", "last", "count", "write"} PROVE Item(p).active' \in DOMAIN Item(p).blocks'
  <2>1. Mine(p) # 0 /\ Mine(p) \in DOMAIN items /\ items[Mine(p)].active \in DOMAIN items[Mine(p)].blocks
    BY <1>3, MineType DEF Types, PlaceType, WorkerPlace, Item
  <2>2. DOMAIN items[Mine(p)].blocks \subseteq DOMAIN items'[Mine(p)].blocks
    BY <2>1 DEF Remembers, ItemKept
  <2> QED
    BY <1>1, <1>3, <2>1, <2>2 DEF Item
<1> QED
  BY <1>1, <1>2, <1>3 DEF Types, PlaceType, WorkerPlace

\* Requests that are added leave the workers where they are.
LEMMA AddingStays ==
  ASSUME Types, Remembers, worker' = worker,
         NoItem \/ (\E i, r : Joins(i, r)) \/ (\E r : Arrives(r))
  PROVE  WorkerPlace'
<1>1. ASSUME NEW i \in DOMAIN items PROVE items'[i].active = items[i].active
  <2>1. CASE NoItem
    BY <2>1 DEF NoItem
  <2>2. CASE \E j, r : Joins(j, r)
    <3>1. PICK j, r : Joins(j, r)
      BY <2>2
    <3> QED
      BY <3>1 DEF Joins, Adds, Others, Extends
  <2>3. CASE \E r : Arrives(r)
    <3>1. PICK r : Arrives(r)
      BY <2>3
    <3> QED
      BY <3>1 DEF Arrives, Makes, Others
  <2> QED
    BY <2>1, <2>2, <2>3
<1>2. ASSUME NEW p \in Queues, Mine(p) # 0 PROVE Mine(p) \in DOMAIN items
  BY <1>2, HomeOnce DEF Types, PlaceType, WorkerPlace
<1>3. ASSUME NEW p \in Queues
      PROVE  /\ Mine(p)' # 0 => Home(Mine(p), p)'
             /\ worker'[p].pc # "take" => Mine(p)' # 0
             /\ worker'[p].pc \in {"first", "last", "count", "write"} => Item(p).active' \in DOMAIN Item(p).blocks'
  BY <1>1, <1>2, WorkerStays
<1>4. worker' \in [Queues -> [pc : Places, item : Nat, read : Nat]]
  BY DEF Types, PlaceType, WorkerPlace
<1> QED
  BY <1>3, <1>4 DEF WorkerPlace, Mine, Item

LEMMA MovesStay ==
  ASSUME Types, Remembers, NEW q \in Queues, WorkerMoves(q)
  PROVE  WorkerPlace'
<1>1. worker' \in [Queues -> [pc : Places, item : Nat, read : Nat]] /\ \A p \in Queues \ {q} : worker'[p] = worker[p]
  BY DEF WorkerMoves, Pops, Takes, Pulls, Finishes, Begins, Ends, Leaves, Reads, Turns, Aborts, Goes
<1>2. NoItem \/ (worker[q].pc # "take" /\ Works(Mine(q)))
  BY DEF WorkerMoves, Pops, Takes, Pulls, Finishes, Begins, Ends, Leaves, Reads, Turns, Aborts, At
<1>3. ASSUME NEW p \in Queues \ {q}
      PROVE  /\ Mine(p)' # 0 => Home(Mine(p), p)'
             /\ worker'[p].pc # "take" => Mine(p)' # 0
             /\ worker'[p].pc \in {"first", "last", "count", "write"} => Item(p).active' \in DOMAIN Item(p).blocks'
  <2>1. Mine(p) # 0 => items'[Mine(p)].active = items[Mine(p)].active
    <3> SUFFICES ASSUME Mine(p) # 0, Works(Mine(q)), worker[q].pc # "take" PROVE items'[Mine(p)].active = items[Mine(p)].active
      BY <1>2 DEF NoItem
    <3>1. Mine(p) # Mine(q) /\ Mine(p) \in DOMAIN items
      BY HomeOnce DEF Types, PlaceType, WorkerPlace
    <3> QED
      BY <3>1 DEF Works, Others
  <2> QED
    BY <1>1, <2>1, WorkerStays
<1>4. Mine(q)' # 0 => Home(Mine(q), q)'
  <2> SUFFICES ASSUME Mine(q)' # 0 PROVE Home(Mine(q), q)'
    OBVIOUS
  <2>1. PICK i : i = Mine(q)'
    OBVIOUS
  <2>2. Home(i, q)
    <3>1. CASE Keeps(q)
      BY <2>1, <3>1 DEF Keeps, Types, PlaceType, WorkerPlace, Mine
    <3>2. CASE Takes(q)
      <4>1. queue[q] # <<>> /\ i = Head(queue[q])
        BY <2>1, <3>2 DEF Takes, Mine
      <4>2. 1 \in DOMAIN queue[q] /\ i = queue[q][1] /\ Home(queue[q][1], q)
        BY <4>1 DEF Types, PlaceType, QueuePlace
      <4> QED
        BY <4>2
    <3> QED
      BY <3>1, <3>2 DEF WorkerMoves, Pops, Pulls, Finishes, Begins, Ends, Leaves, Reads, Turns, Aborts
  <2>3. Home(i, q)'
    BY <2>2, HomeKept
  <2> QED
    BY <2>1, <2>3
<1>5. worker'[q].pc # "take" => Mine(q)' # 0
  <2>1. CASE Takes(q)
    <3> SUFFICES ASSUME worker'[q].pc # "take" PROVE Mine(q)' # 0
      OBVIOUS
    <3>1. queue[q] # <<>> /\ Mine(q)' = Head(queue[q])
      BY <2>1 DEF Takes, Goes, Mine
    <3>2. 1 \in DOMAIN queue[q] /\ Mine(q)' = queue[q][1] /\ Home(queue[q][1], q)
      BY <3>1 DEF Types, PlaceType, QueuePlace
    <3> QED
      BY <3>2 DEF Home, IsItem
  <2>2. CASE ~Takes(q)
    BY <2>2 DEF WorkerMoves, Pops, Pulls, Finishes, Begins, Ends, Leaves, Reads, Turns, Aborts, Goes, Keeps, Mine, At,
                Types, PlaceType, WorkerPlace
  <2> QED
    BY <2>1, <2>2
<1>6. ASSUME worker'[q].pc \in {"first", "last", "count", "write"} PROVE Item(q).active' \in DOMAIN Item(q).blocks'
  <2>1. Keeps(q) /\ worker[q].pc # "take"
    BY <1>6 DEF WorkerMoves, Pops, Takes, Pulls, Finishes, Begins, Ends, Leaves, Reads, Turns, Aborts, Goes, At
  <2>2. Mine(q)' = Mine(q)
    BY <2>1 DEF Keeps, Mine
  <2>3. CASE Pulls(q)
    BY <2>2, <2>3 DEF Pulls, Works, Item
  <2>4. CASE Begins(q) \/ Ends(q) \/ Reads(q) \/ Aborts(q)
    <3>1. worker[q].pc \in {"first", "last", "count", "write"}
      BY <2>4 DEF Begins, Ends, Reads, Aborts, At
    <3>2. NoItem \/ Same(Mine(q))
      BY <2>4 DEF Begins, Ends, Reads, Aborts
    <3> QED
      BY <2>2, <3>1, <3>2 DEF Types, PlaceType, WorkerPlace, NoItem, Same, Item
  <2> QED
    BY <1>6, <2>3, <2>4 DEF WorkerMoves, Pops, Takes, Finishes, Leaves, Turns, Goes
<1>7. ASSUME NEW p \in Queues
      PROVE  /\ Mine(p)' # 0 => Home(Mine(p), p)'
             /\ worker'[p].pc # "take" => Mine(p)' # 0
             /\ worker'[p].pc \in {"first", "last", "count", "write"} => Item(p).active' \in DOMAIN Item(p).blocks'
  BY <1>3, <1>4, <1>5, <1>6
<1> QED
  BY <1>1, <1>7 DEF WorkerPlace, Mine, Item

LEMMA RestartsStay ==
  ASSUME Types, Remembers, \A i \in DOMAIN restarts' : i \in DOMAIN restarts \/ \E q \in Queues : Home(i, q)
  PROVE  RestartType'
<1>1. ASSUME NEW i \in DOMAIN restarts' PROVE \E q \in Queues : Home(i, q)'
  <2>1. PICK q \in Queues : Home(i, q)
    BY <1>1 DEF Types, RestartType
  <2> QED
    BY <2>1, HomeKept
<1> QED
  BY <1>1 DEF RestartType

\* A queue has its items, and perhaps a new one.
LEMMA QueueStays ==
  ASSUME Types, Remembers, queue' \in [Queues -> Seq(Nat)],
         \A q \in Queues : \A k \in DOMAIN queue'[q] :
           (\E l \in DOMAIN queue[q] : queue'[q][k] = queue[q][l]) \/ Home(queue[q][k], q)'
  PROVE  QueuePlace'
<1>1. ASSUME NEW q \in Queues, NEW k \in DOMAIN queue'[q] PROVE Home(queue[q][k], q)'
  <2>1. PICK i : i = queue'[q][k]
    OBVIOUS
  <2>2. CASE \E l \in DOMAIN queue[q] : queue'[q][k] = queue[q][l]
    <3>1. Home(i, q)
      BY <2>1, <2>2 DEF Types, PlaceType, QueuePlace
    <3>2. Home(i, q)'
      BY <3>1, HomeKept
    <3> QED
      BY <2>1, <3>2
  <2> QED
    BY <2>2
<1> QED
  BY <1>1 DEF QueuePlace
LEMMA ArrivalStays ==
  ASSUME Types, Remembers, NEW r \in Accepted, Arrives(r)
  PROVE  QueuePlace'
<1>p. PICK p : p = sent[r].queue
  OBVIOUS
<1>n. PICK n : n = Len(items) + 1
  OBVIOUS
<1>1. r \in DOMAIN sent /\ p \in Queues
  BY <1>p, SentType DEF Types, AnswerType, ClientType, Accepted
<1>2. n \in DOMAIN items' /\ n \in 1..Len(items') /\ Extends(items'[n], EmptyItem(sent[r].group), r) /\ n \in Nat
  BY <1>n DEF Arrives, Makes, Remembers, Types, ItemType
<1>3. \A b \in DOMAIN items'[n].blocks : items'[n].blocks[b].req = r
  BY <1>2 DEF Extends, EmptyItem
<1>4. Home(n, p)'
  <2>1. \A b \in DOMAIN items'[n].blocks : sent'[items'[n].blocks[b].req].queue = p
    BY <1>1, <1>3, <1>p DEF Remembers, SentKept
  <2> QED
    BY <1>2, <2>1 DEF Home, IsItem
<1>5. queue \in [Queues -> Seq(Nat)]
  BY DEF Types, PlaceType, QueuePlace
<1>6. \/ queue' = [queue EXCEPT ![p] = Append(queue[p], n)]
      \/ queue' = [queue EXCEPT ![p] = <<n>> \o queue[p]]
  BY <1>n, <1>p DEF Arrives
<1>7. /\ Append(queue[p], n) \in Seq(Nat) /\ \A k \in DOMAIN Append(queue[p], n) :
           Append(queue[p], n)[k] = n \/ \E l \in DOMAIN queue[p] : Append(queue[p], n)[k] = queue[p][l]
      /\ <<n>> \o queue[p] \in Seq(Nat) /\ \A k \in DOMAIN (<<n>> \o queue[p]) :
           (<<n>> \o queue[p])[k] = n \/ \E l \in DOMAIN queue[p] : (<<n>> \o queue[p])[k] = queue[p][l]
  <2> DEFINE s == queue[p]
  <2>1. s \in Seq(Nat) /\ n \in Nat
    BY <1>1, <1>2, <1>5
  <2> HIDE DEF s
  <2>2. /\ Append(s, n) \in Seq(Nat) /\ \A k \in DOMAIN Append(s, n) :
             Append(s, n)[k] = n \/ \E l \in DOMAIN s : Append(s, n)[k] = s[l]
    BY <2>1, Appended
  <2>3. /\ <<n>> \o s \in Seq(Nat) /\ \A k \in DOMAIN (<<n>> \o s) :
             (<<n>> \o s)[k] = n \/ \E l \in DOMAIN s : (<<n>> \o s)[k] = s[l]
    BY <2>1
  <2> QED
    BY <2>2, <2>3 DEF s
<1>8. queue' \in [Queues -> Seq(Nat)]
  BY <1>1, <1>5, <1>6, <1>7
<1>9. ASSUME NEW q \in Queues, NEW k \in DOMAIN queue'[q]
      PROVE  (\E l \in DOMAIN queue[q] : queue'[q][k] = queue[q][l]) \/ (q = p /\ queue'[q][k] = n)
  BY <1>1, <1>5, <1>6, <1>7
<1>10. \A q \in Queues : \A k \in DOMAIN queue'[q] :
         (\E l \in DOMAIN queue[q] : queue'[q][k] = queue[q][l]) \/ Home(queue[q][k], q)'
  <2> SUFFICES ASSUME NEW q \in Queues, NEW k \in DOMAIN queue'[q], q = p, queue'[q][k] = n
               PROVE  Home(queue[q][k], q)'
    BY <1>9
  <2> QED
    BY <1>4
<1> QED
  BY <1>8, <1>10, QueueStays

\* The inserter's view of the queue stays one of items of that queue.
LEMMA InserterStays ==
  ASSUME Types, Remembers,
         inserter' = inserter \/ inserter'.pc = "idle"
  PROVE  InserterPlace'
<1>1. CASE inserter'.pc = "idle"
  BY <1>1 DEF InserterPlace
<1>2. CASE inserter' = inserter
  <2>1. inserter.pc # "idle" => sent'[inserter.req] = sent[inserter.req]
    BY DEF Types, InsertType, AnswerType, ClientType, Accepted, Remembers, SentKept
  <2>2. ASSUME inserter.pc = "look", NEW k \in DOMAIN inserter.seen
        PROVE  Home(inserter.seen[k], sent[inserter.req].queue)'
    <3>1. PICK i, q : i = inserter.seen[k] /\ q = sent[inserter.req].queue
      OBVIOUS
    <3>2. Home(i, q)
      BY <2>2, <3>1 DEF Types, PlaceType, InserterPlace
    <3>3. Home(i, q)'
      BY <3>2, HomeKept
    <3> QED
      BY <1>2, <2>1, <2>2, <3>1, <3>3
  <2>3. ASSUME inserter.pc = "insert", inserter.item # 0
        PROVE  Home(inserter.item, sent[inserter.req].queue)'
    <3>1. PICK i, q : i = inserter.item /\ q = sent[inserter.req].queue
      OBVIOUS
    <3>2. Home(i, q)
      BY <2>3, <3>1 DEF Types, PlaceType, InserterPlace
    <3>3. Home(i, q)'
      BY <3>2, HomeKept
    <3> QED
      BY <1>2, <2>1, <2>3, <3>1, <3>3
  <2> QED
    BY <1>2, <2>2, <2>3 DEF InserterPlace
<1> QED
  BY <1>1, <1>2

LEMMA ClientEffect ==
  ASSUME Types, Client
  PROVE  /\ Head(steps) \in Steps /\ Do(Head(steps)) /\ steps' \in Seq(Steps) /\ LogType'
         /\ log.defs' = log.defs /\ log.pushed' = log.pushed /\ log.raced' = log.raced
         /\ UNCHANGED <<answered, inserts, inserter, items, queue, worker, scan_number, restarts, opened>>
<1>1. steps \in Seq(Steps) /\ steps # <<>> /\ steps' = Tail(steps) /\ Do(Head(steps))
  BY DEF Client, Types, ClientType
<1>2. LogType' /\ log.defs' = log.defs /\ log.pushed' = log.pushed /\ log.raced' = log.raced
  <2>1. context.hold \in Nat
    BY DEF Types, ClientType
  <2>2. log' = log \/ log' = [log EXCEPT !.left = log.left \cup {context.hold}]
    BY DEF Client
  <2> QED
    BY <2>1, <2>2 DEF Types, LogType
<1>3. Head(steps) \in Steps /\ Tail(steps) \in Seq(Steps)
  BY <1>1
<1>4. UNCHANGED <<answered, inserts, inserter, items, queue, worker, scan_number, restarts, opened>>
  BY DEF Client
<1> QED
  BY <1>1, <1>2, <1>3, <1>4

LEMMA ClientTypes == ASSUME Types, Client PROVE Types' /\ Remembers
<1>1. /\ Head(steps) \in Steps /\ Do(Head(steps)) /\ steps' \in Seq(Steps) /\ LogType'
      /\ UNCHANGED <<answered, inserts, inserter, items, queue, worker, scan_number, restarts, opened>>
  BY ClientEffect
<1>2. /\ sent' \in Seq(Requests) /\ dataset_number' \in Int
      /\ context' \in [def : Nat, group : Nat, hold : Nat, calls : Int, fresh : Nat]
      /\ sent' = sent \/ \E r \in Requests : sent' = Append(sent, r)
  <2>1. ClientType /\ NumberType
    BY DEF Types
  <2>2. PICK s : s = Head(steps)
    OBVIOUS
  <2> QED
    BY <1>1, <2>1, <2>2, DoEffect
<1>3. SentKept /\ Len(sent') >= Len(sent)
  <2>1. sent \in Seq(Requests)
    BY DEF Types, ClientType
  <2> QED
    BY <1>2, <2>1, Appended DEF SentKept
<1>4. Accepted' = Accepted /\ NoItem
  BY <1>1 DEF Accepted, NoItem
<1>5. Remembers
  BY <1>3, <1>4, RemembersItems
<1>6. ClientType' /\ NumberType' /\ LogType' /\ OpenedType'
  BY <1>1, <1>2 DEF Types, ClientType, NumberType, OpenedType, LogType
<1>7. AnswerType'
  <2>1. Len(sent) \in Nat /\ Len(sent') \in Nat /\ Len(answered) \in Nat
    BY <1>2 DEF Types, AnswerType, ClientType
  <2> QED
    BY <1>1, <1>3, <2>1 DEF Types, AnswerType
<1>8. InsertType' /\ ItemType'
  BY <1>1, <1>4 DEF Types, InsertType, ItemType
<1>9. RestartType'
  BY <1>1, <1>5, RestartsStay
<1>10. QueuePlace'
  BY <1>1, <1>5, QueueStays DEF Types, PlaceType, QueuePlace
<1>11. WorkerPlace'
  BY <1>1, <1>4, <1>5, AddingStays
<1>12. InserterPlace'
  BY <1>1, <1>5, InserterStays
<1> QED
  BY <1>5, <1>6, <1>7, <1>8, <1>9, <1>10, <1>11, <1>12 DEF Types, PlaceType

LEMMA RequestTypes == ASSUME Types, HandleRequest PROVE Types' /\ Remembers
<1> DEFINE r == Len(answered) + 1
           a == IsValid(sent[r])
<1>1. /\ UNCHANGED <<client, inserter, items, queue, worker, numbers, restarts, opened>>
      /\ Len(answered) < Len(sent) /\ answered' = Append(answered, a)
      /\ inserts' = (IF a THEN Append(inserts, r) ELSE inserts)
      /\ log' = (IF a THEN log ELSE [log EXCEPT !.over = @ \cup {r}])
  BY DEF HandleRequest
<1>2. answered \in Seq(BOOLEAN) /\ sent \in Seq(Requests) /\ inserts \in Seq(Nat)
  BY DEF Types, AnswerType, ClientType, InsertType
<1>3. a \in BOOLEAN /\ r \in DOMAIN sent /\ r \in Nat
  <2>1. a \in BOOLEAN
    BY DEF IsValid
  <2>2. Len(answered) \in Nat /\ Len(sent) \in Nat /\ DOMAIN sent = 1..Len(sent)
    BY <1>2
  <2> QED
    BY <1>1, <2>1, <2>2
<1>4. LogType'
  BY <1>1, <1>3 DEF Types, LogType
<1> HIDE DEF a
<1>5. /\ answered' \in Seq(BOOLEAN) /\ Len(answered') = Len(answered) + 1
      /\ \A k \in DOMAIN answered : k \in DOMAIN answered' /\ answered'[k] = answered[k]
      /\ r \in DOMAIN answered' /\ answered'[r] = a
  BY <1>1, <1>2, <1>3, Appended
<1>6. Accepted \subseteq Accepted' /\ (a => r \in Accepted') /\ NoItem /\ SentKept
  BY <1>1, <1>5 DEF Accepted, NoItem, SentKept, client
<1>7. Remembers
  BY <1>6, RemembersItems
<1>8. ClientType' /\ NumberType' /\ OpenedType'
  BY <1>1 DEF Types, ClientType, NumberType, OpenedType, client, numbers
<1>9. AnswerType'
  BY <1>1, <1>2, <1>5 DEF AnswerType, client
<1>10. InsertType'
  <2>1. inserts' \in Seq(Nat) /\ \A k \in DOMAIN inserts' : inserts'[k] \in Accepted'
    <3>1. CASE a
      <4>1. inserts' = Append(inserts, r)
        BY <1>1, <3>1
      <4>2. /\ Append(inserts, r) \in Seq(Nat)
            /\ \A k \in DOMAIN Append(inserts, r) :
                 (k \in DOMAIN inserts /\ Append(inserts, r)[k] = inserts[k]) \/ Append(inserts, r)[k] = r
        BY <1>2, <1>3, Appended
      <4>3. \A k \in DOMAIN inserts : inserts[k] \in Accepted
        BY DEF Types, InsertType
      <4> QED
        BY <1>6, <3>1, <4>1, <4>2, <4>3
    <3>2. CASE ~a
      BY <1>1, <1>6, <3>2 DEF Types, InsertType
    <3> QED
      BY <3>1, <3>2
  <2>2. inserter' = inserter
    BY <1>1
  <2> QED
    BY <1>6, <2>1, <2>2 DEF Types, InsertType
<1>11. ItemType'
  BY <1>1, <1>6 DEF Types, ItemType
<1>12. RestartType'
  BY <1>1, <1>7, RestartsStay
<1>13. QueuePlace'
  BY <1>1, <1>7, QueueStays DEF Types, PlaceType, QueuePlace
<1>14. WorkerPlace'
  BY <1>1, <1>6, <1>7, AddingStays
<1>15. InserterPlace'
  BY <1>1, <1>7, InserterStays
<1> QED
  BY <1>4, <1>7, <1>8, <1>9, <1>10, <1>11, <1>12, <1>13, <1>14, <1>15 DEF Types, PlaceType

\* What the inserter does before it inserts.
LEMMA LookingEffect ==
  ASSUME Types, Receive \/ Look \/ LookFails \/ AssembleFails
  PROVE  /\ UNCHANGED <<client, answered, items, queue, worker, numbers, restarts, opened>>
         /\ InsertType' /\ LogType' /\ InserterPlace'
         /\ log.defs' = log.defs /\ log.pushed' = log.pushed /\ log.raced' = log.raced
         /\ \/ /\ inserter.pc = "idle" /\ inserts # <<>> /\ inserts' = Tail(inserts) /\ inserter.pc' = "look"
               /\ inserter.req' = Head(inserts)
            \/ /\ inserter.pc # "idle" /\ inserts' = inserts /\ inserter.pc' \in {"idle", "insert"}
               /\ inserter.req' = inserter.req
               /\ inserter.pc' = "insert" =>
                    /\ inserter.pc = "look"
                    /\ inserter.item' # 0 =>
                         /\ inserter.item' \in Members(inserter.req, inserter.seen)
                         /\ Home(inserter.item', sent[inserter.req].queue)
<1>1. /\ inserts \in Seq(Nat) /\ \A k \in DOMAIN inserts : inserts[k] \in Accepted
      /\ inserter \in [pc : {"idle", "look", "insert"}, req : Nat, item : Nat, seen : Seq(Nat)]
      /\ inserter.pc # "idle" => inserter.req \in Accepted
  BY DEF Types, InsertType
<1>2. ASSUME Receive
      PROVE  /\ UNCHANGED <<client, answered, items, queue, worker, numbers, restarts, opened>>
             /\ InsertType' /\ LogType' /\ InserterPlace' /\ log' = log
             /\ inserter.pc = "idle" /\ inserts # <<>> /\ inserts' = Tail(inserts) /\ inserter.pc' = "look"
             /\ inserter.req' = Head(inserts)
  <2>r. PICK r : r = Head(inserts)
    OBVIOUS
  <2>q. PICK q : q = sent[r].queue
    OBVIOUS
  <2>s. PICK seen : seen = queue[q]
    OBVIOUS
  <2>1. /\ inserter.pc = "idle" /\ inserts # <<>> /\ inserts' = Tail(inserts)
        /\ inserter' = [pc |-> "look", req |-> r, item |-> 0, seen |-> seen]
        /\ UNCHANGED <<client, answered, items, queue, worker, numbers, restarts, opened>> /\ log' = log
    BY <1>2, <2>r, <2>q, <2>s DEF Receive
  <2>2. r \in Accepted /\ r \in DOMAIN sent /\ r \in Nat
    <3>1. 1 \in DOMAIN inserts /\ r = inserts[1]
      BY <1>1, <2>1, <2>r
    <3> QED
      BY <1>1, <3>1 DEF Types, AnswerType, ClientType, Accepted
  <2>3. seen \in Seq(Nat) /\ \A k \in DOMAIN seen : Home(seen[k], q)
    <3>1. q \in Queues
      BY <2>2, <2>q, SentType DEF Types
    <3> QED
      BY <2>s, <3>1 DEF Types, PlaceType, QueuePlace
  <2>4. Tail(inserts) \in Seq(Nat) /\ \A k \in DOMAIN Tail(inserts) : Tail(inserts)[k] \in Accepted
    BY <1>1, <2>1
  <2>5. inserter' \in [pc : {"idle", "look", "insert"}, req : Nat, item : Nat, seen : Seq(Nat)]
    BY <2>1, <2>2, <2>3
  <2>6. Accepted' = Accepted
    BY <2>1 DEF Accepted
  <2>7. inserter.pc' = "look" /\ inserter.req' = r /\ inserter.seen' = seen
    BY <2>1
  <2>8. InsertType'
    BY <2>1, <2>2, <2>4, <2>5, <2>6, <2>7 DEF InsertType
  <2>9. InserterPlace'
    <3>1. \A k \in DOMAIN seen : Home(seen[k], q)'
      BY <2>1, <2>3 DEF Home, IsItem, client
    <3>2. sent'[r].queue = q
      BY <2>1, <2>q DEF client
    <3> QED
      BY <2>7, <3>1, <3>2 DEF InserterPlace
  <2> QED
    BY <2>1, <2>7, <2>8, <2>9, <2>r DEF Types, LogType
<1>3. ASSUME Look
      PROVE  /\ UNCHANGED <<client, answered, items, queue, worker, numbers, restarts, opened>>
             /\ InsertType' /\ LogType' /\ InserterPlace' /\ log' = log
             /\ inserter.pc = "look" /\ inserts' = inserts /\ inserter.pc' = "insert" /\ inserter.req' = inserter.req
             /\ inserter.item' # 0 => /\ inserter.item' \in Members(inserter.req, inserter.seen)
                                      /\ Home(inserter.item', sent[inserter.req].queue)
  <2>1. PICK i \in ToSet(inserter.seen) \cup {0} :
          /\ IsFirst(i, Members(inserter.req, inserter.seen), inserter.seen)
          /\ inserter' = [inserter EXCEPT !.pc = "insert", !.item = i]
    BY <1>3 DEF Look
  <2>2. /\ UNCHANGED <<client, answered, items, queue, worker, numbers, restarts, opened>>
        /\ inserter.pc = "look" /\ inserts' = inserts /\ log' = log
    BY <1>3 DEF Look
  <2>3. i # 0 => i \in Nat /\ i \in Members(inserter.req, inserter.seen) /\ Home(i, sent[inserter.req].queue)
    <3> SUFFICES ASSUME i # 0
                 PROVE  i \in Nat /\ i \in Members(inserter.req, inserter.seen) /\ Home(i, sent[inserter.req].queue)
      OBVIOUS
    <3>1. PICK k \in DOMAIN inserter.seen : i = inserter.seen[k]
      BY DEF ToSet
    <3>2. i \in Members(inserter.req, inserter.seen)
      BY <2>1 DEF IsFirst
    <3> QED
      BY <1>1, <2>2, <3>1, <3>2 DEF Types, PlaceType, InserterPlace
  <2>4. inserter' \in [pc : {"idle", "look", "insert"}, req : Nat, item : Nat, seen : Seq(Nat)]
        /\ inserter.pc' = "insert" /\ inserter.req' = inserter.req /\ inserter.item' = i
    <3>1. i \in Nat
      BY <2>3
    <3> QED
      BY <1>1, <2>1, <3>1
  <2>5. Accepted' = Accepted
    BY <2>2 DEF Accepted
  <2>6. InsertType'
    BY <1>1, <2>2, <2>4, <2>5 DEF InsertType
  <2>7. InserterPlace'
    BY <2>2, <2>3, <2>4 DEF InserterPlace, Home, IsItem, client
  <2> QED
    BY <2>2, <2>3, <2>4, <2>6, <2>7 DEF Types, LogType
<1>4. ASSUME LookFails \/ AssembleFails
      PROVE  /\ UNCHANGED <<client, answered, items, queue, worker, numbers, restarts, opened>>
             /\ InsertType' /\ LogType' /\ InserterPlace'
             /\ log.defs' = log.defs /\ log.pushed' = log.pushed /\ log.raced' = log.raced
             /\ inserter.pc # "idle" /\ inserts' = inserts /\ inserter.pc' = "idle" /\ inserter.req' = inserter.req
  <2>1. /\ UNCHANGED <<client, answered, items, queue, worker, numbers, restarts, opened>>
        /\ inserter.pc # "idle" /\ inserts' = inserts /\ inserter' = [inserter EXCEPT !.pc = "idle"]
    BY <1>4 DEF LookFails, AssembleFails
  <2>2. LogType' /\ log.defs' = log.defs /\ log.pushed' = log.pushed /\ log.raced' = log.raced
    <3>1. \/ log' = [log EXCEPT !.over = log.over \cup {inserter.req}, !.unqueued = log.unqueued \cup {inserter.req}]
          \/ log' = [log EXCEPT !.over = log.over \cup {inserter.req}]
      BY <1>4 DEF LookFails, AssembleFails
    <3>2. inserter.req \in Nat
      BY <1>1
    <3>3. log.over \cup {inserter.req} \in SUBSET Nat /\ log.unqueued \cup {inserter.req} \in SUBSET Nat
      BY <3>2 DEF Types, LogType
    <3>4. CASE log' = [log EXCEPT !.over = log.over \cup {inserter.req}, !.unqueued = log.unqueued \cup {inserter.req}]
      BY <3>3, <3>4 DEF Types, LogType
    <3>5. CASE log' = [log EXCEPT !.over = log.over \cup {inserter.req}]
      BY <3>3, <3>5 DEF Types, LogType
    <3> QED
      BY <3>1, <3>4, <3>5
  <2>3. inserter' \in [pc : {"idle", "look", "insert"}, req : Nat, item : Nat, seen : Seq(Nat)]
        /\ inserter.pc' = "idle" /\ inserter.req' = inserter.req
    BY <1>1, <2>1
  <2>4. Accepted' = Accepted
    BY <2>1 DEF Accepted
  <2>5. InsertType' /\ InserterPlace'
    BY <1>1, <2>1, <2>3, <2>4 DEF InsertType, InserterPlace
  <2> QED
    BY <2>1, <2>2, <2>3, <2>5
<1> QED
  BY <1>2, <1>3, <1>4

LEMMA LookingTypes == ASSUME Types, Receive \/ Look \/ LookFails \/ AssembleFails PROVE Types' /\ Remembers
<1>1. /\ UNCHANGED <<client, answered, items, queue, worker, numbers, restarts, opened>>
      /\ InsertType' /\ LogType' /\ InserterPlace'
  BY LookingEffect
<1>2. Accepted' = Accepted /\ SentKept /\ NoItem
  BY <1>1 DEF Accepted, SentKept, NoItem, client
<1>3. Remembers
  BY <1>2, RemembersItems
<1>4. ClientType' /\ AnswerType' /\ NumberType' /\ OpenedType' /\ ItemType'
  BY <1>1, <1>2 DEF Types, ClientType, AnswerType, NumberType, OpenedType, ItemType, client, numbers
<1>5. RestartType'
  BY <1>1, <1>3, RestartsStay
<1>6. QueuePlace'
  BY <1>1, <1>3, QueueStays DEF Types, PlaceType, QueuePlace
<1>7. WorkerPlace'
  BY <1>1, <1>2, <1>3, AddingStays
<1> QED
  BY <1>1, <1>3, <1>4, <1>5, <1>6, <1>7 DEF Types, PlaceType

LEMMA RestartTypes ==
  ASSUME Types, NEW i \in DOMAIN restarts, RestartFound(i) \/ RestartTimesOut(i)
  PROVE  Types' /\ Remembers /\ UNCHANGED <<client, answered, inserts, inserter, items, queue, worker, numbers, opened, log>>
<1>1. /\ UNCHANGED <<client, answered, inserts, inserter, items, queue, worker, numbers, opened, log>>
      /\ DOMAIN restarts' = DOMAIN restarts
  BY DEF RestartFound, RestartTimesOut
<1>2. Accepted' = Accepted /\ SentKept /\ NoItem
  BY <1>1 DEF Accepted, SentKept, NoItem, client
<1>3. Remembers
  BY <1>2, RemembersItems
<1>4. ClientType' /\ AnswerType' /\ NumberType' /\ OpenedType' /\ ItemType' /\ InsertType' /\ LogType'
  BY <1>1, <1>2 DEF Types, ClientType, AnswerType, NumberType, OpenedType, ItemType, InsertType, LogType, client, numbers
<1>5. RestartType'
  BY <1>1, <1>3, RestartsStay
<1>6. QueuePlace'
  BY <1>1, <1>3, QueueStays DEF Types, PlaceType, QueuePlace
<1>7. WorkerPlace'
  BY <1>1, <1>2, <1>3, AddingStays
<1>8. InserterPlace'
  BY <1>1, <1>3, InserterStays
<1> QED
  BY <1>1, <1>3, <1>4, <1>5, <1>6, <1>7, <1>8 DEF Types, PlaceType

\* An added request.
LEMMA AddingTypes ==
  ASSUME Types, NEW r \in Accepted, items' \in Seq(ItemSet), Len(items') >= Len(items),
         (\E i : Joins(i, r)) \/ Arrives(r), \A i \in DOMAIN restarts' : i \in DOMAIN restarts,
         UNCHANGED <<client, answered, inserts, worker, numbers, opened>>,
         InsertType', inserter' = inserter \/ inserter'.pc = "idle", LogType'
  PROVE  Types' /\ Remembers
<1>1. Accepted' = Accepted /\ SentKept
  BY DEF Accepted, SentKept, client
<1>2. /\ Remembers
      /\ \A i \in DOMAIN items' \ DOMAIN items :
           Makes(i, r) /\ items'[i].blocks # <<>> /\ items'[i].active < items'[i].next
           /\ \A b \in DOMAIN items'[i].blocks : items'[i].blocks[b].req = r
  BY <1>1, RemembersAdding
<1>3. ClientType' /\ AnswerType' /\ NumberType' /\ OpenedType'
  BY <1>1 DEF Types, ClientType, AnswerType, NumberType, OpenedType, client, numbers
<1>4. ItemType'
  <2>1. ASSUME NEW i \in DOMAIN items'
        PROVE  /\ items'[i].blocks # <<>> /\ items'[i].active < items'[i].next
               /\ \A b \in DOMAIN items'[i].blocks : items'[i].blocks[b].req \in Accepted
    <3>1. CASE i \in DOMAIN items
      <4>1. ItemKept(i)
        BY <1>2, <3>1 DEF Remembers
      <4>2. \A b \in DOMAIN items[i].blocks : items[i].blocks[b].req \in Accepted
        BY <3>1 DEF Types, ItemType
      <4> QED
        BY <4>1, <4>2 DEF ItemKept
    <3>2. CASE i \notin DOMAIN items
      BY <1>2, <3>2
    <3> QED
      BY <3>1, <3>2
  <2> QED
    BY <1>1, <2>1 DEF ItemType
<1>5. RestartType'
  BY <1>2, RestartsStay
<1>6. QueuePlace'
  <2>1. CASE \E i : Joins(i, r)
    <3>1. queue' = queue
      BY <2>1 DEF Joins
    <3> QED
      BY <1>2, <3>1, QueueStays DEF Types, PlaceType, QueuePlace
  <2>2. CASE Arrives(r)
    BY <1>2, <2>2, ArrivalStays
  <2> QED
    BY <2>1, <2>2
<1>7. WorkerPlace'
  BY <1>2, AddingStays
<1>8. InserterPlace'
  BY <1>2, InserterStays
<1> QED
  BY <1>2, <1>3, <1>4, <1>5, <1>6, <1>7, <1>8 DEF Types, PlaceType

LEMMA InsertTypes == ASSUME Types, Insert PROVE Types' /\ Remembers
<1>r. PICK r : r = inserter.req
  OBVIOUS
<1>1. /\ r \in Accepted /\ r \in DOMAIN sent /\ inserter' = [inserter EXCEPT !.pc = "idle"]
      /\ items' \in Seq(ItemSet) /\ Len(items') >= Len(items) /\ ((\E i : Joins(i, r)) \/ Arrives(r))
      /\ UNCHANGED <<client, answered, inserts, worker, numbers, restarts, opened>>
  BY <1>r, InsertEffect
<1>2. LogType'
  <2>1. log' = log \/ log' = [log EXCEPT !.over = log.over \cup {r}]
    BY <1>r DEF Insert
  <2>2. r \in Nat
    BY <1>1, SentType DEF Types
  <2> QED
    BY <2>1, <2>2 DEF Types, LogType
<1>3. InsertType' /\ inserter'.pc = "idle"
  <2>1. inserter \in [pc : {"idle", "look", "insert"}, req : Nat, item : Nat, seen : Seq(Nat)]
    BY DEF Types, InsertType
  <2>2. inserter' \in [pc : {"idle", "look", "insert"}, req : Nat, item : Nat, seen : Seq(Nat)] /\ inserter'.pc = "idle"
    BY <1>1, <2>1
  <2>3. Accepted' = Accepted
    BY <1>1 DEF Accepted
  <2> QED
    BY <1>1, <2>2, <2>3 DEF Types, InsertType
<1>4. /\ \A i \in DOMAIN restarts' : i \in DOMAIN restarts
      /\ UNCHANGED <<client, answered, inserts, worker, numbers, opened>>
      /\ inserter' = inserter \/ inserter'.pc = "idle"
  BY <1>1, <1>3
<1>5. items' \in Seq(ItemSet) /\ Len(items') >= Len(items) /\ ((\E i : Joins(i, r)) \/ Arrives(r)) /\ r \in Accepted
  BY <1>1
<1> QED
  BY <1>2, <1>3, <1>4, <1>5, AddingTypes

LEMMA ReinsertTypes == ASSUME Types, NEW k \in DOMAIN restarts, Reinsert(k) PROVE Types' /\ Remembers
<1>1. PICK r \in Accepted :
        /\ r \in DOMAIN sent /\ items' \in Seq(ItemSet) /\ Len(items') >= Len(items)
        /\ (\E i : Joins(i, r)) \/ Arrives(r)
        /\ DOMAIN restarts' = DOMAIN restarts
        /\ UNCHANGED <<client, answered, inserts, inserter, worker, numbers, opened>>
  <2>1. PICK r \in Accepted :
          /\ r \in DOMAIN sent /\ items' \in Seq(ItemSet) /\ Len(items') >= Len(items)
          /\ (\E j \in DOMAIN items : Joins(j, r)) \/ Arrives(r)
          /\ DOMAIN restarts' = DOMAIN restarts
          /\ UNCHANGED <<client, answered, inserts, inserter, worker, numbers, opened>>
    BY ReinsertEffect
  <2> QED
    BY <2>1
<1>2. LogType'
  <2>1. /\ 1 \in DOMAIN items[k].blocks /\ k \in DOMAIN items
    <3>1. k \in DOMAIN items
      BY DEF Types, RestartType, Home, IsItem, ItemType
    <3>2. items[k] \in ItemSet /\ items[k].blocks # <<>>
      BY <3>1 DEF Types, ItemType
    <3> QED
      BY <3>1, <3>2 DEF ItemSet
  <2> DEFINE first == items[k].blocks[1].req
             d == sent[first].def
  <2>2. first \in DOMAIN sent
    BY <2>1 DEF Types, ItemType, AnswerType, ClientType, Accepted
  <2>3. d \in Nat
    BY <2>2, SentType DEF Types, Def
  <2>4. PICK over \in {log.over, log.over \ {first}}, pushed \in BOOLEAN :
          log' = [log EXCEPT !.over = over, !.defs = log.defs \cup ({d} \ {0}), !.pushed = log.pushed \/ pushed]
    BY DEF Reinsert, Mine
  <2> HIDE DEF d
  <2>5. over \in SUBSET Nat /\ log.defs \cup ({d} \ {0}) \in SUBSET Nat /\ (log.pushed \/ pushed) \in BOOLEAN
    BY <2>3 DEF Types, LogType
  <2> QED
    BY <2>4, <2>5 DEF Types, LogType
<1>3. InsertType'
  <2>1. Accepted' = Accepted
    BY <1>1 DEF Accepted
  <2> QED
    BY <1>1, <2>1 DEF Types, InsertType
<1>4. /\ \A i \in DOMAIN restarts' : i \in DOMAIN restarts
      /\ UNCHANGED <<client, answered, inserts, worker, numbers, opened>> /\ inserter' = inserter
  BY <1>1
<1> QED
  BY <1>1, <1>2, <1>3, <1>4, AddingTypes

\* What a step of a worker may change besides its item and itself.
Opening(q) ==
  LET i == Mine(q)  block == Active(q) IN
  [scan |-> block.scan, req |-> block.req, item |-> i, queue |-> q, number |-> scan_number, predicted |-> block.number,
   dataset |-> dataset_number, beside |-> \E d \in items[i].defs : d.def # Def(block.req),
   later |-> \E b \in 1..(items[i].active - 1) : items[i].blocks[b].scan \notin {NoScan, block.scan}]
LEMMA WorkerFrame ==
  ASSUME Types, NEW q \in Queues, Worker(q) \/ Restart(q)
  PROVE  /\ UNCHANGED <<client, answered, inserts, inserter>>
         /\ queue' = queue \/ (Pop(q) /\ queue' = [queue EXCEPT ![q] = IF @ = <<>> THEN @ ELSE Tail(@)])
         /\ restarts' = restarts \/ (DOMAIN restarts' = DOMAIN restarts \cup {Mine(q)} /\ Mine(q) # 0)
         /\ \/ numbers' = numbers /\ ~At(q, "write")
            \/ /\ At(q, "write") /\ Leaves(q) /\ scan_number' = worker[q].read + 1
               /\ log.raced' = (log.raced \/ scan_number # worker[q].read)
               /\ dataset_number' = dataset_number + (IF CountsDataset(q) THEN 1 ELSE 0)
         /\ opened' = opened \/ (Start(q) /\ Active(q).is_scan /\ opened' = Append(opened, Opening(q)))
         /\ LogType' /\ log.defs \subseteq log.defs' /\ log.pushed' = log.pushed /\ (log.raced => log.raced')
<1>1. ASSUME Abort(q), worker[q].pc \in {"first", "last"}
      PROVE  /\ UNCHANGED <<client, answered, inserts, inserter, queue, numbers, opened>>
             /\ LogType' /\ log.defs \subseteq log.defs' /\ log.pushed' = log.pushed /\ log.raced' = log.raced
  <2> DEFINE over == log.over \cup {Item(q).blocks[b].req : b \in DOMAIN Item(q).blocks}
             defs == log.defs \cup {d.def : d \in Item(q).defs}
             groups == log.groups \cup {Item(q).group}
  <2>1. log' = [log EXCEPT !.over = over, !.defs = defs, !.groups = groups]
    BY <1>1 DEF Abort
  <2>2. Item(q) \in ItemSet
    BY <1>1, MineType DEF Item
  <2>3. over \in SUBSET Nat /\ defs \in SUBSET Nat /\ groups \in SUBSET Nat
    <3>1. \A b \in DOMAIN Item(q).blocks : Item(q).blocks[b] \in BlockSet
      BY <2>2 DEF ItemSet
    <3>2. \A d \in Item(q).defs : d.def \in Nat
      BY <2>2 DEF ItemSet, Entries
    <3> QED
      BY <2>2, <3>1, <3>2 DEF ItemSet, BlockSet, Types, LogType
  <2> HIDE DEF over, groups
  <2>4. LogType' /\ log.defs' = defs /\ log.pushed' = log.pushed /\ log.raced' = log.raced
    BY <2>1, <2>3 DEF Types, LogType
  <2> QED
    BY <1>1, <2>4 DEF Abort
<1>2. CASE Fail(q)
  <2>1. Abort(q) /\ worker[q].pc \in {"first", "last"} /\ restarts' = restarts
    BY <1>2 DEF Fail, At
  <2> QED
    BY <1>1, <2>1 DEF At
<1>3. CASE Restart(q)
  <2>1. Abort(q) /\ worker[q].pc \in {"first", "last"} /\ DOMAIN restarts' = DOMAIN restarts \cup {Mine(q)}
    BY <1>3 DEF Restart, At
  <2>2. Mine(q) # 0
    BY <2>1 DEF Types, PlaceType, WorkerPlace
  <2> QED
    BY <1>1, <2>1, <2>2 DEF At
<1>4. ASSUME worker[q].pc \in {"count", "write"} PROVE Active(q).req \in Nat /\ log.over \cup {Active(q).req} \in SUBSET Nat
  BY <1>4, ActiveType DEF BlockSet, Types, LogType
<1>5. CASE WriteNumber(q)
  <2>1. /\ At(q, "write") /\ scan_number' = worker[q].read + 1
        /\ dataset_number' = dataset_number + (IF CountsDataset(q) THEN 1 ELSE 0)
        /\ items' = Leave(q) /\ UNCHANGED <<queue, opened>> /\ UNCHANGED <<client, answered, inserts, inserter, restarts>>
        /\ worker' = [worker EXCEPT ![q] = [@ EXCEPT !.pc = IF After(q) = "next" THEN "again" ELSE "choose", !.read = 0]]
        /\ log' = [log EXCEPT !.over = @ \cup {Active(q).req}, !.raced = @ \/ scan_number # worker[q].read]
    BY <1>5 DEF WriteNumber, WorkerKeeps
  <2>2. worker[q].pc \in {"count", "write"}
    BY <2>1 DEF At
  <2>3. Leaves(q)
    BY <2>1, LeaveEffect
  <2>4. LogType' /\ log.defs' = log.defs /\ log.pushed' = log.pushed /\ log.raced' = (log.raced \/ scan_number # worker[q].read)
    <3>1. (log.raced \/ scan_number # worker[q].read) \in BOOLEAN
      OBVIOUS
    <3> QED
      BY <1>4, <2>1, <2>2, <3>1 DEF Types, LogType
  <2> QED
    BY <2>1, <2>3, <2>4
<1>6. CASE Uncounted(q)
  <2>1. /\ UNCHANGED <<client, answered, inserts, inserter, queue, restarts, numbers, opened>> /\ worker[q].pc = "count"
        /\ log' = [log EXCEPT !.over = @ \cup {Active(q).req}]
    BY <1>6 DEF Uncounted, WorkerKeeps, EndBlock, At
  <2>2. LogType' /\ log.defs' = log.defs /\ log.pushed' = log.pushed /\ log.raced' = log.raced
    BY <1>4, <2>1 DEF Types, LogType
  <2> QED
    BY <2>1, <2>2 DEF At
<1>7. CASE LastInstruction(q)
  <2> DEFINE r == ActiveRequest(q)
             item == [Item(q) EXCEPT
               !.defs = IF r.kind = "close_scan_def" THEN @ \ ScansOf(@, r.def) ELSE @,
               !.closed = @ \/ r.kind = "close_scan_group"]
             rest == {item.blocks[b].req : b \in item.next..Len(item.blocks)}
             over == log.over \cup {Active(q).req} \cup rest
  <2>1. /\ UNCHANGED <<client, answered, inserts, inserter, queue, restarts, numbers, opened>> /\ worker[q].pc = "last"
        /\ log' = log \/ log' = [log EXCEPT !.over = over]
    BY <1>7 DEF LastInstruction, WorkerKeeps, At
  <2>2. over \in SUBSET Nat
    <3>1. Item(q) \in ItemSet
      BY <2>1, MineType DEF Item
    <3>2. item.blocks = Item(q).blocks /\ item.next = Item(q).next /\ item.blocks \in Seq(BlockSet) /\ item.next \in Nat
          /\ item.active < item.next /\ item.active = Item(q).active
      <4>1. Item(q).active < Item(q).next
        BY <2>1, MineType DEF Item
      <4> QED
        BY <3>1, <4>1 DEF ItemSet
    <3>3. item.active \in DOMAIN item.blocks
      BY <2>1, <3>2 DEF Types, PlaceType, WorkerPlace
    <3> HIDE DEF item
    <3>4. \A b \in item.next..Len(item.blocks) : item.blocks[b] \in BlockSet
      BY <3>2, <3>3
    <3>5. Active(q).req \in Nat
      BY <2>1, ActiveType DEF BlockSet
    <3> QED
      BY <3>4, <3>5 DEF BlockSet, Types, LogType
  <2> HIDE DEF over
  <2>3. LogType' /\ log.defs' = log.defs /\ log.pushed' = log.pushed /\ log.raced' = log.raced
    BY <2>1, <2>2 DEF Types, LogType
  <2> QED
    BY <2>1, <2>3 DEF At
<1>8. CASE Start(q)
  <2>1. /\ UNCHANGED <<client, answered, inserts, inserter, restarts>> /\ UNCHANGED <<queue, numbers, log>>
        /\ opened' = IF ~Active(q).is_scan THEN opened ELSE Append(opened, Opening(q))
    BY <1>8 DEF Start, WorkerKeeps, Opening, Item, ActiveRequest, Def
  <2>2. LogType'
    BY <2>1 DEF Types, LogType
  <2> QED
    BY <1>8, <2>1, <2>2 DEF Start, At
<1>9. CASE Pop(q)
  <2>1. UNCHANGED <<client, answered, inserts, inserter, restarts>> /\ UNCHANGED <<items, numbers, opened, log>>
    BY <1>9 DEF Pop, WorkerKeeps
  <2>2. LogType'
    BY <2>1 DEF Types, LogType
  <2> QED
    BY <1>9, <2>1, <2>2 DEF Pop, At
<1>10. CASE Take(q) \/ Pull(q) \/ Finish(q) \/ ReadNumber(q) \/ Again(q)
  <2>1. UNCHANGED <<client, answered, inserts, inserter, restarts>> /\ UNCHANGED <<queue, numbers, opened, log>>
    BY <1>10 DEF Take, Pull, Finish, ReadNumber, Again, WorkerKeeps
  <2>2. LogType'
    BY <2>1 DEF Types, LogType
  <2>3. ~At(q, "write")
    BY <1>10 DEF Take, Pull, Finish, ReadNumber, Again, At
  <2> QED
    BY <2>1, <2>2, <2>3
<1> QED
  BY <1>2, <1>3, <1>5, <1>6, <1>7, <1>8, <1>9, <1>10 DEF Worker

LEMMA OpeningType ==
  ASSUME Types, NEW q \in Queues, At(q, "first")
  PROVE  Opening(q) \in Openings
<1>1. Active(q) \in BlockSet /\ Mine(q) \in Nat
  BY ActiveType, MineType DEF At
<1>2. scan_number \in Nat /\ dataset_number \in Int
  BY DEF Types, NumberType
<1>3. (\E d \in items[Mine(q)].defs : d.def # Def(Active(q).req)) \in BOOLEAN
      /\ (\E b \in 1..(items[Mine(q)].active - 1) : items[Mine(q)].blocks[b].scan \notin {NoScan, Active(q).scan}) \in BOOLEAN
  OBVIOUS
<1> QED
  BY <1>1, <1>2, <1>3 DEF Opening, Openings, BlockSet

LEMMA WorkerTypes == ASSUME Types, NEW q \in Queues, Worker(q) \/ Restart(q) PROVE Types' /\ Remembers
<1>1. /\ UNCHANGED <<client, answered, inserts, inserter>>
      /\ queue' = queue \/ (Pop(q) /\ queue' = [queue EXCEPT ![q] = IF @ = <<>> THEN @ ELSE Tail(@)])
      /\ restarts' = restarts \/ (DOMAIN restarts' = DOMAIN restarts \cup {Mine(q)} /\ Mine(q) # 0)
      /\ \/ numbers' = numbers
         \/ /\ At(q, "write") /\ Leaves(q) /\ scan_number' = worker[q].read + 1
            /\ dataset_number' = dataset_number + (IF CountsDataset(q) THEN 1 ELSE 0)
      /\ opened' = opened \/ (Start(q) /\ Active(q).is_scan /\ opened' = Append(opened, Opening(q)))
      /\ LogType'
  BY WorkerFrame
<1>2. WorkerMoves(q)
  BY WorkerEffect
<1>3. Accepted' = Accepted /\ SentKept
  BY <1>1 DEF Accepted, SentKept, client
<1>4. NoItem \/ Works(Mine(q))
  BY <1>2 DEF WorkerMoves, Pops, Takes, Pulls, Finishes, Begins, Ends, Leaves, Reads, Turns, Aborts
<1>5. Remembers
  BY <1>3, <1>4, RemembersItems, RemembersWork
<1>6. ClientType' /\ AnswerType' /\ InsertType'
  BY <1>1, <1>3 DEF Types, ClientType, AnswerType, InsertType, client
<1>7. ItemType'
  <2>1. DOMAIN items' = DOMAIN items /\ items' \in Seq(ItemSet)
    BY <1>4 DEF NoItem, Works, Types, ItemType
  <2>2. ASSUME NEW i \in DOMAIN items'
        PROVE  /\ items'[i].blocks # <<>> /\ items'[i].active < items'[i].next
               /\ \A b \in DOMAIN items'[i].blocks : items'[i].blocks[b].req \in Accepted
    <3>1. ItemKept(i)
      BY <1>5, <2>1 DEF Remembers
    <3>2. \A b \in DOMAIN items[i].blocks : items[i].blocks[b].req \in Accepted
      BY <2>1 DEF Types, ItemType
    <3> QED
      BY <3>1, <3>2 DEF ItemKept
  <2> QED
    BY <1>3, <2>1, <2>2 DEF ItemType
<1>8. NumberType'
  <2>1. CASE numbers' = numbers
    BY <2>1 DEF Types, NumberType, numbers
  <2>2. CASE numbers' # numbers
    <3>1. scan_number' = worker[q].read + 1 /\ dataset_number' = dataset_number + (IF CountsDataset(q) THEN 1 ELSE 0)
      BY <1>1, <2>2
    <3>2. worker[q].read \in Nat /\ dataset_number \in Int
      BY DEF Types, PlaceType, WorkerPlace, NumberType
    <3>3. worker[q].read + 1 \in Nat /\ dataset_number + (IF CountsDataset(q) THEN 1 ELSE 0) \in Int
      BY <3>2
    <3> QED
      BY <3>1, <3>3 DEF NumberType
  <2> QED
    BY <2>1, <2>2
<1>9. OpenedType'
  <2>1. opened \in Seq(Openings)
    BY DEF Types, OpenedType
  <2>2. CASE opened' = opened
    BY <2>1, <2>2 DEF OpenedType
  <2>3. CASE Start(q) /\ opened' = Append(opened, Opening(q))
    <3>1. Opening(q) \in Openings
      BY <2>3, OpeningType DEF Start
    <3> QED
      BY <2>1, <2>3, <3>1 DEF OpenedType
  <2> QED
    BY <1>1, <2>2, <2>3
<1>10. RestartType'
  <2>1. ASSUME NEW i \in DOMAIN restarts' PROVE i \in DOMAIN restarts \/ \E p \in Queues : Home(i, p)
    <3>1. Mine(q) # 0 => Home(Mine(q), q)
      BY DEF Types, PlaceType, WorkerPlace
    <3> QED
      BY <1>1, <3>1
  <2> QED
    BY <1>5, <2>1, RestartsStay
<1>11. QueuePlace'
  <2>1. queue \in [Queues -> Seq(Nat)]
    BY DEF Types, PlaceType, QueuePlace
  <2>2. CASE queue' = queue
    BY <1>5, <2>1, <2>2, QueueStays
  <2>3. CASE queue' = [queue EXCEPT ![q] = IF @ = <<>> THEN @ ELSE Tail(@)]
    <3>1. queue' \in [Queues -> Seq(Nat)]
      BY <2>1, <2>3
    <3>2. ASSUME NEW p \in Queues, NEW k \in DOMAIN queue'[p] PROVE \E l \in DOMAIN queue[p] : queue'[p][k] = queue[p][l]
      <4>1. CASE p # q \/ queue[q] = <<>>
        BY <2>1, <2>3, <4>1
      <4>2. CASE p = q /\ queue[q] # <<>>
        <5>1. queue'[p] = Tail(queue[p]) /\ queue[p] \in Seq(Nat) /\ queue[p] # <<>>
          BY <2>1, <2>3, <4>2
        <5>2. k + 1 \in DOMAIN queue[p] /\ queue'[p][k] = queue[p][k + 1]
          BY <5>1
        <5> QED
          BY <5>2
      <4> QED
        BY <4>1, <4>2
    <3> QED
      BY <1>5, <3>1, <3>2, QueueStays
  <2> QED
    BY <1>1, <2>2, <2>3
<1>12. WorkerPlace'
  BY <1>2, <1>5, MovesStay
<1>13. InserterPlace'
  BY <1>1, <1>5, InserterStays
<1> QED
  BY <1>1, <1>5, <1>6, <1>7, <1>8, <1>9, <1>10, <1>11, <1>12, <1>13 DEF Types, PlaceType

LEMMA InitTypes == Init => Types
<1> SUFFICES ASSUME Init PROVE Types
  OBVIOUS
<1>1. steps \in Seq(Steps)
  BY ClientsAssumption DEF Init
<1>2. /\ context = [def |-> 0, group |-> 0, hold |-> 0, calls |-> 0, fresh |-> 0]
      /\ sent = <<>> /\ answered = <<>> /\ inserts = <<>>
      /\ inserter = [pc |-> "idle", req |-> 0, item |-> 0, seen |-> <<>>]
      /\ items = <<>> /\ queue = [q \in Queues |-> <<>>]
      /\ worker = [q \in Queues |-> [pc |-> "take", item |-> 0, read |-> 0]]
      /\ scan_number = 1 /\ dataset_number = 1 /\ restarts = <<>> /\ opened = <<>>
      /\ log = [over |-> {}, left |-> {}, unqueued |-> {}, defs |-> {}, groups |-> {}, raced |-> FALSE,
                pushed |-> FALSE]
  BY DEF Init
<1>3. ClientType /\ AnswerType /\ NumberType /\ LogType /\ OpenedType /\ RestartType
  BY <1>1, <1>2 DEF ClientType, AnswerType, NumberType, LogType, OpenedType, RestartType
<1>4. InsertType /\ ItemType
  BY <1>2 DEF InsertType, ItemType
<1>5. QueuePlace /\ WorkerPlace /\ InserterPlace
  BY <1>2 DEF QueuePlace, WorkerPlace, InserterPlace, Places, Mine
<1> QED
  BY <1>3, <1>4, <1>5 DEF Types, PlaceType

LEMMA SameTypes == Types /\ UNCHANGED vars => Types'
<1> SUFFICES ASSUME Types, UNCHANGED vars PROVE Types'
  OBVIOUS
<1> USE DEF vars, client, numbers
<1>1. Accepted' = Accepted
  BY DEF Accepted
<1>2. ClientType' /\ AnswerType' /\ InsertType' /\ ItemType'
  BY <1>1 DEF Types, ClientType, AnswerType, InsertType, ItemType
<1>3. NumberType' /\ LogType' /\ OpenedType'
  BY DEF Types, NumberType, LogType, OpenedType
<1>4. \A i, q : Home(i, q) => Home(i, q)'
  BY DEF Home, IsItem
<1>5. RestartType'
  BY <1>4 DEF Types, RestartType
<1>6. QueuePlace'
  BY <1>4 DEF Types, PlaceType, QueuePlace, Home, IsItem
<1>7. WorkerPlace' /\ InserterPlace'
  BY DEF Types, PlaceType, WorkerPlace, InserterPlace, Home, IsItem, Mine, Item
<1> QED
  BY <1>2, <1>3, <1>5, <1>6, <1>7 DEF Types, PlaceType
LEMMA NextTypes == Types /\ Next => Types' /\ Remembers
<1> SUFFICES ASSUME Types, Next PROVE Types' /\ Remembers
  OBVIOUS
<1>1. CASE Client
  BY <1>1, ClientTypes
<1>2. CASE Server
  BY <1>2, RequestTypes, LookingTypes, InsertTypes, RestartTypes, ReinsertTypes DEF Server
<1>3. CASE \E q \in Queues : Worker(q) \/ Restart(q)
  BY <1>3, WorkerTypes
<1>4. CASE Waiting
  <2>1. UNCHANGED vars
    BY <1>4 DEF Waiting
  <2>2. Types'
    BY <2>1, SameTypes
  <2>3. Remembers
    BY <2>1, RemembersItems DEF vars, client, SentKept, NoItem, Accepted
  <2> QED
    BY <2>2, <2>3
<1> QED
  BY <1>1, <1>2, <1>3, <1>4 DEF Next

-----------------------------------------------------------------------------
(* Four kinds of steps: those that touch no item and no worker, an inserted *)
(* request, one that is inserted again, and those of a worker.              *)

Quiet ==
  /\ UNCHANGED <<items, queue, worker, scan_number, opened>>
  /\ log.defs' = log.defs /\ log.pushed' = log.pushed /\ log.raced' = log.raced
Puts(r) ==
  /\ r \in Accepted /\ r \in DOMAIN sent
  /\ UNCHANGED <<client, answered, inserts, worker, numbers, opened>>
  /\ log.defs \subseteq log.defs' /\ log.raced' = log.raced
  /\ \/ (\E j : Joins(j, r)) /\ log.pushed' = log.pushed
     \/ /\ Arrives(r) /\ queue' = [queue EXCEPT ![sent[r].queue] = Append(@, Len(items) + 1)]
        /\ log.pushed' = log.pushed
     \/ /\ Arrives(r) /\ queue' = [queue EXCEPT ![sent[r].queue] = <<Len(items) + 1>> \o @]
        /\ log.pushed' = (log.pushed \/ Mine(sent[r].queue) \in ToSet(queue[sent[r].queue]))
\* A request that is inserted for the first time, and one that is repeated.
First(r) == r = inserter.req /\ inserter.pc = "insert" /\ inserter.pc' = "idle" /\ log.defs' = log.defs
            /\ (inserter.item # 0 => Joins(inserter.item, r)) /\ (inserter.item = 0 => Arrives(r))
Repeats(r) ==
  /\ inserter' = inserter /\ (Def(r) # 0 => Def(r) \in log.defs')
  /\ \E i \in DOMAIN items : \E b \in DOMAIN items[i].blocks : items[i].blocks[b].req = r

LEMMA FourKinds ==
  ASSUME Types, Next
  PROVE  \/ Quiet
         \/ \E r : Puts(r) /\ (First(r) \/ Repeats(r))
         \/ \E q \in Queues : Worker(q) \/ Restart(q)
<1>1. CASE Client
  BY <1>1, ClientEffect DEF Quiet
<1>2. CASE HandleRequest
  <2>1. UNCHANGED <<items, queue, worker, numbers, opened>>
        /\ (log' = log \/ log' = [log EXCEPT !.over = @ \cup {Len(answered) + 1}])
    BY <1>2 DEF HandleRequest
  <2>2. log.defs' = log.defs /\ log.pushed' = log.pushed /\ log.raced' = log.raced
    BY <2>1 DEF Types, LogType
  <2> QED
    BY <2>1, <2>2 DEF Quiet, numbers
<1>3. CASE Receive \/ Look \/ LookFails \/ AssembleFails
  BY <1>3, LookingEffect DEF Quiet, numbers
<1>4. CASE Insert
  <2>r. PICK r : r = inserter.req
    OBVIOUS
  <2>1. /\ inserter.pc = "insert" /\ r \in Accepted /\ r \in DOMAIN sent /\ inserter' = [inserter EXCEPT !.pc = "idle"]
        /\ \/ inserter.item # 0 /\ Joins(inserter.item, r)
           \/ inserter.item = 0 /\ Arrives(r)
              /\ queue' = [queue EXCEPT ![sent[r].queue] = Append(@, Len(items) + 1)]
        /\ log.defs' = log.defs /\ log.pushed' = log.pushed /\ log.raced' = log.raced
        /\ UNCHANGED <<client, answered, inserts, worker, numbers, restarts, opened>>
    BY <1>4, <2>r, InsertEffect
  <2>2. inserter.pc' = "idle"
    BY <2>1 DEF Types, InsertType
  <2>3. First(r)
    BY <2>1, <2>2, <2>r DEF First
  <2>4. \/ \E j : Joins(j, r)
        \/ Arrives(r) /\ queue' = [queue EXCEPT ![sent[r].queue] = Append(@, Len(items) + 1)]
    BY <2>1
  <2>5. Puts(r)
    BY <2>1, <2>4 DEF Puts
  <2> QED
    BY <2>3, <2>5
<1>5. CASE \E k \in DOMAIN restarts : RestartFound(k) \/ RestartTimesOut(k)
  BY <1>5 DEF RestartFound, RestartTimesOut, Quiet, numbers
<1>6. CASE \E k \in DOMAIN restarts : Reinsert(k)
  <2>1. PICK k \in DOMAIN restarts : Reinsert(k)
    BY <1>6
  <2>2. PICK r \in Accepted :
          /\ \E i \in DOMAIN items : \E b \in DOMAIN items[i].blocks : items[i].blocks[b].req = r
          /\ r \in DOMAIN sent
          /\ \/ \E j \in DOMAIN items : Joins(j, r) /\ log.pushed' = log.pushed
             \/ Arrives(r) /\ LET q == sent[r].queue IN
                              /\ queue' = [queue EXCEPT ![q] = <<Len(items) + 1>> \o @]
                              /\ log.pushed' = (log.pushed \/ worker[q].item \in ToSet(queue[q]))
          /\ Def(r) # 0 => Def(r) \in log.defs'
          /\ log.defs \subseteq log.defs' /\ log.raced' = log.raced
          /\ UNCHANGED <<client, answered, inserts, inserter, worker, numbers, opened>>
    BY <2>1, ReinsertEffect
  <2>3. Puts(r) /\ Repeats(r)
    BY <2>2 DEF Puts, Repeats, Mine
  <2> QED
    BY <2>3
<1>7. CASE Waiting
  BY <1>7 DEF Waiting, vars, numbers, Quiet
<1> QED
  BY <1>1, <1>2, <1>3, <1>4, <1>5, <1>6, <1>7 DEF Next, Server

-----------------------------------------------------------------------------
(* The item that a worker has is the first one of its queue, and no other   *)
(* one of the queue is over, unless a restart went in front of it.          *)

HeadInv ==
  \A q \in Queues : worker[q].pc # "take" => queue[q] # <<>> /\ (queue[q][1] = Mine(q) \/ log.pushed)
DistinctInv == \A q \in Queues : \A k, l \in DOMAIN queue[q] : queue[q][k] = queue[q][l] => k = l
CompletedInv ==
  \A q \in Queues : \A k \in DOMAIN queue[q] :
    items[queue[q][k]].status = "COMPLETED" => log.pushed \/ (k = 1 /\ worker[q].pc = "choose")
QueueInv == HeadInv /\ DistinctInv /\ CompletedInv

LEMMA QueueInvPuts ==
  ASSUME Types, QueueInv, NEW r, Puts(r)
  PROVE  QueueInv'
<1>p. PICK p : p = sent[r].queue
  OBVIOUS
<1>n. PICK n : n = Len(items) + 1
  OBVIOUS
<1>1. /\ worker' = worker /\ (log.pushed => log.pushed') /\ p \in Queues
      /\ queue \in [Queues -> Seq(Nat)] /\ \A q \in Queues : \A k \in DOMAIN queue[q] : queue[q][k] \in DOMAIN items
      /\ n \in Nat /\ n \notin DOMAIN items
  <2>1. r \in DOMAIN sent
    BY DEF Puts
  <2>2. p \in Queues
    BY <1>p, <2>1, SentType DEF Types
  <2>3. queue \in [Queues -> Seq(Nat)] /\ \A q \in Queues : \A k \in DOMAIN queue[q] : queue[q][k] \in DOMAIN items
    BY DEF Types, PlaceType, QueuePlace, Home, IsItem, ItemType
  <2>4. n \in Nat /\ n \notin DOMAIN items
    BY <1>n DEF Types, ItemType
  <2>5. worker' = worker /\ (log.pushed => log.pushed')
    BY DEF Puts
  <2> QED
    BY <2>2, <2>3, <2>4, <2>5
<1>2. ASSUME NEW i \in DOMAIN items PROVE items'[i].status = items[i].status
  <2>1. CASE \E j : Joins(j, r)
    <3>1. PICK j : Joins(j, r)
      BY <2>1
    <3> QED
      BY <3>1 DEF Joins, Adds, Others, Extends
  <2>2. CASE Arrives(r)
    BY <2>2 DEF Arrives, Makes, Others
  <2> QED
    BY <2>1, <2>2 DEF Puts
<1>3. CASE queue' = queue
  BY <1>1, <1>2, <1>3 DEF QueueInv, HeadInv, DistinctInv, CompletedInv, Mine
<1>4. CASE queue' # queue
  <2> DEFINE s == queue[p]
  <2>1. items'[n].status = "PENDING"
    BY <1>4, <1>n DEF Puts, Joins, Arrives, Makes, Extends, EmptyItem
  <2>2. /\ s \in Seq(Nat) /\ \A k \in DOMAIN s : s[k] \in DOMAIN items /\ s[k] # n
        /\ \A k, l \in DOMAIN s : s[k] = s[l] => k = l
    BY <1>1 DEF QueueInv, DistinctInv
  <2>3. CASE queue' = [queue EXCEPT ![p] = Append(s, n)] /\ log.pushed' = log.pushed
    <3>1. /\ \A k \in DOMAIN Append(s, n) : (k \in DOMAIN s /\ Append(s, n)[k] = s[k]) \/ (k = Len(s) + 1 /\ Append(s, n)[k] = n)
          /\ s # <<>> => Append(s, n)[1] = s[1]
          /\ Append(s, n) # <<>>
      <4>1. s \in Seq(Nat) /\ n \in Nat
        BY <1>1, <2>2
      <4> HIDE DEF s
      <4>2. s # <<>> => 1 \in DOMAIN s
        BY <4>1
      <4> QED
        BY <4>1, <4>2, Appended
    <3> HIDE DEF s
    <3>2. \A q \in Queues : queue'[q] = IF q = p THEN Append(s, n) ELSE queue[q]
      BY <1>1, <2>3
    <3>3. DistinctInv'
      <4> SUFFICES ASSUME NEW q \in Queues, NEW k \in DOMAIN queue'[q], NEW l \in DOMAIN queue'[q], queue'[q][k] = queue'[q][l]
                   PROVE  k = l
        BY DEF DistinctInv
      <4>1. CASE q = p
        <5>1. /\ k \in DOMAIN Append(s, n) /\ l \in DOMAIN Append(s, n) /\ Append(s, n)[k] = Append(s, n)[l]
          BY <3>2, <4>1
        <5> QED
          BY <2>2, <3>1, <5>1
      <4>2. CASE q # p
        BY <3>2, <4>2 DEF QueueInv, DistinctInv
      <4> QED
        BY <4>1, <4>2
    <3>4. HeadInv'
      BY <1>1, <2>3, <3>1, <3>2 DEF QueueInv, HeadInv, Mine, s
    <3>5. CompletedInv'
      <4> SUFFICES ASSUME NEW q \in Queues, NEW k \in DOMAIN queue'[q], items'[queue'[q][k]].status = "COMPLETED"
                   PROVE  log.pushed' \/ (k = 1 /\ worker'[q].pc = "choose")
        BY DEF CompletedInv
      <4>1. CASE q = p
        <5>1. k \in DOMAIN s /\ queue'[q][k] = s[k]
          BY <2>1, <3>1, <3>2, <4>1
        <5>2. items[s[k]].status = "COMPLETED"
          BY <1>2, <2>2, <5>1
        <5> QED
          BY <1>1, <4>1, <5>1, <5>2 DEF QueueInv, CompletedInv, s
      <4>2. CASE q # p
        <5>1. queue'[q] = queue[q] /\ queue[q][k] \in DOMAIN items
          BY <1>1, <3>2, <4>2
        <5> QED
          BY <1>1, <1>2, <5>1 DEF QueueInv, CompletedInv
      <4> QED
        BY <4>1, <4>2
    <3> QED
      BY <3>3, <3>4, <3>5 DEF QueueInv
  <2>4. CASE queue' = [queue EXCEPT ![p] = <<n>> \o s] /\ log.pushed' = (log.pushed \/ Mine(p) \in ToSet(s))
    <3>1. /\ \A k \in DOMAIN (<<n>> \o s) : (k - 1 \in DOMAIN s /\ (<<n>> \o s)[k] = s[k - 1]) \/ (k = 1 /\ (<<n>> \o s)[k] = n)
          /\ <<n>> \o s # <<>> /\ \A k \in DOMAIN (<<n>> \o s) : k \in Nat
      BY <1>1, <2>2
    <3>2. worker[p].pc # "take" => log.pushed'
      <4> SUFFICES ASSUME worker[p].pc # "take", ~log.pushed PROVE Mine(p) \in ToSet(s)
        BY <2>4
      <4>1. s # <<>> /\ s[1] = Mine(p)
        BY <1>1 DEF QueueInv, HeadInv
      <4>2. 1 \in DOMAIN s
        BY <2>2, <4>1
      <4> QED
        BY <4>1, <4>2 DEF ToSet
    <3> HIDE DEF s
    <3>3. \A q \in Queues : queue'[q] = IF q = p THEN <<n>> \o s ELSE queue[q]
      BY <1>1, <2>4
    <3>4. DistinctInv'
      <4> SUFFICES ASSUME NEW q \in Queues, NEW k \in DOMAIN queue'[q], NEW l \in DOMAIN queue'[q], queue'[q][k] = queue'[q][l]
                   PROVE  k = l
        BY DEF DistinctInv
      <4>1. CASE q = p
        <5>1. /\ k \in DOMAIN (<<n>> \o s) /\ l \in DOMAIN (<<n>> \o s) /\ (<<n>> \o s)[k] = (<<n>> \o s)[l]
          BY <3>3, <4>1
        <5>2. k \in Nat /\ l \in Nat
          BY <3>1, <5>1
        <5>3. CASE k - 1 \in DOMAIN s /\ l - 1 \in DOMAIN s
          <6>1. (<<n>> \o s)[k] = s[k - 1] /\ (<<n>> \o s)[l] = s[l - 1]
            BY <2>2, <3>1, <5>1, <5>2, <5>3
          <6>2. k - 1 = l - 1
            BY <2>2, <5>1, <5>3, <6>1
          <6> QED
            BY <5>2, <6>2
        <5> QED
          BY <2>2, <3>1, <5>1, <5>2, <5>3
      <4>2. CASE q # p
        BY <3>3, <4>2 DEF QueueInv, DistinctInv
      <4> QED
        BY <4>1, <4>2
    <3>5. HeadInv'
      BY <1>1, <3>1, <3>2, <3>3 DEF QueueInv, HeadInv, Mine
    <3>6. CompletedInv'
      <4> SUFFICES ASSUME NEW q \in Queues, NEW k \in DOMAIN queue'[q], items'[queue'[q][k]].status = "COMPLETED", ~log.pushed'
                   PROVE  k = 1 /\ worker'[q].pc = "choose"
        BY DEF CompletedInv
      <4>1. CASE q = p
        <5>1. k - 1 \in DOMAIN s /\ queue'[q][k] = s[k - 1]
          BY <2>1, <3>1, <3>3, <4>1
        <5>2. items[s[k - 1]].status = "COMPLETED"
          BY <1>2, <2>2, <5>1
        <5>3. worker[p].pc = "choose"
          BY <1>1, <5>1, <5>2 DEF QueueInv, CompletedInv, s
        <5> QED
          BY <3>2, <5>3
      <4>2. CASE q # p
        <5>1. queue'[q] = queue[q] /\ queue[q][k] \in DOMAIN items
          BY <1>1, <3>3, <4>2
        <5> QED
          BY <1>1, <1>2, <5>1 DEF QueueInv, CompletedInv
      <4> QED
        BY <4>1, <4>2
    <3> QED
      BY <3>4, <3>5, <3>6 DEF QueueInv
  <2> QED
    BY <1>4, <1>n, <1>p, <2>3, <2>4 DEF Puts, Joins
<1> QED
  BY <1>3, <1>4

LEMMA QueueInvQuiet == ASSUME QueueInv, Quiet PROVE QueueInv'
  BY DEF QueueInv, HeadInv, DistinctInv, CompletedInv, Quiet, Mine

\* The item of a worker is in its queue alone.
LEMMA OneOwner ==
  ASSUME Types, NEW p \in Queues, NEW q \in Queues, Mine(q) # 0, NEW k \in DOMAIN queue[p], queue[p][k] = Mine(q)
  PROVE  p = q
<1>1. Home(queue[p][k], p) /\ Home(Mine(q), q)
  BY DEF Types, PlaceType, QueuePlace, WorkerPlace
<1> QED
  BY <1>1, HomeOnce

LEMMA QueueInvWorker ==
  ASSUME Types, QueueInv, NEW q \in Queues, Worker(q) \/ Restart(q)
  PROVE  QueueInv'
<1>1. /\ WorkerMoves(q) /\ log.pushed' = log.pushed
      /\ queue' = queue \/ (Pops(q) /\ queue' = [queue EXCEPT ![q] = IF @ = <<>> THEN @ ELSE Tail(@)])
  BY WorkerEffect, WorkerFrame, PopEffect
<1>2. /\ \A p \in Queues \ {q} : worker'[p] = worker[p]
      /\ NoItem \/ (Works(Mine(q)) /\ worker[q].pc # "take")
  BY <1>1 DEF WorkerMoves, Pops, Takes, Pulls, Finishes, Begins, Ends, Leaves, Reads, Turns, Aborts, Goes, At
<1>3. queue \in [Queues -> Seq(Nat)] /\ \A p \in Queues : \A k \in DOMAIN queue[p] : queue[p][k] \in DOMAIN items
  BY DEF Types, PlaceType, QueuePlace, Home, IsItem, ItemType
<1>4. worker[q].pc # "take" => Mine(q) # 0 /\ queue[q] # <<>> /\ 1 \in DOMAIN queue[q] /\ (queue[q][1] = Mine(q) \/ log.pushed)
  BY <1>3 DEF QueueInv, HeadInv, Types, PlaceType, WorkerPlace
<1>5. ASSUME NEW p \in Queues \ {q}, NEW k \in DOMAIN queue[p] PROVE items'[queue[p][k]] = items[queue[p][k]]
  <2>1. CASE NoItem
    BY <2>1 DEF NoItem
  <2>2. CASE Works(Mine(q)) /\ worker[q].pc # "take"
    <3>1. queue[p][k] # Mine(q)
      BY <1>4, <2>2, OneOwner
    <3> QED
      BY <1>3, <2>2, <3>1 DEF Works, Others
  <2> QED
    BY <1>2, <2>1, <2>2
<1>6. ASSUME NEW p \in Queues \ {q}
      PROVE  queue'[p] = queue[p] /\ worker'[p] = worker[p]
  BY <1>1, <1>2, <1>3
<1>7. DistinctInv'
  <2>1. CASE queue' = queue
    BY <2>1 DEF QueueInv, DistinctInv
  <2>2. CASE queue' = [queue EXCEPT ![q] = IF @ = <<>> THEN @ ELSE Tail(@)]
    <3> SUFFICES ASSUME NEW p \in Queues, NEW k \in DOMAIN queue'[p], NEW l \in DOMAIN queue'[p], queue'[p][k] = queue'[p][l]
                 PROVE  k = l
      BY DEF DistinctInv
    <3>1. CASE p # q \/ queue[q] = <<>>
      BY <1>3, <2>2, <3>1 DEF QueueInv, DistinctInv
    <3>2. CASE p = q /\ queue[q] # <<>>
      <4>1. /\ k \in Nat /\ l \in Nat /\ k + 1 \in DOMAIN queue[q] /\ l + 1 \in DOMAIN queue[q]
            /\ queue[q][k + 1] = queue[q][l + 1]
        BY <1>3, <2>2, <3>2
      <4>2. k + 1 = l + 1
        BY <4>1 DEF QueueInv, DistinctInv
      <4> QED
        BY <4>1, <4>2
    <3> QED
      BY <3>1, <3>2
  <2> QED
    BY <1>1, <2>1, <2>2
<1>8. HeadInv'
  <2> SUFFICES ASSUME NEW p \in Queues, worker'[p].pc # "take"
               PROVE  queue'[p] # <<>> /\ (queue'[p][1] = Mine(p)' \/ log.pushed')
    BY DEF HeadInv
  <2>1. CASE p # q
    BY <1>1, <1>6, <2>1 DEF QueueInv, HeadInv, Mine
  <2>2. CASE p = q
    <3>1. queue' = queue
      BY <1>1, <2>2 DEF Pops, Goes
    <3>2. CASE Takes(q)
      BY <1>3, <2>2, <3>1, <3>2 DEF Takes, Goes, Mine
    <3>3. CASE ~Takes(q)
      <4>1. worker[q].pc # "take" /\ Mine(q)' = Mine(q)
        BY <1>1, <3>3 DEF WorkerMoves, Pops, Pulls, Finishes, Begins, Ends, Leaves, Reads, Turns, Aborts, At, Keeps, Mine
      <4> QED
        BY <1>1, <1>4, <2>2, <3>1, <4>1
    <3> QED
      BY <3>2, <3>3
  <2> QED
    BY <2>1, <2>2
<1>9. CompletedInv'
  <2> SUFFICES ASSUME NEW p \in Queues, NEW k \in DOMAIN queue'[p], items'[queue'[p][k]].status = "COMPLETED", ~log.pushed
               PROVE  k = 1 /\ worker'[p].pc = "choose"
    BY <1>1 DEF CompletedInv
  <2>1. CASE p # q
    <3>1. k \in DOMAIN queue[p] /\ items[queue[p][k]].status = "COMPLETED"
      BY <1>5, <1>6, <2>1
    <3> QED
      BY <1>6, <2>1, <3>1 DEF QueueInv, CompletedInv
  <2>2. CASE p = q /\ NoItem
    <3>1. CASE ~Pops(q)
      <4>1. queue' = queue /\ worker[q].pc # "choose"
        BY <1>1, <2>2, <3>1 DEF WorkerMoves, Pops, Takes, Pulls, Finishes, Begins, Ends, Leaves, Reads, Turns, Aborts, At,
                                Works, NoItem
      <4> QED
        BY <2>2, <4>1 DEF QueueInv, CompletedInv, NoItem
    <3>2. CASE Pops(q)
      <4>1. queue[q] # <<>> /\ queue[q] \in Seq(Nat)
        BY <1>3, <1>4, <3>2 DEF Pops, At
      <4>2. queue'[q] = Tail(queue[q])
        BY <1>3, <3>2, <4>1 DEF Pops
      <4>3. k + 1 \in DOMAIN queue[q] /\ queue'[q][k] = queue[q][k + 1] /\ k \in Nat /\ k >= 1
        BY <2>2, <4>1, <4>2
      <4>4. k + 1 = 1
        BY <2>2, <4>3 DEF QueueInv, CompletedInv, NoItem
      <4> QED
        BY <4>3, <4>4
    <3> QED
      BY <3>1, <3>2
  <2>3. CASE p = q /\ ~NoItem
    <3>1. queue' = queue /\ Works(Mine(q)) /\ worker[q].pc # "take"
      BY <1>1, <1>2, <2>3 DEF Pops
    <3>2. worker[q].pc # "choose"
      BY <1>1, <2>3 DEF WorkerMoves, Pops, Takes, Pulls, Finishes, Begins, Ends, Leaves, Reads, Turns, Aborts, At
    <3>3. queue[q][1] = Mine(q)
      BY <1>4, <3>1, <2>3
    <3>4. k \in DOMAIN queue[q] /\ items[queue[q][k]].status # "COMPLETED"
      BY <2>3, <3>1, <3>2 DEF QueueInv, CompletedInv
    <3>5. queue[q][k] = Mine(q)
      BY <1>3, <2>3, <3>1, <3>4 DEF Works, Others
    <3>6. k = 1
      BY <1>4, <3>1, <3>3, <3>4, <3>5 DEF QueueInv, DistinctInv
    <3>7. items'[Mine(q)].status = "COMPLETED" /\ items[Mine(q)].status # "COMPLETED"
      BY <2>3, <3>1, <3>4, <3>5
    <3>8. worker'[q].pc = "choose"
      BY <1>1, <2>3, <3>7 DEF WorkerMoves, Pops, Takes, Pulls, Finishes, Begins, Ends, Leaves, Reads, Turns, Aborts, Goes
    <3> QED
      BY <2>3, <3>6, <3>8
  <2> QED
    BY <2>1, <2>2, <2>3
<1> QED
  BY <1>7, <1>8, <1>9 DEF QueueInv

LEMMA QueueInvNext == ASSUME Types, QueueInv, Next PROVE QueueInv'
<1>1. CASE Quiet
  BY <1>1, QueueInvQuiet
<1>2. CASE \E r : Puts(r)
  BY <1>2, QueueInvPuts
<1>3. CASE \E q \in Queues : Worker(q) \/ Restart(q)
  BY <1>3, QueueInvWorker
<1> QED
  BY <1>1, <1>2, <1>3, FourKinds

-----------------------------------------------------------------------------
(* A scan is announced with the number that it gets.                       *)

\* A block that is about to start has been announced with the current number, or is a later
\* scan of its item.
LaterIn(q) ==
  \E b \in 1..(items[Mine(q)].active - 1) : items[Mine(q)].blocks[b].scan \notin {NoScan, Active(q).scan}
AnnouncedInv ==
  \A q \in Queues : At(q, "first") /\ Active(q).is_scan =>
    Active(q).number = scan_number \/ ~OneQueue \/ log.pushed \/ LaterIn(q)

LEMMA OneWorker ==
  ASSUME Types, OneQueue, NEW p \in Queues, NEW q \in Queues, Mine(p) # 0, Mine(q) # 0
  PROVE  p = q
<1>1. ASSUME NEW w \in Queues, Mine(w) # 0 PROVE w = "primary"
  <2>1. Home(Mine(w), w)
    BY <1>1 DEF Types, PlaceType, WorkerPlace
  <2>2. Mine(w) \in DOMAIN items /\ 1 \in DOMAIN items[Mine(w)].blocks
    BY <2>1, HomeOnce
  <2>3. items[Mine(w)].blocks[1].req \in DOMAIN sent
    BY <2>2 DEF Types, ItemType, AnswerType, ClientType, Accepted
  <2> QED
    BY <2>1, <2>2, <2>3 DEF Home, OneQueue
<1> QED
  BY <1>1

\* No scan is ahead of the first one of the item at the head of the queue.
LEMMA NothingAhead ==
  ASSUME Types, NEW q \in Queues, At(q, "next"), queue[q] # <<>>, queue[q][1] = Mine(q),
         items[Mine(q)].status # "COMPLETED", NEW n \in DOMAIN items[Mine(q)].blocks,
         \A b \in 1..(n - 1) : items[Mine(q)].blocks[b].scan \in {NoScan, items[Mine(q)].blocks[n].scan}
  PROVE  Predicted(q, Mine(q), items[Mine(q)].blocks[n].scan) = scan_number
<1> DEFINE i == Mine(q)
           scan == items[i].blocks[n].scan
<1>1. queue[q] \in Seq(Nat) /\ scan_number \in Nat
  BY DEF Types, PlaceType, QueuePlace, NumberType
<1>2. UpTo(q, i) \subseteq {i}
  <2> SUFFICES ASSUME NEW k \in DOMAIN queue[q], \A l \in 1..(k - 1) : queue[q][l] # i \/ items[i].status = "COMPLETED"
               PROVE  queue[q][k] = i
    BY DEF UpTo
  <2>1. k \in Nat /\ k >= 1
    BY <1>1
  <2>2. ~(1 \in 1..(k - 1))
    OBVIOUS
  <2>3. k = 1
    BY <2>1, <2>2
  <2> QED
    BY <2>3
<1>3. n \in Nat /\ \A b \in DOMAIN items[i].blocks : b \in Nat /\ b >= 1
  BY MineType DEF At, ItemSet
<1>4. Ahead(q, i, scan) = {}
  <2> SUFFICES ASSUME NEW x \in Ahead(q, i, scan) PROVE FALSE
    OBVIOUS
  <2>1. /\ x \in BlocksUpTo(q, i)
        /\ items[x[1]].blocks[x[2]].scan # NoScan
        /\ x[1] = i => \A c \in 1..x[2] : items[x[1]].blocks[c].scan # scan
    BY DEF Ahead
  <2>2. x[1] = i /\ x[2] \in DOMAIN items[i].blocks
    BY <1>2, <2>1 DEF BlocksUpTo
  <2> DEFINE b == x[2]
  <2>3. b \in Nat /\ b >= 1 /\ items[i].blocks[b].scan # NoScan /\ \A c \in 1..b : items[i].blocks[c].scan # scan
    BY <1>3, <2>1, <2>2
  <2>4. ~(n \in 1..b)
    BY <2>3
  <2>5. b < n /\ b \in 1..(n - 1)
    BY <1>3, <2>3, <2>4
  <2>6. b \in 1..b
    BY <2>3
  <2> QED
    BY <2>3, <2>5, <2>6
<1>5. Cardinality(Ahead(q, i, scan)) = 0
  BY <1>4, FS_EmptySet
<1> QED
  BY <1>1, <1>5 DEF Predicted

LEMMA AnnouncedPull ==
  ASSUME Types, QueueInv, NEW q \in Queues, Pulls(q), OneQueue, ~log.pushed
  PROVE  Active(q).is_scan' => Active(q).number' = scan_number \/ LaterIn(q)'
<1> DEFINE i == Mine(q)
           n == items[i].next
<1>1. /\ i \in DOMAIN items /\ At(q, "next") /\ n \in DOMAIN items[i].blocks /\ Works(i) /\ items'[i].active = n
      /\ items'[i].blocks[n].number = (IF items[i].blocks[n].is_scan THEN Predicted(q, i, items[i].blocks[n].scan) ELSE 0)
      /\ worker'[q].item = i
  BY MineType DEF Pulls, At, Keeps, Mine
<1>2. Active(q)' = items'[i].blocks[n] /\ Mine(q)' = i
  BY <1>1 DEF Active, Item, Mine
<1>3. queue[q] # <<>> /\ queue[q][1] = i /\ items[i].status # "COMPLETED"
  <2>1. queue[q] # <<>> /\ queue[q][1] = i /\ queue[q] \in Seq(Nat)
    BY <1>1 DEF QueueInv, HeadInv, At, Types, PlaceType, QueuePlace
  <2>2. 1 \in DOMAIN queue[q]
    BY <2>1
  <2> QED
    BY <1>1, <2>1, <2>2 DEF QueueInv, CompletedInv, At
<1> HIDE DEF n, i
<1>4. \A b \in DOMAIN items[i].blocks : items'[i].blocks[b].scan = items[i].blocks[b].scan
      /\ items'[i].blocks[n].is_scan = items[i].blocks[n].is_scan
  BY <1>1 DEF Works
<1>5. 1..(n - 1) \subseteq DOMAIN items[i].blocks
  <2>1. items[i] \in ItemSet
    BY <1>1 DEF Types, ItemType
  <2>2. items[i].blocks \in Seq(BlockSet)
    BY <2>1 DEF ItemSet
  <2> QED
    BY <1>1, <2>2
<1>6. CASE \A b \in 1..(n - 1) : items[i].blocks[b].scan \in {NoScan, items[i].blocks[n].scan}
  <2>1. Predicted(q, i, items[i].blocks[n].scan) = scan_number
    BY <1>1, <1>3, <1>6, NothingAhead DEF i
  <2> QED
    BY <1>1, <1>2, <1>4, <2>1
<1>7. CASE \E b \in 1..(n - 1) : items[i].blocks[b].scan \notin {NoScan, items[i].blocks[n].scan}
  <2>1. \E b \in 1..(n - 1) : items'[i].blocks[b].scan \notin {NoScan, items'[i].blocks[n].scan}
    BY <1>1, <1>4, <1>5, <1>7
  <2> QED
    BY <1>1, <1>2, <2>1 DEF LaterIn, NoScan
<1> QED
  BY <1>6, <1>7

\* Otherwise a worker that is about to start has been so before, with the same block.
LEMMA AnnouncedSame ==
  ASSUME Types, Types', AnnouncedInv, NEW q \in Queues, At(q, "first"), At(q, "first")', Keeps(q), OneQueue' => OneQueue,
         log.pushed => log.pushed', OneQueue /\ ~log.pushed => scan_number' = scan_number,
         items'[Mine(q)].active = items[Mine(q)].active,
         \A b \in DOMAIN items[Mine(q)].blocks : items'[Mine(q)].blocks[b] = items[Mine(q)].blocks[b]
  PROVE  Active(q).is_scan' => Active(q).number' = scan_number' \/ ~OneQueue' \/ log.pushed' \/ LaterIn(q)'
<1> DEFINE i == Mine(q)
           n == items[i].active
<1>1. n \in DOMAIN items[i].blocks /\ i \in DOMAIN items /\ items[i] \in ItemSet /\ Mine(q)' = i
  BY ActiveType, MineType DEF At, Keeps, Mine
<1>2. items[i].blocks \in Seq(BlockSet) /\ n \in Nat /\ 1..(n - 1) \subseteq DOMAIN items[i].blocks
  BY <1>1 DEF ItemSet
<1> HIDE DEF i, n
<1>3. Active(q)' = Active(q)
  BY <1>1 DEF Active, Item, i, n
<1>4. LaterIn(q) => LaterIn(q)'
  <2>1. LaterIn(q) <=> \E b \in 1..(n - 1) : items[i].blocks[b].scan \notin {NoScan, Active(q).scan}
    BY DEF LaterIn, i, n
  <2>2. LaterIn(q)' <=> \E b \in 1..(n - 1) : items'[i].blocks[b].scan \notin {NoScan, Active(q).scan}
    BY <1>1, <1>3 DEF LaterIn, i, n, NoScan
  <2> QED
    BY <1>2, <2>1, <2>2 DEF i
<1> QED
  BY <1>3, <1>4 DEF AnnouncedInv

LEMMA QueuesStay == ASSUME Remembers, OneQueue' PROVE OneQueue
  BY DEF Remembers, SentKept, OneQueue

LEMMA AnnouncedNext == ASSUME Types, Types', Remembers, QueueInv, AnnouncedInv, Next PROVE AnnouncedInv'
<1>1. OneQueue' => OneQueue
  BY QueuesStay
<1>2. CASE Quiet
  <2> SUFFICES ASSUME NEW q \in Queues, At(q, "first")'
               PROVE  Active(q).is_scan' => Active(q).number' = scan_number' \/ ~OneQueue' \/ log.pushed' \/ LaterIn(q)'
    BY DEF AnnouncedInv, At
  <2> QED
    BY <1>1, <1>2, AnnouncedSame DEF Quiet, At, Keeps
<1>3. CASE \E r : Puts(r)
  <2>1. PICK r : Puts(r)
    BY <1>3
  <2>2. worker' = worker /\ scan_number' = scan_number /\ (log.pushed => log.pushed')
    BY <2>1 DEF Puts, numbers
  <2>3. ASSUME NEW i \in DOMAIN items
        PROVE  /\ items'[i].active = items[i].active
               /\ \A b \in DOMAIN items[i].blocks : items'[i].blocks[b] = items[i].blocks[b]
    <3>1. CASE \E j : Joins(j, r)
      <4>1. PICK j : Joins(j, r)
        BY <3>1
      <4> QED
        BY <4>1 DEF Joins, Adds, Others, Extends
    <3>2. CASE Arrives(r)
      BY <3>2 DEF Arrives, Makes, Others
    <3> QED
      BY <2>1, <3>1, <3>2 DEF Puts
  <2> SUFFICES ASSUME NEW q \in Queues, At(q, "first")'
               PROVE  Active(q).is_scan' => Active(q).number' = scan_number' \/ ~OneQueue' \/ log.pushed' \/ LaterIn(q)'
    BY DEF AnnouncedInv, At
  <2>4. At(q, "first") /\ Keeps(q)
    BY <2>2 DEF At, Keeps
  <2>5. Mine(q) \in DOMAIN items
    BY <2>4, MineType DEF At
  <2> QED
    BY <1>1, <2>2, <2>3, <2>4, <2>5, AnnouncedSame
<1>4. CASE \E w \in Queues : Worker(w) \/ Restart(w)
  <2>1. PICK w \in Queues : Worker(w) \/ Restart(w)
    BY <1>4
  <2>2. WorkerMoves(w) /\ log.pushed' = log.pushed
    BY <2>1, WorkerEffect, WorkerFrame
  <2>3. scan_number' = scan_number \/ (At(w, "write") /\ Leaves(w))
    BY <2>1, WorkerFrame DEF numbers
  <2> SUFFICES ASSUME NEW q \in Queues, At(q, "first")', OneQueue', ~log.pushed'
               PROVE  Active(q).is_scan' => Active(q).number' = scan_number' \/ LaterIn(q)'
    BY DEF AnnouncedInv, At
  <2>4. CASE q = w
    <3>1. Pulls(q)
      BY <2>2, <2>4 DEF WorkerMoves, Pops, Takes, Pulls, Finishes, Begins, Ends, Leaves, Reads, Turns, Aborts, Goes, At
    <3>2. scan_number' = scan_number
      BY <2>3, <2>4, <3>1 DEF Pulls, At
    <3> QED
      BY <1>1, <2>2, <3>1, <3>2, AnnouncedPull
  <2>5. CASE q # w
    <3>1. worker'[q] = worker[q]
      BY <2>2, <2>5 DEF WorkerMoves, Pops, Takes, Pulls, Finishes, Begins, Ends, Leaves, Reads, Turns, Aborts, Goes
    <3>2. At(q, "first") /\ Keeps(q) /\ Mine(q) # 0
      BY <3>1, MineType DEF At, Keeps, Types, PlaceType, WorkerPlace
    <3>3. worker[w].pc = "take"
      BY <1>1, <2>5, <3>2, OneWorker DEF Types, PlaceType, WorkerPlace
    <3>4. NoItem /\ scan_number' = scan_number
      BY <2>2, <2>3, <3>3 DEF WorkerMoves, Pops, Takes, Pulls, Finishes, Begins, Ends, Leaves, Reads, Turns, Aborts, At
    <3> QED
      BY <1>1, <2>2, <3>2, <3>4, AnnouncedSame DEF NoItem
  <2> QED
    BY <2>4, <2>5
<1> QED
  BY <1>2, <1>3, <1>4, FourKinds

LEMMA PredictedNext ==
  ASSUME Types, Remembers, AnnouncedInv, PredictedIsOpened, Next
  PROVE  PredictedIsOpened'
<1>1. (OneQueue' => OneQueue) /\ (log.pushed => log.pushed')
  <2>1. log.pushed => log.pushed'
    BY FourKinds, WorkerFrame DEF Quiet, Puts
  <2> QED
    BY <2>1, QueuesStay
<1>2. CASE opened' = opened
  BY <1>1, <1>2 DEF PredictedIsOpened
<1>3. CASE opened' # opened
  <2>1. PICK q \in Queues : Worker(q) \/ Restart(q)
    BY <1>3, FourKinds DEF Quiet, Puts
  <2>2. Start(q) /\ Active(q).is_scan /\ opened' = Append(opened, Opening(q))
    BY <1>3, <2>1, WorkerFrame
  <2>3. At(q, "first") /\ opened \in Seq(Openings)
    BY <2>2 DEF Start, Types, OpenedType
  <2>4. Opening(q) \in Openings
    BY <2>3, OpeningType
  <2>5. PICK o : o = Opening(q)
    OBVIOUS
  <2>6. o.predicted = o.number \/ o.later \/ ~OneQueue \/ log.pushed
    BY <2>2, <2>3, <2>5 DEF AnnouncedInv, LaterIn, Opening
  <2>7. \A k \in DOMAIN opened' : (k \in DOMAIN opened /\ opened'[k] = opened[k]) \/ opened'[k] = o
    BY <2>2, <2>3, <2>4, <2>5, Appended
  <2> QED
    BY <1>1, <2>6, <2>7 DEF PredictedIsOpened
<1> QED
  BY <1>2, <1>3

LEMMA InitQueues == Init => QueueInv /\ AnnouncedInv /\ PredictedIsOpened
<1> SUFFICES ASSUME Init PROVE QueueInv /\ AnnouncedInv /\ PredictedIsOpened
  OBVIOUS
<1>1. /\ queue = [q \in Queues |-> <<>>] /\ opened = <<>>
      /\ worker = [q \in Queues |-> [pc |-> "take", item |-> 0, read |-> 0]]
  BY DEF Init
<1> QED
  BY <1>1 DEF QueueInv, HeadInv, DistinctInv, CompletedInv, AnnouncedInv, PredictedIsOpened, At


-----------------------------------------------------------------------------
(* A definition that a client has closed is not used again, and requests    *)
(* become blocks in the order in which they were sent, unless a restart     *)
(* repeats one.                                                             *)

Closes(c) == Kind(c) = "close_scan_def" /\ Def(c) # 0
ContextInv ==
  /\ context.def <= context.fresh
  /\ \A r \in DOMAIN sent : Def(r) <= context.fresh
  /\ \A c \in DOMAIN sent : Closes(c) => Def(c) # context.def
ClosedInv == \A c, r \in DOMAIN sent : Closes(c) /\ c < r => Def(r) # Def(c)

\* Only a client's step sends requests.
LEMMA OnlyClientsSend == ASSUME Types, Next, ~Client PROVE context' = context /\ sent' = sent
<1>1. CASE Receive \/ Look \/ LookFails \/ AssembleFails
  BY <1>1, LookingEffect DEF client
<1>2. CASE HandleRequest \/ Insert \/ \E i \in DOMAIN restarts : RestartFound(i) \/ RestartTimesOut(i) \/ Reinsert(i)
  BY <1>2 DEF HandleRequest, Insert, RestartFound, RestartTimesOut, Reinsert, client
<1>3. CASE \E q \in Queues : Worker(q) \/ Restart(q)
  BY <1>3, WorkerFrame DEF client
<1>4. CASE Waiting
  BY <1>4 DEF Waiting, vars, client
<1> QED
  BY <1>1, <1>2, <1>3, <1>4 DEF Next, Server

\* What is said of a request stays true.
LEMMA SaidKept ==
  ASSUME SentKept, NEW r \in DOMAIN sent
  PROVE  Def(r)' = Def(r) /\ Kind(r)' = Kind(r) /\ IsScan(r)' = IsScan(r) /\ Closes(r)' = Closes(r)
  BY DEF SentKept, Def, Kind, IsScan, Closes

LEMMA ContextNext == ASSUME Types, Remembers, ContextInv, ClosedInv, Next PROVE ContextInv' /\ ClosedInv'
<1>1. CASE ~Client
  BY <1>1, OnlyClientsSend DEF ContextInv, ClosedInv, Closes, Kind, Def
<1>2. CASE Client
  <2>1. PICK step \in Steps : Do(step)
    BY <1>2, ClientEffect
  <2>2. ClientType /\ context.fresh \in Nat /\ context.def \in Nat /\ context'.fresh \in Nat /\ context'.def \in Nat
    BY <2>1, DoEffect DEF Types, ClientType
  <2>3. CASE sent' = sent /\ context.def' = context.def /\ context.fresh' >= context.fresh
    <3>1. \A r \in DOMAIN sent : Def(r)' = Def(r) /\ Kind(r)' = Kind(r) /\ Def(r) \in Nat
      BY <2>2, <2>3, SentType DEF Def, Kind
    <3> QED
      BY <2>2, <2>3, <3>1 DEF ContextInv, ClosedInv, Closes
  <2>4. ASSUME NEW s \in Requests, sent' = Append(sent, s),
               \/ s.kind # "close_scan_def" /\ s.def \in {0, context.def} /\ context.def' = context.def
                  /\ context.fresh' = context.fresh
               \/ s.kind = "open_scan_def" /\ s.def = context.fresh + 1 /\ context.def' = s.def /\ context.fresh' = s.def
               \/ s.kind = "close_scan_def" /\ s.def = context.def /\ context.def' = 0 /\ context.fresh' = context.fresh
        PROVE  ContextInv' /\ ClosedInv'
    <3>n. PICK n : n = Len(sent) + 1
      OBVIOUS
    <3>1. /\ DOMAIN sent' = DOMAIN sent \cup {n} /\ sent'[n] = s /\ n \in Nat /\ s.def \in Nat
          /\ \A r \in DOMAIN sent : sent'[r] = sent[r] /\ r \in Nat /\ r < n
      <4>1. sent \in Seq(Requests)
        BY <2>2 DEF ClientType
      <4> QED
        BY <2>4, <3>n, <4>1, Appended, SMTT(30) DEF Requests
    <3>2. \A r \in DOMAIN sent : Def(r)' = Def(r) /\ Kind(r)' = Kind(r) /\ Def(r) \in Nat /\ Def(r) <= context.fresh
      BY <2>2, <3>1, SentType DEF Def, Kind, ContextInv
    <3>3. Def(n)' = s.def /\ Kind(n)' = s.kind
      BY <3>1 DEF Def, Kind
    <3>4. \A c \in DOMAIN sent : Closes(c) => Def(c) # context.def
      BY DEF ContextInv
    <3>5. context.def <= context.fresh /\ context.fresh <= context.fresh' /\ context.def' <= context.fresh' /\ s.def <= context.fresh'
      BY <2>2, <2>4 DEF ContextInv
    <3>6. \A c \in DOMAIN sent : Closes(c) => Def(c) # s.def /\ Def(c) # context.def'
      BY <2>2, <2>4, <3>1, <3>2, <3>4 DEF Closes
    <3>7. s.kind = "close_scan_def" /\ s.def # 0 => s.def # context.def'
      BY <2>4
    <3>8. ContextInv'
      BY <2>2, <3>1, <3>2, <3>3, <3>5, <3>6, <3>7 DEF ContextInv, Closes
    <3>9. ClosedInv'
      <4> SUFFICES ASSUME NEW c \in DOMAIN sent', NEW r \in DOMAIN sent', Closes(c)', c < r PROVE Def(r)' # Def(c)'
        BY DEF ClosedInv
      <4>1. c \in DOMAIN sent /\ c # n /\ Closes(c)
        BY <3>1, <3>2 DEF Closes
      <4>2. CASE r = n
        BY <3>2, <3>3, <3>6, <4>1, <4>2
      <4>3. CASE r # n
        BY <3>1, <3>2, <4>1, <4>3 DEF ClosedInv
      <4> QED
        BY <4>2, <4>3
    <3> QED
      BY <3>8, <3>9
  <2> QED
    BY <2>1, <2>2, <2>3, <2>4, DoEffect
<1> QED
  BY <1>1, <1>2

\* The requests that are still to be inserted come after all those that are blocks.
IsBlock(r) == \E i \in DOMAIN items : \E b \in DOMAIN items[i].blocks : items[i].blocks[b].req = r
Passed(r) == (\A k \in DOMAIN inserts : r < inserts[k]) /\ (inserter.pc # "idle" => r < inserter.req)
OrderInv ==
  /\ \A k, l \in DOMAIN inserts : k < l => inserts[k] < inserts[l]
  /\ inserter.pc # "idle" => \A k \in DOMAIN inserts : inserter.req < inserts[k]
  /\ \A r : IsBlock(r) => Passed(r)

LEMMA BlocksComeFrom ==
  ASSUME Types, Next, NEW r, IsBlock(r)'
  PROVE  IsBlock(r) \/ (Puts(r) /\ (First(r) \/ Repeats(r)))
<1>0. PICK i \in DOMAIN items' : \E b \in DOMAIN items'[i].blocks : items'[i].blocks[b].req = r
  BY DEF IsBlock
<1>1. PICK b \in DOMAIN items'[i].blocks : items'[i].blocks[b].req = r
  BY <1>0
<1>2. CASE Quiet
  BY <1>1, <1>2 DEF Quiet, IsBlock
<1>3. ASSUME NEW s, Puts(s), First(s) \/ Repeats(s) PROVE IsBlock(r) \/ r = s
  <2>1. CASE \E j : Joins(j, s)
    <3>1. PICK j : Joins(j, s)
      BY <2>1
    <3>2. CASE i = j
      BY <1>1, <3>1, <3>2 DEF Joins, Adds, Extends, IsBlock
    <3>3. CASE i # j
      BY <1>1, <3>1, <3>3 DEF Joins, Adds, Others, IsBlock
    <3> QED
      BY <3>2, <3>3
  <2>2. CASE Arrives(s)
    <3>1. PICK n : Makes(n, s)
      BY <2>2 DEF Arrives
    <3>2. CASE i = n
      BY <1>1, <3>1, <3>2 DEF Makes, Extends, EmptyItem
    <3>3. CASE i # n
      BY <1>1, <3>1, <3>3 DEF Makes, Others, IsBlock
    <3> QED
      BY <3>2, <3>3
  <2> QED
    BY <1>3, <2>1, <2>2 DEF Puts
<1>4. ASSUME NEW q \in Queues, Worker(q) \/ Restart(q) PROVE IsBlock(r)
  <2>1. NoItem \/ Works(Mine(q))
    BY <1>4, WorkerEffect DEF WorkerMoves, Pops, Takes, Pulls, Finishes, Begins, Ends, Leaves, Reads, Turns, Aborts
  <2> QED
    BY <1>1, <2>1 DEF NoItem, Works, Others, IsBlock
<1> QED
  BY <1>2, <1>3, <1>4, FourKinds

LEMMA OrderNext == ASSUME Types, OrderInv, Next PROVE OrderInv'
<1>1. /\ inserts \in Seq(Nat) /\ \A k \in DOMAIN inserts : inserts[k] \in Accepted
      /\ inserter \in [pc : {"idle", "look", "insert"}, req : Nat, item : Nat, seen : Seq(Nat)]
      /\ inserter.pc # "idle" => inserter.req \in Accepted
  BY DEF Types, InsertType
<1>2. Accepted \subseteq DOMAIN answered /\ answered \in Seq(BOOLEAN)
  BY DEF Accepted, Types, AnswerType
<1>3. \A r : IsBlock(r) => r \in Accepted /\ r \in Nat
  BY <1>2 DEF IsBlock, Types, ItemType
<1>4. ASSUME UNCHANGED <<inserts, inserter>> PROVE OrderInv'
  <2>1. ASSUME NEW r, IsBlock(r)' PROVE Passed(r)'
    <3>1. CASE IsBlock(r)
      BY <1>4, <3>1 DEF OrderInv, Passed
    <3>2. CASE Puts(r) /\ First(r)
      BY <1>4, <3>2 DEF First
    <3>3. CASE Puts(r) /\ Repeats(r)
      BY <1>4, <3>3 DEF Repeats, IsBlock, OrderInv, Passed
    <3> QED
      BY <2>1, <3>1, <3>2, <3>3, BlocksComeFrom
  <2> QED
    BY <1>4, <2>1 DEF OrderInv
<1>5. CASE HandleRequest
  <2>n. PICK n : n = Len(answered) + 1
    OBVIOUS
  <2>1. /\ items' = items /\ inserter' = inserter /\ (inserts' = inserts \/ inserts' = Append(inserts, n))
    BY <1>5, <2>n DEF HandleRequest
  <2>2. CASE inserts' = inserts
    BY <1>4, <2>1, <2>2
  <2>3. CASE inserts' = Append(inserts, n)
    <3>1. n \in Nat /\ \A r \in Accepted : r \in Nat /\ r < n
      BY <1>2, <2>n
    <3>2. /\ DOMAIN inserts' = DOMAIN inserts \cup {Len(inserts) + 1} /\ inserts'[Len(inserts) + 1] = n
          /\ DOMAIN inserts = 1..Len(inserts) /\ \A k \in DOMAIN inserts : inserts'[k] = inserts[k] /\ k # Len(inserts) + 1
      BY <1>1, <2>3, <3>1, Appended
    <3>3. ASSUME NEW k \in DOMAIN inserts', NEW l \in DOMAIN inserts', k < l PROVE inserts'[k] < inserts'[l]
      <4>1. k \in DOMAIN inserts
        BY <1>1, <3>2, <3>3
      <4>2. CASE l \in DOMAIN inserts
        BY <3>2, <3>3, <4>1, <4>2 DEF OrderInv
      <4>3. CASE l = Len(inserts) + 1
        BY <1>1, <3>1, <3>2, <4>1, <4>3
      <4> QED
        BY <3>2, <4>2, <4>3
    <3>4. ASSUME inserter.pc # "idle", NEW k \in DOMAIN inserts' PROVE inserter.req < inserts'[k]
      BY <1>1, <3>1, <3>2, <3>4 DEF OrderInv
    <3>5. ASSUME NEW r, IsBlock(r)' PROVE Passed(r)'
      <4>1. IsBlock(r)
        BY <2>1, <3>5 DEF IsBlock
      <4> QED
        BY <1>3, <2>1, <3>1, <3>2, <4>1 DEF OrderInv, Passed
    <3> QED
      BY <2>1, <3>3, <3>4, <3>5 DEF OrderInv
  <2> QED
    BY <2>1, <2>2, <2>3
<1>6. CASE Receive \/ Look \/ LookFails \/ AssembleFails
  <2>1. /\ items' = items
        /\ \/ /\ inserter.pc = "idle" /\ inserts # <<>> /\ inserts' = Tail(inserts) /\ inserter.pc' = "look"
              /\ inserter.req' = Head(inserts)
           \/ inserter.pc # "idle" /\ inserts' = inserts /\ inserter.req' = inserter.req
    BY <1>6, LookingEffect
  <2>2. \A r : IsBlock(r)' => IsBlock(r)
    BY <2>1 DEF IsBlock
  <2>3. CASE inserter.pc # "idle" /\ inserts' = inserts /\ inserter.req' = inserter.req
    BY <2>2, <2>3 DEF OrderInv, Passed
  <2>4. CASE inserts # <<>> /\ inserts' = Tail(inserts) /\ inserter.pc' = "look" /\ inserter.req' = Head(inserts)
    <3>1. /\ \A k \in DOMAIN inserts' : k \in Nat /\ k + 1 \in DOMAIN inserts /\ inserts'[k] = inserts[k + 1] /\ 1 < k + 1
          /\ 1 \in DOMAIN inserts /\ inserter.req' = inserts[1]
      BY <1>1, <2>4
    <3>2. \A k, l \in DOMAIN inserts' : k < l => k + 1 < l + 1
      BY <3>1
    <3> QED
      BY <2>2, <3>1, <3>2 DEF OrderInv, Passed
  <2> QED
    BY <2>1, <2>3, <2>4
<1>7. CASE Insert
  <2>1. inserter.pc = "insert" /\ inserter' = [inserter EXCEPT !.pc = "idle"]
    BY <1>7, InsertEffect
  <2>2. inserts' = inserts /\ inserter.pc' = "idle"
    BY <1>1, <1>7, <2>1 DEF Insert
  <2>3. ASSUME NEW r, IsBlock(r)' PROVE Passed(r)'
    <3>1. CASE IsBlock(r)
      BY <2>2, <3>1 DEF OrderInv, Passed
    <3>2. CASE First(r)
      BY <2>1, <2>2, <3>2 DEF First, OrderInv, Passed
    <3>3. CASE Repeats(r)
      BY <2>2, <3>3 DEF Repeats, IsBlock, OrderInv, Passed
    <3> QED
      BY <2>3, <3>1, <3>2, <3>3, BlocksComeFrom
  <2> QED
    BY <2>1, <2>2, <2>3 DEF OrderInv
<1>8. CASE Client \/ Waiting \/ (\E q \in Queues : Worker(q) \/ Restart(q))
           \/ \E i \in DOMAIN restarts : RestartFound(i) \/ RestartTimesOut(i) \/ Reinsert(i)
  <2>1. UNCHANGED <<inserts, inserter>>
    BY <1>8, ClientEffect, WorkerFrame DEF Waiting, vars, RestartFound, RestartTimesOut, Reinsert
  <2> QED
    BY <1>4, <2>1
<1> QED
  BY <1>5, <1>6, <1>7, <1>8 DEF Next, Server

-----------------------------------------------------------------------------
(* The definitions of an item. Unless it was aborted or repeated, all blocks *)
(* of a definition have the scan of its entry, and the entry is there until  *)
(* the block that closes the definition is taken.                            *)

HasEntry(item, d) == \E e \in item.defs : e.def = d
ClosedIn(item, d) ==
  \E c \in DOMAIN item.blocks : c < item.next /\ Closes(item.blocks[c].req) /\ Def(item.blocks[c].req) = d
EntriesOk(item) == \A e, f \in item.defs : e.def # 0 /\ (e.def = f.def => e = f)
Intact(item, b) ==
  LET r == item.blocks[b].req  d == Def(r) IN
  d # 0 /\ d \notin log.defs =>
    /\ \A e \in item.defs : e.def = d => e.scan = item.blocks[b].scan
    /\ HasEntry(item, d) \/ ClosedIn(item, d)
    /\ \A c \in DOMAIN item.blocks : c < b /\ Def(item.blocks[c].req) = d => item.blocks[c].req < r
BlocksOk(item) == \A b \in DOMAIN item.blocks : item.blocks[b].is_scan = IsScan(item.blocks[b].req) /\ Intact(item, b)
StoppedOk(item) == item.status = "STOPPED" => \A e \in item.defs : e.def \in log.defs
ItemOk(item) == EntriesOk(item) /\ BlocksOk(item) /\ StoppedOk(item)

\* It stays so when the item keeps its blocks and an entry goes only when it is closed.
LEMMA ItemOkKept ==
  ASSUME NEW old \in ItemSet, NEW new \in ItemSet, ItemOk(old), SentKept, log.defs \subseteq log.defs',
         DOMAIN new.blocks = DOMAIN old.blocks, new.next >= old.next, new.defs \subseteq old.defs,
         \A b \in DOMAIN old.blocks :
           /\ old.blocks[b].req \in DOMAIN sent
           /\ new.blocks[b].req = old.blocks[b].req /\ new.blocks[b].is_scan = old.blocks[b].is_scan
           /\ new.blocks[b].scan = old.blocks[b].scan,
         \A e \in old.defs \ new.defs : ClosedIn(old, e.def),
         new.status = "STOPPED" => old.status = "STOPPED" \/ \A e \in new.defs : e.def \in log.defs'
  PROVE  ItemOk(new)'
<1>1. EntriesOk(new)'
  BY DEF ItemOk, EntriesOk
<1>2. StoppedOk(new)'
  BY DEF ItemOk, StoppedOk
<1>3. /\ old.next \in Nat /\ new.next \in Nat /\ DOMAIN old.blocks \subseteq Nat
  BY DEF ItemSet
<1>4. ASSUME NEW d, ClosedIn(old, d) PROVE ClosedIn(new, d)'
  <2>1. PICK c \in DOMAIN old.blocks : c < old.next /\ Closes(old.blocks[c].req) /\ Def(old.blocks[c].req) = d
    BY <1>4 DEF ClosedIn
  <2>2. c < new.next
    BY <1>3, <2>1
  <2>3. Closes(new.blocks[c].req)' /\ Def(new.blocks[c].req)' = d
    BY <2>1, SaidKept
  <2> QED
    BY <2>1, <2>2, <2>3 DEF ClosedIn
<1>5. ASSUME NEW b \in DOMAIN new.blocks PROVE new.blocks[b].is_scan = IsScan(new.blocks[b].req)' /\ Intact(new, b)'
  <2>1. PICK r \in DOMAIN sent : r = old.blocks[b].req /\ new.blocks[b].req = r
    OBVIOUS
  <2>2. Def(r)' = Def(r) /\ IsScan(r)' = IsScan(r)
    BY SaidKept
  <2>3. old.blocks[b].is_scan = IsScan(r) /\ Intact(old, b)
    BY <2>1 DEF ItemOk, BlocksOk
  <2>4. ASSUME Def(r) # 0, Def(r) \notin log.defs'
        PROVE  /\ \A e \in new.defs : e.def = Def(r) => e.scan = new.blocks[b].scan
               /\ HasEntry(new, Def(r)) \/ ClosedIn(new, Def(r))'
               /\ \A c \in DOMAIN new.blocks : c < b /\ Def(new.blocks[c].req)' = Def(r) => new.blocks[c].req < r
    <3>1. /\ \A e \in old.defs : e.def = Def(r) => e.scan = old.blocks[b].scan
          /\ HasEntry(old, Def(r)) \/ ClosedIn(old, Def(r))
          /\ \A c \in DOMAIN old.blocks : c < b /\ Def(old.blocks[c].req) = Def(r) => old.blocks[c].req < r
      BY <2>1, <2>3, <2>4 DEF Intact
    <3>2. HasEntry(new, Def(r)) \/ ClosedIn(new, Def(r))'
      <4>0. PICK d : d = Def(r)
        OBVIOUS
      <4>1. CASE ClosedIn(old, d)
        BY <1>4, <2>2, <4>0, <4>1
      <4>2. CASE ~ClosedIn(old, d)
        <5>1. PICK e \in old.defs : e.def = d
          BY <3>1, <4>0, <4>2 DEF HasEntry
        <5> QED
          BY <4>0, <4>2, <5>1 DEF HasEntry
      <4> QED
        BY <4>1, <4>2
    <3>3. \A c \in DOMAIN new.blocks : Def(new.blocks[c].req)' = Def(old.blocks[c].req)
      BY SaidKept
    <3> QED
      BY <3>1, <3>2, <3>3
  <2>5. Intact(new, b)'
    BY <2>1, <2>2, <2>4 DEF Intact, HasEntry
  <2> QED
    BY <2>1, <2>2, <2>3, <2>5
<1> QED
  BY <1>1, <1>2, <1>5 DEF ItemOk, BlocksOk

\* A new block joins the entry of its definition, or opens one. It opens none that has been
\* closed, nor in an item that was aborted, unless its request is repeated.
LEMMA ItemOkAdded ==
  ASSUME ClientType, NEW old \in ItemSet, NEW new, NEW r \in DOMAIN sent, Extends(new, old, r), ItemOk(old), SentKept, ClosedInv,
         log.defs \subseteq log.defs',
         \A b \in DOMAIN old.blocks : old.blocks[b].req \in DOMAIN sent,
         Def(r) \in {0} \cup log.defs' \/ \A b \in DOMAIN old.blocks : old.blocks[b].req < r,
         old.status = "STOPPED" => Def(r) \in {0} \cup log.defs' \/ HasEntry(old, Def(r))
  PROVE  ItemOk(new)'
<1>d. PICK d : d = Def(r)
  OBVIOUS
<1>n. PICK n : n = Len(old.blocks) + 1
  OBVIOUS
<1>s. PICK scan : scan = new.blocks[n].scan
  OBVIOUS
<1>e. PICK entry : entry = [def |-> d, scan |-> scan]
  OBVIOUS
<1>f. entry.def = d /\ entry.scan = scan
  BY <1>e
<1>1. /\ new.next = old.next /\ new.status = old.status
      /\ n \notin DOMAIN old.blocks /\ DOMAIN new.blocks = DOMAIN old.blocks \cup {n}
      /\ \A b \in DOMAIN old.blocks : new.blocks[b] = old.blocks[b]
      /\ new.blocks[n].req = r /\ new.blocks[n].is_scan = IsScan(r)
      /\ \/ new.defs = old.defs /\ (d = 0 \/ \E e \in old.defs : e.def = d /\ e.scan = scan)
         \/ new.defs = old.defs \cup {entry} /\ d # 0 /\ \A e \in old.defs : e.def # d
  BY <1>d, <1>e, <1>n, <1>s DEF Extends, Entered
<1>2. n \in Nat /\ \A b \in DOMAIN old.blocks : b \in Nat /\ b < n
  BY <1>n DEF ItemSet
<1>3. Def(r)' = d /\ IsScan(r)' = IsScan(r) /\ Closes(r)' = Closes(r)
  BY <1>d, SaidKept
<1>4. \A b \in DOMAIN old.blocks : /\ Def(old.blocks[b].req)' = Def(old.blocks[b].req)
                                   /\ IsScan(old.blocks[b].req)' = IsScan(old.blocks[b].req)
                                   /\ Closes(old.blocks[b].req)' = Closes(old.blocks[b].req)
  BY SaidKept
<1>5. EntriesOk(new)'
  BY <1>1, <1>f DEF ItemOk, EntriesOk
<1>6. StoppedOk(new)'
  BY <1>1, <1>d, <1>f DEF ItemOk, StoppedOk, HasEntry
<1>7. d # 0 /\ d \notin log.defs' => \A b \in DOMAIN old.blocks : old.blocks[b].req < r
  BY <1>d
<1>8. \A x : ClosedIn(old, x) => ClosedIn(new, x)'
  BY <1>1, <1>4 DEF ClosedIn
<1>9. ASSUME d # 0, d \notin log.defs' PROVE ~ClosedIn(old, d)
  BY <1>7, <1>9, <1>d DEF ClosedIn, ClosedInv
<1>10. ASSUME NEW b \in DOMAIN old.blocks PROVE Intact(new, b)'
  <2>x. PICK x \in DOMAIN sent : x = old.blocks[b].req
    OBVIOUS
  <2>c. PICK c : c = Def(x)
    OBVIOUS
  <2>1. Intact(old, b) /\ new.blocks[b] = old.blocks[b] /\ Def(x)' = c
    BY <1>1, <2>x, <2>c, SaidKept DEF ItemOk, BlocksOk
  <2>2. ASSUME c # 0, c \notin log.defs'
        PROVE  /\ \A e \in new.defs : e.def = c => e.scan = old.blocks[b].scan
               /\ HasEntry(new, c) \/ ClosedIn(new, c)'
               /\ \A k \in DOMAIN new.blocks : k < b /\ Def(new.blocks[k].req)' = c => new.blocks[k].req < x
    <3>1. /\ \A e \in old.defs : e.def = c => e.scan = old.blocks[b].scan
          /\ HasEntry(old, c) \/ ClosedIn(old, c)
          /\ \A k \in DOMAIN old.blocks : k < b /\ Def(old.blocks[k].req) = c => old.blocks[k].req < x
      BY <2>1, <2>2, <2>x, <2>c DEF Intact
    <3>2. \A e \in new.defs : e.def = c => e.scan = old.blocks[b].scan
      <4>1. CASE new.defs = old.defs
        BY <3>1, <4>1
      <4>2. CASE d = c
        BY <1>1, <1>9, <1>f, <2>2, <3>1, <4>2 DEF HasEntry
      <4>3. CASE d # c
        BY <1>1, <1>f, <3>1, <4>3
      <4> QED
        BY <4>2, <4>3
    <3>3. HasEntry(new, c) \/ ClosedIn(new, c)'
      BY <1>1, <1>8, <3>1 DEF HasEntry
    <3>4. \A k \in DOMAIN new.blocks : k < b => k \in DOMAIN old.blocks
      BY <1>1, <1>2
    <3> QED
      BY <1>1, <1>4, <3>1, <3>2, <3>3, <3>4
  <2> QED
    BY <2>1, <2>2, <2>x DEF Intact, HasEntry
<1>11. Intact(new, n)'
  <2>1. ASSUME d # 0, d \notin log.defs'
        PROVE  /\ \A e \in new.defs : e.def = d => e.scan = scan
               /\ HasEntry(new, d)
               /\ \A k \in DOMAIN new.blocks : k < n /\ Def(new.blocks[k].req)' = d => new.blocks[k].req < r
    <3>1. HasEntry(new, d) /\ \A e \in new.defs : e.def = d => e.scan = scan
      <4>1. CASE new.defs = old.defs
        <5>1. PICK e \in new.defs : e.def = d /\ e.scan = scan
          BY <1>1, <1>f, <2>1, <4>1
        <5>2. \A f \in new.defs : f.def = e.def => e = f
          BY <4>1, <5>1 DEF ItemOk, EntriesOk
        <5> QED
          BY <5>1, <5>2 DEF HasEntry
      <4>2. CASE new.defs = old.defs \cup {entry} /\ \A e \in old.defs : e.def # d
        BY <1>f, <4>2 DEF HasEntry
      <4> QED
        BY <1>1, <4>1, <4>2
    <3>2. \A k \in DOMAIN new.blocks : k < n => k \in DOMAIN old.blocks
      BY <1>1, <1>2
    <3> QED
      BY <1>1, <1>7, <2>1, <3>1, <3>2
  <2> QED
    BY <1>1, <1>3, <1>s, <2>1 DEF Intact, HasEntry
<1>12. BlocksOk(new)'
  <2> SUFFICES ASSUME NEW b \in DOMAIN new.blocks PROVE new.blocks[b].is_scan = IsScan(new.blocks[b].req)' /\ Intact(new, b)'
    BY DEF BlocksOk
  <2>1. CASE b = n
    BY <1>1, <1>3, <1>11, <2>1
  <2>2. CASE b \in DOMAIN old.blocks
    BY <1>1, <1>4, <1>10, <2>2 DEF ItemOk, BlocksOk
  <2> QED
    BY <1>1, <2>1, <2>2
<1> QED
  BY <1>5, <1>6, <1>12 DEF ItemOk

DefsInv == \A i \in DOMAIN items : ItemOk(items[i])
\* The item that was found for a request has its definition open, unless it was aborted or
\* repeated.
LookedInv ==
  inserter.pc = "insert" /\ inserter.item # 0 /\ Def(inserter.req) \notin {0} \cup log.defs
    => HasEntry(items[inserter.item], Def(inserter.req))

LEMMA BlockRequests ==
  ASSUME Types, NEW i \in DOMAIN items
  PROVE  /\ i \in 1..Len(items) /\ items[i] \in ItemSet /\ items[i].active < items[i].next
         /\ \A b \in DOMAIN items[i].blocks : items[i].blocks[b].req \in DOMAIN sent
  BY DEF Types, ItemType, AnswerType, ClientType, Accepted

LEMMA ItemOkSame ==
  ASSUME Types, NEW i \in DOMAIN items, items'[i] = items[i], ItemOk(items[i]), SentKept, log.defs \subseteq log.defs'
  PROVE  ItemOk(items[i])'
<1>1. PICK item : item = items[i]
  OBVIOUS
<1>2. item \in ItemSet /\ item.next \in Nat /\ \A b \in DOMAIN item.blocks : item.blocks[b].req \in DOMAIN sent
  BY <1>1, BlockRequests DEF ItemSet
<1>3. ItemOk(item)
  BY <1>1
<1>4. ItemOk(item)'
  BY <1>2, <1>3, ItemOkKept
<1> QED
  BY <1>1, <1>4 DEF ItemOk, EntriesOk, BlocksOk, StoppedOk, Intact, HasEntry, ClosedIn

LEMMA DefsQuiet == ASSUME Types, Remembers, DefsInv, Quiet PROVE DefsInv'
  BY ItemOkSame DEF DefsInv, Quiet, Remembers

LEMMA DefsPuts ==
  ASSUME Types, OrderInv, ClosedInv, DefsInv, LookedInv, NEW r, Puts(r), First(r) \/ Repeats(r)
  PROVE  DefsInv'
<1>1. /\ SentKept /\ log.defs \subseteq log.defs' /\ r \in DOMAIN sent /\ ClientType /\ sent[r].group \in Nat
  BY SentType DEF Puts, SentKept, client, Types
<1>2. \/ Arrives(r)
      \/ \E j : Joins(j, r) /\ (items[j].status = "STOPPED" => Def(r) \in {0} \cup log.defs' \/ HasEntry(items[j], Def(r)))
  <2>1. CASE First(r)
    BY <1>1, <2>1 DEF First, LookedInv
  <2>2. CASE Repeats(r)
    BY <2>2 DEF Puts, Repeats
  <2> QED
    BY <2>1, <2>2
<1>3. Def(r) \in {0} \cup log.defs' \/ \A x : IsBlock(x) => x < r
  BY DEF First, Repeats, OrderInv, Passed
<1> SUFFICES ASSUME NEW i \in DOMAIN items' PROVE ItemOk(items[i])'
  BY DEF DefsInv
<1>4. CASE i \in DOMAIN items /\ items'[i] = items[i]
  BY <1>1, <1>4, ItemOkSame DEF DefsInv
<1>5. ASSUME Joins(i, r), items[i].status = "STOPPED" => Def(r) \in {0} \cup log.defs' \/ HasEntry(items[i], Def(r))
      PROVE  ItemOk(items[i])'
  <2>1. PICK old : old = items[i]
    OBVIOUS
  <2>2. PICK new : new = items'[i]
    OBVIOUS
  <2>3. i \in DOMAIN items /\ Extends(new, old, r)
    BY <1>5, <2>1, <2>2 DEF Joins, Adds
  <2>4. /\ old \in ItemSet /\ ItemOk(old) /\ \A b \in DOMAIN old.blocks : old.blocks[b].req \in DOMAIN sent
    BY <2>1, <2>3, BlockRequests DEF DefsInv
  <2>5. Def(r) \in {0} \cup log.defs' \/ \A b \in DOMAIN old.blocks : old.blocks[b].req < r
    BY <1>3, <2>1, <2>3 DEF IsBlock
  <2>6. ItemOk(new)'
    BY <1>1, <1>5, <2>1, <2>3, <2>4, <2>5, ItemOkAdded
  <2> QED
    BY <2>2, <2>6 DEF ItemOk, EntriesOk, BlocksOk, StoppedOk, Intact, HasEntry, ClosedIn
<1>6. ASSUME Makes(i, r) PROVE ItemOk(items[i])'
  <2>1. PICK old : old = EmptyItem(sent[r].group)
    OBVIOUS
  <2>2. PICK new : new = items'[i]
    OBVIOUS
  <2>3. Extends(new, old, r) /\ old \in ItemSet
    BY <1>1, <1>6, <2>1, <2>2, EmptyItemType DEF Makes
  <2>4. DOMAIN old.blocks = {} /\ old.defs = {} /\ old.status = "PENDING"
    BY <2>1 DEF EmptyItem
  <2>5. ItemOk(old)
    BY <2>4 DEF ItemOk, EntriesOk, BlocksOk, StoppedOk
  <2>6. ItemOk(new)'
    BY <1>1, <2>3, <2>4, <2>5, ItemOkAdded
  <2> QED
    BY <2>2, <2>6 DEF ItemOk, EntriesOk, BlocksOk, StoppedOk, Intact, HasEntry, ClosedIn
<1>7. CASE \E j : Joins(j, r) /\ (items[j].status = "STOPPED" => Def(r) \in {0} \cup log.defs' \/ HasEntry(items[j], Def(r)))
  <2>1. PICK j : Joins(j, r) /\ (items[j].status = "STOPPED" => Def(r) \in {0} \cup log.defs' \/ HasEntry(items[j], Def(r)))
    BY <1>7
  <2>2. CASE i # j
    BY <1>4, <2>1, <2>2 DEF Joins, Adds, Others
  <2>3. CASE i = j
    BY <1>5, <2>1, <2>3
  <2> QED
    BY <2>2, <2>3
<1>8. CASE Arrives(r)
  <2>1. PICK n : Makes(n, r)
    BY <1>8 DEF Arrives
  <2>2. CASE i # n
    BY <1>4, <2>1, <2>2 DEF Makes, Others
  <2>3. CASE i = n
    BY <1>6, <2>1, <2>3
  <2> QED
    BY <2>2, <2>3
<1> QED
  BY <1>2, <1>7, <1>8

\* A worker takes entries away from its item alone, and only those that a block closes.
LEMMA WorkerDefs ==
  ASSUME Types, DefsInv, NEW q \in Queues, Worker(q) \/ Restart(q), NEW i, i = Mine(q)
  PROVE  \/ NoItem
         \/ /\ i \in DOMAIN items /\ Works(i) /\ items'[i].defs \subseteq items[i].defs
            /\ \A e \in items[i].defs \ items'[i].defs : ClosedIn(items[i], e.def)
            /\ items'[i].status = "STOPPED" => items[i].status = "STOPPED" \/ \A e \in items[i].defs : e.def \in log.defs'
<1>1. WorkerMoves(q)
  BY WorkerEffect
<1>2. CASE Pops(q) \/ Takes(q) \/ Reads(q) \/ Turns(q)
  BY <1>2 DEF Pops, Takes, Reads, Turns
<1>3. CASE Pulls(q) \/ Finishes(q) \/ Begins(q) \/ Leaves(q) \/ Aborts(q)
  BY <1>3 DEF Pulls, Finishes, Begins, Leaves, Aborts, Works
<1>4. CASE Ends(q)
  <2>r. PICK r : r = Active(q).req
    OBVIOUS
  <2>b. PICK b : b = items[i].active
    OBVIOUS
  <2>1. /\ worker[q].pc = "last" /\ Works(i) /\ i \in DOMAIN items
        /\ items'[i].status = "STOPPED" => items[i].status = "STOPPED"
        /\ items'[i].defs = IF Kind(r) = "close_scan_def" THEN items[i].defs \ ScansOf(items[i].defs, Def(r)) ELSE items[i].defs
    BY <1>4, <2>r DEF Ends, At, Works, ActiveRequest, Kind, Def
  <2>2. b \in DOMAIN items[i].blocks /\ items[i].blocks[b].req = r /\ b < items[i].next
    BY <2>1, <2>r, <2>b, MineType, ActiveType DEF Active, Item
  <2>3. ASSUME NEW e \in items[i].defs \ items'[i].defs PROVE ClosedIn(items[i], e.def)
    <3>1. Kind(r) = "close_scan_def" /\ e.def = Def(r)
      BY <2>1, <2>3 DEF ScansOf
    <3>2. e.def # 0
      BY <2>1, <2>3 DEF DefsInv, ItemOk, EntriesOk
    <3> QED
      BY <2>2, <3>1, <3>2 DEF ClosedIn, Closes
  <2> QED
    BY <2>1, <2>3
<1> QED
  BY <1>1, <1>2, <1>3, <1>4 DEF WorkerMoves

LEMMA DefsWorker == ASSUME Types, Remembers, DefsInv, NEW q \in Queues, Worker(q) \/ Restart(q) PROVE DefsInv'
<1>1. SentKept /\ log.defs \subseteq log.defs'
  BY WorkerFrame DEF Remembers
<1>m. PICK m : m = Mine(q)
  OBVIOUS
<1> SUFFICES ASSUME NEW i \in DOMAIN items' PROVE ItemOk(items[i])'
  BY DEF DefsInv
<1>2. CASE i \in DOMAIN items /\ items'[i] = items[i]
  BY <1>1, <1>2, ItemOkSame DEF DefsInv
<1>3. CASE NoItem
  BY <1>2, <1>3 DEF NoItem
<1>4. CASE ~NoItem
  <2>1. /\ m \in DOMAIN items /\ Works(m) /\ items'[m].defs \subseteq items[m].defs
        /\ \A e \in items[m].defs \ items'[m].defs : ClosedIn(items[m], e.def)
        /\ items'[m].status = "STOPPED" => items[m].status = "STOPPED" \/ \A e \in items[m].defs : e.def \in log.defs'
    BY <1>m, <1>4, WorkerDefs
  <2>2. CASE i # m
    BY <1>2, <2>1, <2>2 DEF Works, Others
  <2>3. CASE i = m
    <3>1. PICK old : old = items[i]
      OBVIOUS
    <3>2. PICK new : new = items'[i]
      OBVIOUS
    <3>3. old \in ItemSet /\ ItemOk(old) /\ \A b \in DOMAIN old.blocks : old.blocks[b].req \in DOMAIN sent
      BY <2>1, <2>3, <3>1, BlockRequests DEF DefsInv
    <3>4. /\ new \in ItemSet /\ DOMAIN new.blocks = DOMAIN old.blocks /\ new.next >= old.next
          /\ \A b \in DOMAIN old.blocks :
               /\ new.blocks[b].req = old.blocks[b].req /\ new.blocks[b].is_scan = old.blocks[b].is_scan
               /\ new.blocks[b].scan = old.blocks[b].scan
      BY <2>1, <2>3, <3>1, <3>2 DEF Works
    <3>5. /\ new.defs \subseteq old.defs /\ \A e \in old.defs \ new.defs : ClosedIn(old, e.def)
          /\ new.status = "STOPPED" => old.status = "STOPPED" \/ \A e \in new.defs : e.def \in log.defs'
      BY <2>1, <2>3, <3>1, <3>2
    <3>6. ItemOk(new)'
      BY <1>1, <3>3, <3>4, <3>5, ItemOkKept
    <3> QED
      BY <3>2, <3>6 DEF ItemOk, EntriesOk, BlocksOk, StoppedOk, Intact, HasEntry, ClosedIn
  <2> QED
    BY <2>2, <2>3
<1> QED
  BY <1>3, <1>4

\* An entry is found as long as nothing that comes before the request can close it.
LEMMA EntryStays ==
  ASSUME Types, Remembers, OrderInv, ClosedInv, DefsInv, NEW q \in Queues, Worker(q) \/ Restart(q), NEW i \in DOMAIN items,
         NEW r \in DOMAIN sent, Def(r) # 0, HasEntry(items[i], Def(r)), \A x : IsBlock(x) => x < r
  PROVE  HasEntry(items'[i], Def(r))
<1>m. PICK m : m = Mine(q)
  OBVIOUS
<1>1. CASE items'[i] = items[i]
  BY <1>1
<1>2. CASE items'[i] # items[i]
  <2>1. /\ Works(m) /\ \A e \in items[m].defs \ items'[m].defs : ClosedIn(items[m], e.def)
    BY <1>m, <1>2, WorkerDefs DEF NoItem
  <2>2. i = m
    BY <1>2, <2>1 DEF Works, Others
  <2>3. ~ClosedIn(items[i], Def(r))
    <3>1. SUFFICES ASSUME ClosedIn(items[i], Def(r)) PROVE FALSE
      OBVIOUS
    <3>2. PICK b \in DOMAIN items[i].blocks : Closes(items[i].blocks[b].req) /\ Def(items[i].blocks[b].req) = Def(r)
      BY <3>1 DEF ClosedIn
    <3>3. items[i].blocks[b].req < r /\ items[i].blocks[b].req \in DOMAIN sent
      BY BlockRequests DEF IsBlock
    <3> QED
      BY <3>2, <3>3 DEF ClosedInv
  <2> QED
    BY <2>1, <2>2, <2>3 DEF HasEntry
<1> QED
  BY <1>1, <1>2

LEMMA LookedNext ==
  ASSUME Types, Remembers, OrderInv, ClosedInv, DefsInv, LookedInv, Next
  PROVE  LookedInv'
<1>r. PICK r : r = inserter.req
  OBVIOUS
<1>i. PICK i : i = inserter.item
  OBVIOUS
<1>1. ASSUME inserter.pc # "idle" PROVE r \in DOMAIN sent /\ Def(r)' = Def(r)
  BY <1>1, <1>r, SaidKept, SMTT(30) DEF Types, InsertType, Accepted, AnswerType, ClientType, Remembers
<1>2. ASSUME inserter.pc = "insert", i # 0 PROVE i \in DOMAIN items
  BY <1>2, <1>i, <1>r DEF Types, PlaceType, InserterPlace, Home, IsItem, ItemType
<1>3. ASSUME inserter' = inserter, log.defs \subseteq log.defs',
             inserter.pc = "insert" /\ i # 0 /\ Def(r) # 0 /\ HasEntry(items[i], Def(r)) => HasEntry(items'[i], Def(r))
      PROVE  LookedInv'
  <2> SUFFICES ASSUME inserter.pc = "insert", i # 0, Def(r)' \notin {0} \cup log.defs' PROVE HasEntry(items'[i], Def(r)')
    BY <1>3, <1>r, <1>i DEF LookedInv, HasEntry
  <2> QED
    BY <1>1, <1>3, <1>r, <1>i DEF LookedInv
<1>4. CASE Quiet /\ inserter' = inserter
  BY <1>3, <1>4 DEF Quiet
<1>5. CASE Receive \/ Look \/ LookFails \/ AssembleFails
  <2>1. /\ UNCHANGED <<items, sent>> /\ log.defs' = log.defs
        /\ inserter.pc' = "insert" =>
             /\ inserter.req' = inserter.req
             /\ inserter.item' # 0 => inserter.item' \in Members(inserter.req, inserter.seen)
    BY <1>5, LookingEffect DEF client
  <2>2. ASSUME inserter.pc' = "insert", inserter.item' # 0, Def(r) # 0 PROVE HasEntry(items[inserter.item'], Def(r))
    BY <1>r, <2>1, <2>2 DEF Members, ScansOf, HasEntry, Def
  <2> SUFFICES ASSUME inserter.pc' = "insert", inserter.item' # 0, Def(inserter.req)' \notin {0} \cup log.defs'
               PROVE  HasEntry(items[inserter.item], Def(inserter.req))'
    BY DEF LookedInv
  <2>3. inserter.req' = r /\ Def(r)' = Def(r)
    BY <1>r, <2>1 DEF Def
  <2> QED
    BY <2>1, <2>2, <2>3 DEF HasEntry, Def
<1>6. ASSUME NEW s, Puts(s), First(s) \/ Repeats(s) PROVE LookedInv'
  <2>1. CASE First(s)
    BY <2>1 DEF First, LookedInv
  <2>2. CASE Repeats(s)
    <3>1. ASSUME i \in DOMAIN items PROVE items[i].defs \subseteq items'[i].defs
      <4>1. CASE \E j : Joins(j, s)
        <5>1. PICK j : Joins(j, s)
          BY <4>1
        <5>2. CASE i = j
          BY <5>1, <5>2 DEF Joins, Adds, Extends, Entered
        <5>3. CASE i # j
          BY <3>1, <5>1, <5>3 DEF Joins, Adds, Others
        <5> QED
          BY <5>2, <5>3
      <4>2. CASE Arrives(s)
        BY <3>1, <4>2 DEF Arrives, Makes, Others
      <4> QED
        BY <1>6, <4>1, <4>2 DEF Puts
    <3> QED
      BY <1>2, <1>3, <1>6, <2>2, <3>1 DEF Puts, Repeats, HasEntry
  <2> QED
    BY <1>6, <2>1, <2>2
<1>7. ASSUME NEW q \in Queues, Worker(q) \/ Restart(q) PROVE LookedInv'
  <2>1. inserter' = inserter /\ log.defs \subseteq log.defs'
    BY <1>7, WorkerFrame
  <2>2. inserter.pc = "insert" => \A x : IsBlock(x) => x < r
    BY <1>r DEF OrderInv, Passed
  <2> QED
    BY <1>1, <1>2, <1>3, <1>7, <2>1, <2>2, EntryStays
<1>8. CASE Client \/ HandleRequest \/ Waiting \/ \E k \in DOMAIN restarts : RestartFound(k) \/ RestartTimesOut(k)
  <2>1. inserter' = inserter /\ items' = items /\ log.defs' = log.defs
    <3>1. CASE HandleRequest
      BY <3>1 DEF HandleRequest, Types, LogType
    <3> QED
      BY <1>8, <3>1, ClientEffect DEF Waiting, vars, RestartFound, RestartTimesOut
  <2> QED
    BY <1>3, <2>1
<1>9. CASE Insert
  <2>1. inserter.pc' = "idle"
    BY <1>9 DEF Insert, Types, InsertType
  <2> QED
    BY <2>1 DEF LookedInv
<1>10. CASE \E k \in DOMAIN restarts : Reinsert(k)
  <2>1. inserter' = inserter
    BY <1>10 DEF Reinsert
  <2> QED
    BY <1>4, <1>6, <1>7, <2>1, FourKinds
<1> QED
  BY <1>5, <1>7, <1>8, <1>9, <1>10 DEF Next, Server

-----------------------------------------------------------------------------
(* The scan number is greater than those of all scans that are over.        *)

\* Only its own steps move a worker, and its item only gets further blocks from others.
Untouched(q) ==
  LET i == Mine(q) IN
  /\ worker'[q] = worker[q] /\ items'[i].active = items[i].active /\ items'[i].next = items[i].next
  /\ items[i].defs \subseteq items'[i].defs
  /\ \A b \in DOMAIN items[i].blocks : b \in DOMAIN items'[i].blocks /\ items'[i].blocks[b] = items[i].blocks[b]
LEMMA OnlyWorkersWork ==
  ASSUME Types, Next, NEW q \in Queues, ~(Worker(q) \/ Restart(q))
  PROVE  worker'[q] = worker[q] /\ (worker[q].pc # "take" => Untouched(q))
<1>i. PICK i : i = Mine(q)
  OBVIOUS
<1>1. worker[q].pc # "take" => i \in DOMAIN items /\ Home(i, q)
  BY <1>i, MineType DEF Types, PlaceType, WorkerPlace
<1>2. CASE Quiet
  BY <1>2 DEF Quiet, Untouched
<1>3. ASSUME NEW r, Puts(r) PROVE worker'[q] = worker[q] /\ (worker[q].pc # "take" => Untouched(q))
  <2>1. worker' = worker
    BY <1>3 DEF Puts
  <2>2. ASSUME worker[q].pc # "take"
        PROVE  /\ items'[i].active = items[i].active /\ items'[i].next = items[i].next
               /\ items[i].defs \subseteq items'[i].defs
               /\ \A b \in DOMAIN items[i].blocks : b \in DOMAIN items'[i].blocks /\ items'[i].blocks[b] = items[i].blocks[b]
    <3>1. CASE \E j : Joins(j, r)
      <4>1. PICK j : Joins(j, r)
        BY <3>1
      <4>2. CASE i = j
        BY <4>1, <4>2 DEF Joins, Adds, Extends, Entered
      <4>3. CASE i # j
        BY <1>1, <2>2, <4>1, <4>3 DEF Joins, Adds, Others
      <4> QED
        BY <4>2, <4>3
    <3>2. CASE Arrives(r)
      BY <1>1, <2>2, <3>2 DEF Arrives, Makes, Others
    <3> QED
      BY <1>3, <3>1, <3>2 DEF Puts
  <2> QED
    BY <1>i, <2>1, <2>2 DEF Untouched
<1>4. ASSUME NEW w \in Queues, Worker(w) \/ Restart(w) PROVE worker'[q] = worker[q] /\ (worker[q].pc # "take" => Untouched(q))
  <2>j. PICK j : j = Mine(w)
    OBVIOUS
  <2>1. w # q /\ WorkerMoves(w)
    BY <1>4, WorkerEffect
  <2>2. /\ worker'[q] = worker[q]
        /\ NoItem \/ (Works(j) /\ worker[w].pc # "take")
    BY <2>1, <2>j DEF WorkerMoves, Pops, Takes, Pulls, Finishes, Begins, Ends, Leaves, Reads, Turns, Aborts, Goes, At
  <2>3. CASE NoItem
    BY <2>2, <2>3 DEF NoItem, Untouched
  <2>4. CASE Works(j) /\ worker[w].pc # "take" /\ worker[q].pc # "take"
    <3>1. Home(j, w)
      BY <2>4, <2>j DEF Types, PlaceType, WorkerPlace
    <3>2. i # j
      BY <1>1, <2>1, <2>4, <3>1, HomeOnce
    <3>3. items'[i] = items[i]
      BY <1>1, <2>4, <3>2 DEF Works, Others
    <3> QED
      BY <1>i, <2>2, <3>3 DEF Untouched
  <2> QED
    BY <2>2, <2>3, <2>4
<1> QED
  BY <1>2, <1>3, <1>4, FourKinds

\* The block that a worker has at "first" is the last one that it pulled.
FirstInv == \A q \in Queues : At(q, "first") => items[Mine(q)].next = items[Mine(q)].active + 1
LEMMA FirstNext == ASSUME Types, FirstInv, Next PROVE FirstInv'
<1> SUFFICES ASSUME NEW q \in Queues, worker'[q].pc = "first"
             PROVE  items'[Mine(q)'].next = items'[Mine(q)'].active + 1
  BY DEF FirstInv, At
<1>i. PICK i : i = Mine(q)
  OBVIOUS
<1>1. CASE Worker(q) \/ Restart(q)
  <2>1. Pulls(q)
    BY <1>1, WorkerEffect DEF WorkerMoves, Pops, Takes, Pulls, Finishes, Begins, Ends, Leaves, Reads, Turns, Aborts, Goes
  <2>2. i \in DOMAIN items /\ items[i].next \in Nat /\ Mine(q)' = i
    BY <1>i, <2>1, MineType DEF Pulls, At, Keeps, Mine, ItemSet
  <2> QED
    BY <1>i, <2>1, <2>2 DEF Pulls
<1>2. CASE ~(Worker(q) \/ Restart(q))
  <2>1. worker'[q] = worker[q] /\ Untouched(q) /\ At(q, "first")
    BY <1>2, OnlyWorkersWork DEF At
  <2>2. Mine(q)' = i
    BY <1>i, <2>1 DEF Mine
  <2> QED
    BY <1>i, <2>1, <2>2 DEF Untouched, FirstInv
<1> QED
  BY <1>1, <1>2

\* A scan that is opened has its number for itself once the number is written. Until then
\* its worker is at the scan, has its definition open, or is about to count the definition.
ActiveBlock(q) == items[Mine(q)].blocks[items[Mine(q)].active]
AtScan(q) ==
  worker[q].pc \in {"last", "count", "write"} /\ ActiveBlock(q).is_scan /\ Def(ActiveBlock(q).req) = 0
HasOpen(q, d, scan) == worker[q].pc \notin {"take", "choose"} /\ [def |-> d, scan |-> scan] \in items[Mine(q)].defs
AtClose(q, d) ==
  worker[q].pc \in {"count", "write"} /\ Def(ActiveBlock(q).req) = d /\ Kind(ActiveBlock(q).req) = "close_scan_def"
Current(q, d, scan) == (d = 0 /\ AtScan(q)) \/ (d # 0 /\ (HasOpen(q, d, scan) \/ AtClose(q, d)))
Settled(o) == o.beside \/ Def(o.req) \in log.defs \/ Current(o.queue, Def(o.req), o.scan)
CountedInv ==
  \A k \in DOMAIN opened : LET o == opened[k] IN
    o.req \in DOMAIN sent /\ (~log.raced => o.number < scan_number \/ (o.number = scan_number /\ Settled(o)))

\* The active block is the same as long as the worker does not change it.
LEMMA ActiveSame ==
  ASSUME Types, SentKept, NEW q \in Queues, worker[q].pc \in {"first", "last", "count", "write"}, NEW i, i = Mine(q),
         worker'[q].item = worker[q].item, items'[i].active = items[i].active,
         LET b == items[i].active IN items'[i].blocks[b].req = items[i].blocks[b].req
                                  /\ items'[i].blocks[b].is_scan = items[i].blocks[b].is_scan
  PROVE  /\ ActiveBlock(q)'.is_scan = ActiveBlock(q).is_scan
         /\ Def(ActiveBlock(q).req)' = Def(ActiveBlock(q).req) /\ Kind(ActiveBlock(q).req)' = Kind(ActiveBlock(q).req)
<1>1. Mine(q)' = i
  BY DEF Mine
<1>r. PICK r : r = items[i].blocks[items[i].active].req
  OBVIOUS
<1>2. r \in DOMAIN sent
  BY <1>r, ActiveType DEF Active, Item
<1>3. Def(r)' = Def(r) /\ Kind(r)' = Kind(r)
  BY <1>2, SaidKept
<1> QED
  BY <1>1, <1>r, <1>3 DEF ActiveBlock, Def, Kind

LEMMA CurrentUntouched ==
  ASSUME Types, SentKept, NEW q \in Queues, Untouched(q), NEW d, NEW scan, Current(q, d, scan)
  PROVE  Current(q, d, scan)'
<1>i. PICK i : i = Mine(q)
  OBVIOUS
<1>1. worker'[q] = worker[q] /\ Mine(q)' = i
  BY <1>i DEF Untouched, Mine
<1>2. CASE HasOpen(q, d, scan) /\ d # 0
  BY <1>i, <1>1, <1>2 DEF HasOpen, Untouched, Current
<1>3. CASE ~(HasOpen(q, d, scan) /\ d # 0)
  <2>1. worker[q].pc \in {"last", "count", "write"}
    BY <1>3 DEF Current, AtScan, AtClose
  <2>2. items[i].active \in DOMAIN items[i].blocks
    BY <1>i, <2>1, ActiveType
  <2>3. /\ ActiveBlock(q)'.is_scan = ActiveBlock(q).is_scan
        /\ Def(ActiveBlock(q).req)' = Def(ActiveBlock(q).req) /\ Kind(ActiveBlock(q).req)' = Kind(ActiveBlock(q).req)
    BY <1>i, <1>1, <2>1, <2>2, ActiveSame DEF Untouched
  <2> QED
    BY <1>1, <1>3, <2>3 DEF Current, AtScan, AtClose
<1> QED
  BY <1>2, <1>3

\* Until it writes the number a worker keeps what is current, unless it aborts the definition.
LEMMA CurrentKept ==
  ASSUME Types, Remembers, DefsInv, NEW q \in Queues, Worker(q) \/ Restart(q), ~At(q, "write"),
         NEW d, NEW scan, Current(q, d, scan)
  PROVE  Current(q, d, scan)' \/ d \in log.defs'
<1>i. PICK i : i = Mine(q)
  OBVIOUS
<1>e. PICK entry : entry = [def |-> d, scan |-> scan]
  OBVIOUS
<1>f. entry.def = d
  BY <1>e
<1>1. WorkerMoves(q) /\ SentKept /\ log.defs \subseteq log.defs'
  BY WorkerEffect, WorkerFrame DEF Remembers
<1>2. worker[q].pc \in {"first", "last", "count", "write", "next", "again", "dead"} /\ ~At(q, "take") /\ ~At(q, "choose")
  BY DEF Current, AtScan, HasOpen, AtClose, At, Types, PlaceType, WorkerPlace, Places
<1>3. i \in DOMAIN items /\ Keeps(q) /\ Mine(q)' = i
  BY <1>i, <1>1, <1>2, MineType DEF WorkerMoves, Pops, Takes, Pulls, Finishes, Begins, Ends, Leaves, Reads, Turns, Aborts,
     At, Keeps, Mine
<1>4. CASE HasOpen(q, d, scan) /\ d # 0
  <2>1. entry \in items[i].defs
    BY <1>e, <1>i, <1>4 DEF HasOpen
  <2>2. CASE entry \in items'[i].defs /\ worker'[q].pc \notin {"take", "choose"}
    BY <1>3, <1>4, <1>e, <2>2 DEF Current, HasOpen
  <2>3. CASE Pulls(q) \/ Begins(q) \/ Aborts(q) \/ Reads(q) \/ Turns(q)
    BY <1>i, <2>1, <2>2, <2>3 DEF Pulls, Begins, Aborts, Reads, Turns, Goes, NoItem
  <2>4. CASE Finishes(q)
    BY <1>i, <2>1, <2>4 DEF Finishes
  <2>5. CASE Leaves(q)
    <3>1. CASE Goes(q, "again")
      BY <1>i, <2>1, <2>2, <2>5, <3>1 DEF Leaves, Goes
    <3>2. CASE items[i].status = "STOPPED"
      BY <1>1, <1>3, <1>f, <2>1, <3>2 DEF DefsInv, ItemOk, StoppedOk
    <3> QED
      BY <1>i, <2>5, <3>1, <3>2 DEF Leaves
  <2>6. CASE Ends(q)
    <3>r. PICK r : r = ActiveBlock(q).req
      OBVIOUS
    <3>1. /\ Works(i) /\ Same(i) /\ worker[q].pc = "last"
          /\ items'[i].defs = IF Kind(r) = "close_scan_def" THEN items[i].defs \ ScansOf(items[i].defs, Def(r)) ELSE items[i].defs
          /\ Goes(q, "count") \/ (Kind(r) = "close_scan_group" /\ items'[i].defs = {})
      BY <1>i, <2>6, <3>r DEF Ends, At, ActiveRequest, Active, Item, ActiveBlock, Kind, Def
    <3>2. CASE entry \in items'[i].defs
      BY <2>2, <3>1, <3>2 DEF Goes
    <3>3. CASE entry \notin items'[i].defs
      <4>1. Kind(r) = "close_scan_def" /\ Def(r) = d
        BY <1>f, <2>1, <3>1, <3>3 DEF ScansOf
      <4>2. worker'[q].pc = "count"
        BY <3>1, <4>1 DEF Goes
      <4>3. Def(ActiveBlock(q).req)' = d /\ Kind(ActiveBlock(q).req)' = "close_scan_def"
        BY <1>i, <1>1, <1>3, <3>1, <3>r, <4>1, ActiveSame DEF Same, Keeps
      <4> QED
        BY <1>4, <4>2, <4>3 DEF Current, AtClose
    <3> QED
      BY <3>2, <3>3
  <2> QED
    BY <1>1, <1>2, <2>3, <2>4, <2>5, <2>6 DEF WorkerMoves, Pops, Takes
<1>5. CASE (d = 0 /\ AtScan(q)) \/ (d # 0 /\ AtClose(q, d))
  <2>1. worker[q].pc \in {"last", "count"}
    BY <1>5 DEF AtScan, AtClose, At
  <2>2. Counts(q) <=> (ActiveBlock(q).is_scan \/ Def(ActiveBlock(q).req) # 0)
                      /\ (Def(ActiveBlock(q).req) = 0 \/ Kind(ActiveBlock(q).req) = "close_scan_def")
    BY DEF Counts, Active, Item, ActiveRequest, ActiveBlock, Def, Kind
  <2>3. Counts(q)
    BY <1>5, <2>2 DEF AtScan, AtClose
  <2>4. ~(Ends(q) /\ ~Goes(q, "count"))
    <3> SUFFICES ASSUME Ends(q), ~Goes(q, "count") PROVE FALSE
      OBVIOUS
    <3>b. PICK b : b = items[i].active
      OBVIOUS
    <3>1. Kind(items[i].blocks[b].req) = "close_scan_group" /\ worker[q].pc = "last"
      BY <1>i, <3>b DEF Ends, At, ActiveRequest, Active, Item, Kind
    <3>2. items[i].blocks[b].is_scan
      BY <1>5, <1>i, <3>1, <3>b DEF AtScan, AtClose, ActiveBlock
    <3>3. b \in DOMAIN items[i].blocks
      BY <1>i, <3>1, <3>b, ActiveType
    <3>4. items[i].blocks[b].is_scan = IsScan(items[i].blocks[b].req)
      BY <1>3, <3>3 DEF DefsInv, ItemOk, BlocksOk
    <3> QED
      BY <3>1, <3>2, <3>4 DEF IsScan, Scans, Kind
  <2>5. /\ worker'[q].pc \in {"count", "write"}
        /\ NoItem \/ Same(i)
    BY <1>1, <1>i, <2>1, <2>3, <2>4 DEF WorkerMoves, Pops, Takes, Pulls, Finishes, Begins, Ends, Leaves, Reads, Turns, Aborts,
       At, Goes
  <2>6. /\ ActiveBlock(q)'.is_scan = ActiveBlock(q).is_scan
        /\ Def(ActiveBlock(q).req)' = Def(ActiveBlock(q).req) /\ Kind(ActiveBlock(q).req)' = Kind(ActiveBlock(q).req)
    BY <1>1, <1>i, <1>3, <2>1, <2>5, ActiveSame DEF NoItem, Same, Keeps
  <2> QED
    BY <1>5, <2>5, <2>6 DEF Current, AtScan, AtClose
<1> QED
  BY <1>4, <1>5 DEF Current

\* A scan of a definition that is about to be opened has the scanID of the open entry.
LEMMA ScanHasEntry ==
  ASSUME Types, DefsInv, ClosedInv, FirstInv, NEW q \in Queues, At(q, "first"), ActiveBlock(q).is_scan,
         NEW d, d = Def(ActiveBlock(q).req), d \notin {0} \cup log.defs
  PROVE  /\ [def |-> d, scan |-> ActiveBlock(q).scan] \in items[Mine(q)].defs
         /\ \A e \in items[Mine(q)].defs : e.def = d => e.scan = ActiveBlock(q).scan
<1>i. PICK item : item = items[Mine(q)]
  OBVIOUS
<1>b. PICK b : b = item.active
  OBVIOUS
<1>1. /\ b \in DOMAIN item.blocks /\ item \in ItemSet /\ ActiveBlock(q) = item.blocks[b] /\ Mine(q) \in DOMAIN items
      /\ item.next = b + 1 /\ b \in Nat
  BY <1>i, <1>b, ActiveType, MineType DEF At, ActiveBlock, FirstInv, ItemSet
<1>2. item.blocks[b].is_scan = IsScan(item.blocks[b].req) /\ Intact(item, b)
  BY <1>1, <1>i DEF DefsInv, ItemOk, BlocksOk
<1>3. /\ \A e \in item.defs : e.def = d => e.scan = item.blocks[b].scan
      /\ HasEntry(item, d) \/ ClosedIn(item, d)
      /\ \A c \in DOMAIN item.blocks : c < b /\ Def(item.blocks[c].req) = d => item.blocks[c].req < item.blocks[b].req
  BY <1>1, <1>2 DEF Intact
<1>4. ~ClosedIn(item, d)
  <2>1. SUFFICES ASSUME ClosedIn(item, d) PROVE FALSE
    OBVIOUS
  <2>2. PICK c \in DOMAIN item.blocks : c < item.next /\ Closes(item.blocks[c].req) /\ Def(item.blocks[c].req) = d
    BY <2>1 DEF ClosedIn
  <2>3. c \in Nat
    BY <1>1 DEF ItemSet
  <2>4. CASE c = b
    BY <1>1, <1>2, <2>2, <2>4 DEF Closes, IsScan, Scans, Kind
  <2>5. CASE c < b
    <3>1. item.blocks[c].req < item.blocks[b].req
      BY <1>3, <2>2, <2>5
    <3>2. item.blocks[c].req \in DOMAIN sent /\ item.blocks[b].req \in DOMAIN sent
      BY <1>1, <1>i, BlockRequests
    <3> QED
      BY <1>1, <2>2, <3>1, <3>2 DEF ClosedInv
  <2> QED
    BY <1>1, <2>2, <2>3, <2>4, <2>5
<1>5. PICK e \in item.defs : e.def = d /\ e.scan = item.blocks[b].scan
  BY <1>3, <1>4 DEF HasEntry
<1>6. e = [def |-> d, scan |-> item.blocks[b].scan]
  BY <1>1, <1>5 DEF ItemSet, Entries
<1> QED
  BY <1>1, <1>3, <1>5, <1>6, <1>i

\* What a step does to a scan that was opened before.
LEMMA CountedStays ==
  ASSUME Types, Remembers, DefsInv, Next, ~log.raced', NEW o \in Openings, o.req \in DOMAIN sent,
         o.number < scan_number \/ (o.number = scan_number /\ Settled(o))
  PROVE  o.number < scan_number' \/ (o.number = scan_number' /\ Settled(o)')
<1>q. PICK q \in Queues : q = o.queue
  BY DEF Openings
<1>d. PICK d : d = Def(o.req)
  OBVIOUS
<1>1. Def(o.req)' = d /\ SentKept
  BY <1>d, SaidKept DEF Remembers
<1>2. log.defs \subseteq log.defs'
  BY FourKinds, WorkerFrame DEF Quiet, Puts
<1>n. scan_number \in Nat /\ o.number \in Nat
  BY DEF Types, NumberType, Openings
<1>3. scan_number' = scan_number \/ (scan_number' = scan_number + 1 /\ \E w \in Queues : At(w, "write") /\ (Worker(w) \/ Restart(w)))
  <2>1. ASSUME NEW w \in Queues, Worker(w) \/ Restart(w)
        PROVE  scan_number' = scan_number \/ (scan_number' = scan_number + 1 /\ At(w, "write"))
    BY <2>1, WorkerFrame DEF numbers
  <2> QED
    BY <2>1, FourKinds DEF Quiet, Puts, numbers
<1>4. CASE scan_number' = scan_number + 1 \/ o.number < scan_number
  BY <1>3, <1>4, <1>n
<1>5. CASE scan_number' = scan_number /\ o.number = scan_number /\ Settled(o)
  <2>1. CASE o.beside \/ d \in log.defs
    BY <1>1, <1>2, <1>5, <2>1 DEF Settled
  <2>2. CASE Current(q, d, o.scan)
    <3>1. CASE ~(Worker(q) \/ Restart(q))
      <4>1. worker[q].pc # "take"
        BY <2>2 DEF Current, AtScan, HasOpen, AtClose
      <4>2. Current(q, d, o.scan)'
        BY <1>1, <2>2, <3>1, <4>1, OnlyWorkersWork, CurrentUntouched
      <4> QED
        BY <1>1, <1>5, <1>q, <4>2 DEF Settled, Current, AtScan, HasOpen, AtClose
    <3>2. CASE Worker(q) \/ Restart(q)
      <4>1. ~At(q, "write")
        <5>1. SUFFICES ASSUME At(q, "write") PROVE FALSE
          OBVIOUS
        <5>2. scan_number' = worker[q].read + 1 /\ log.raced' = (log.raced \/ scan_number # worker[q].read)
          BY <3>2, <5>1, WorkerFrame
        <5>3. scan_number = worker[q].read
          BY <5>2
        <5>4. scan_number' = scan_number + 1
          BY <5>2, <5>3
        <5> QED
          BY <1>5, <1>n, <5>4
      <4>2. Current(q, d, o.scan)' \/ d \in log.defs'
        BY <2>2, <3>2, <4>1, CurrentKept
      <4> QED
        BY <1>1, <1>5, <1>q, <4>2 DEF Settled, Current, AtScan, HasOpen, AtClose
    <3> QED
      BY <3>1, <3>2
  <2> QED
    BY <1>5, <1>d, <1>q, <2>1, <2>2 DEF Settled
<1> QED
  BY <1>3, <1>4, <1>5

\* The scan that a worker opens is not over, and the block that it belongs to is its active one.
LEMMA OpeningCounts ==
  ASSUME Types, DefsInv, ClosedInv, FirstInv, NEW q \in Queues, Start(q), Active(q).is_scan,
         NEW o, o = Opening(q), Remembers
  PROVE  /\ o.number = scan_number /\ o.queue = q /\ o.req \in DOMAIN sent /\ o.scan = ActiveBlock(q).scan
         /\ o.req = ActiveBlock(q).req
         /\ o.beside <=> \E e \in items[Mine(q)].defs : e.def # Def(o.req)
         /\ Settled(o)'
<1>i. PICK i : i = Mine(q)
  OBVIOUS
<1>1. At(q, "first") /\ Active(q) = ActiveBlock(q) /\ SentKept
  BY DEF Start, Active, Item, ActiveBlock, Remembers
<1>2. /\ o.number = scan_number /\ o.queue = q /\ o.scan = ActiveBlock(q).scan /\ o.req = ActiveBlock(q).req
      /\ o.beside <=> \E e \in items[i].defs : e.def # Def(o.req)
  BY <1>1, <1>i DEF Opening
<1>3. o.req \in DOMAIN sent
  BY <1>1, <1>2, ActiveType DEF At
<1>d. PICK d : d = Def(o.req)
  OBVIOUS
<1>4. Def(o.req)' = d
  BY <1>1, <1>3, <1>d, SaidKept
<1>5. Begins(q) /\ log.defs \subseteq log.defs' /\ Worker(q)
  BY StartEffect, WorkerFrame DEF Worker
<1>6. /\ worker'[q].pc = "last" /\ Mine(q)' = i /\ items'[i].defs = items[i].defs
      /\ worker'[q].item = worker[q].item /\ items'[i].active = items[i].active /\ items'[i].blocks = items[i].blocks
  BY <1>5, <1>i DEF Begins, Goes, Keeps, Same, Mine
<1>7. ASSUME d \in log.defs PROVE Settled(o)'
  BY <1>4, <1>5, <1>7 DEF Settled
<1>8. ASSUME d = 0 PROVE Settled(o)'
  <2>1. Def(ActiveBlock(q).req)' = 0 /\ ActiveBlock(q)'.is_scan
    BY <1>1, <1>2, <1>6, <1>8, <1>d, <1>i, ActiveSame DEF At
  <2>2. AtScan(q)'
    BY <1>6, <2>1 DEF AtScan
  <2>3. Current(q, d, o.scan)'
    BY <1>8, <2>2 DEF Current
  <2> QED
    BY <1>2, <1>4, <2>3 DEF Settled, Current, AtScan, HasOpen, AtClose
<1>9. ASSUME d # 0, d \notin log.defs PROVE Settled(o)'
  <2>1. [def |-> d, scan |-> o.scan] \in items[i].defs
    BY <1>1, <1>2, <1>9, <1>d, <1>i, ScanHasEntry
  <2>2. Current(q, d, o.scan)'
    BY <1>6, <1>9, <2>1 DEF Current, HasOpen
  <2> QED
    BY <1>2, <1>4, <2>2 DEF Settled, Current, AtScan, HasOpen, AtClose
<1> QED
  BY <1>2, <1>3, <1>7, <1>8, <1>9, <1>i

\* The scans after a step are those before it, and the one that the step opens.
LEMMA OpenedBy ==
  ASSUME Types, Next
  PROVE  \/ opened' = opened
         \/ \E q \in Queues : \E o \in Openings :
              /\ Start(q) /\ Active(q).is_scan /\ o = Opening(q)
              /\ \A k \in DOMAIN opened' : (k \in DOMAIN opened /\ opened'[k] = opened[k]) \/ opened'[k] = o
<1> SUFFICES ASSUME opened' # opened
             PROVE  \E q \in Queues : \E o \in Openings :
                      /\ Start(q) /\ Active(q).is_scan /\ o = Opening(q)
                      /\ \A k \in DOMAIN opened' : (k \in DOMAIN opened /\ opened'[k] = opened[k]) \/ opened'[k] = o
  OBVIOUS
<1>1. PICK q \in Queues : Worker(q) \/ Restart(q)
  BY FourKinds DEF Quiet, Puts
<1>2. Start(q) /\ Active(q).is_scan /\ opened' = Append(opened, Opening(q))
  BY <1>1, WorkerFrame
<1>3. opened \in Seq(Openings) /\ Opening(q) \in Openings
  BY <1>2, OpeningType DEF Start, Types, OpenedType
<1>4. PICK o \in Openings : o = Opening(q)
  BY <1>3
<1>5. \A k \in DOMAIN opened' : (k \in DOMAIN opened /\ opened'[k] = opened[k]) \/ opened'[k] = o
  BY <1>2, <1>3, <1>4, Appended
<1> QED
  BY <1>2, <1>4, <1>5

LEMMA CountedNext ==
  ASSUME Types, Remembers, DefsInv, ClosedInv, FirstInv, CountedInv, Next
  PROVE  CountedInv'
<1>1. log.raced => log.raced'
  BY FourKinds, WorkerFrame DEF Quiet, Puts
<1>2. ASSUME NEW k \in DOMAIN opened, NEW o \in Openings, o = opened[k]
      PROVE  o.req \in DOMAIN sent' /\ (~log.raced' => o.number < scan_number' \/ (o.number = scan_number' /\ Settled(o)'))
  <2>1. o.req \in DOMAIN sent /\ (~log.raced => o.number < scan_number \/ (o.number = scan_number /\ Settled(o)))
    BY <1>2 DEF CountedInv, Settled
  <2> QED
    BY <1>1, <2>1, CountedStays DEF Remembers, SentKept
<1>3. ASSUME NEW q \in Queues, NEW o \in Openings, Start(q), Active(q).is_scan, o = Opening(q)
      PROVE  o.req \in DOMAIN sent' /\ o.number = scan_number' /\ Settled(o)'
  <2>1. /\ o.number = scan_number /\ o.req \in DOMAIN sent /\ Settled(o)'
    BY <1>3, OpeningCounts
  <2>2. scan_number' = scan_number
    BY <1>3 DEF Start, numbers
  <2> QED
    BY <2>1, <2>2 DEF Remembers, SentKept
<1> SUFFICES ASSUME NEW k \in DOMAIN opened', NEW o, o = opened'[k]
             PROVE  o.req \in DOMAIN sent' /\ (~log.raced' => o.number < scan_number' \/ (o.number = scan_number' /\ Settled(o)'))
  BY DEF CountedInv, Settled, Current, AtScan, HasOpen, AtClose, ActiveBlock
<1>4. \A l \in DOMAIN opened : opened[l] \in Openings
  BY DEF Types, OpenedType
<1>5. CASE k \in DOMAIN opened /\ opened'[k] = opened[k]
  BY <1>2, <1>4, <1>5
<1>6. CASE ~(k \in DOMAIN opened /\ opened'[k] = opened[k])
  <2>1. opened' # opened
    BY <1>6
  <2>2. PICK q \in Queues, n \in Openings : Start(q) /\ Active(q).is_scan /\ n = Opening(q) /\ o = n
    BY <1>6, <2>1, OpenedBy
  <2> QED
    BY <1>3, <2>2
<1> QED
  BY <1>5, <1>6

\* The number of a scan that is opened is new, or is that of a scan with the same scanID.
Agree(o, p) ==
  \/ o.scan = p.scan \/ o.queue # p.queue \/ log.raced \/ o.beside \/ p.beside
  \/ Def(o.req) \in log.defs \/ Def(p.req) \in log.defs
LEMMA OpeningIsNew ==
  ASSUME Types, Remembers, DefsInv, ClosedInv, FirstInv, CountedInv, NEW q \in Queues, Start(q), Active(q).is_scan,
         NEW n, n = Opening(q), NEW k \in DOMAIN opened, opened[k].number = n.number
  PROVE  Agree(opened[k], n)
<1>o. PICK o : o = opened[k]
  OBVIOUS
<1>i. PICK i : i = Mine(q)
  OBVIOUS
<1>1. At(q, "first") /\ Active(q) = ActiveBlock(q) /\ scan_number \in Nat
  BY DEF Start, Active, Item, ActiveBlock, Types, NumberType
<1>2. /\ n.number = scan_number /\ n.queue = q /\ n.scan = ActiveBlock(q).scan /\ n.req = ActiveBlock(q).req
      /\ n.beside <=> \E e \in items[i].defs : e.def # Def(n.req)
  BY <1>i, OpeningCounts
<1> SUFFICES ASSUME o.queue = q, ~log.raced, ~o.beside, ~n.beside, Def(o.req) \notin log.defs, Def(n.req) \notin log.defs
             PROVE  o.scan = n.scan
  BY <1>o, <1>2 DEF Agree
<1>3. Current(q, Def(o.req), o.scan)
  BY <1>1, <1>2, <1>o DEF CountedInv, Settled
<1>4. Def(o.req) # 0 /\ [def |-> Def(o.req), scan |-> o.scan] \in items[i].defs
  BY <1>1, <1>3, <1>i DEF Current, AtScan, AtClose, HasOpen, At
<1>5. Def(o.req) = Def(n.req)
  BY <1>2, <1>4
<1>d. PICK d : d = Def(n.req)
  OBVIOUS
<1>a. d = Def(ActiveBlock(q).req) /\ d \notin {0} \cup log.defs /\ ActiveBlock(q).is_scan
  BY <1>1, <1>2, <1>4, <1>5, <1>d
<1>6. \A e \in items[i].defs : e.def = d => e.scan = n.scan
  BY <1>1, <1>2, <1>a, <1>i, ScanHasEntry
<1> QED
  BY <1>4, <1>5, <1>6, <1>d

LEMMA UniqueNext ==
  ASSUME Types, Remembers, DefsInv, ClosedInv, FirstInv, CountedInv, UniqueNumbers, Next
  PROVE  UniqueNumbers'
<1>1. (log.raced => log.raced') /\ log.defs \subseteq log.defs'
  BY FourKinds, WorkerFrame DEF Quiet, Puts
<1>2. \A k \in DOMAIN opened : opened[k] \in Openings /\ opened[k].req \in DOMAIN sent
  BY DEF CountedInv, Types, OpenedType
<1>3. ASSUME NEW o, NEW p, o.req \in DOMAIN sent, p.req \in DOMAIN sent, Agree(o, p) PROVE Agree(o, p)' /\ Agree(p, o)'
  <2>1. Def(o.req)' = Def(o.req) /\ Def(p.req)' = Def(p.req)
    BY <1>3, SaidKept DEF Remembers
  <2> QED
    BY <1>1, <1>3, <2>1 DEF Agree
<1>4. ASSUME NEW j \in DOMAIN opened, NEW k \in DOMAIN opened, opened[j].number = opened[k].number
      PROVE  Agree(opened[j], opened[k])
  BY <1>4 DEF UniqueNumbers, Agree, Def
<1> SUFFICES ASSUME NEW j \in DOMAIN opened', NEW k \in DOMAIN opened', NEW o, o = opened'[j], NEW p, p = opened'[k],
                    o.number = p.number
             PROVE  Agree(o, p)'
  BY DEF UniqueNumbers, Agree, Def
<1>5. CASE opened' = opened
  BY <1>2, <1>3, <1>4, <1>5
<1>6. CASE opened' # opened
  <2>1. PICK q \in Queues, n \in Openings :
          /\ Start(q) /\ Active(q).is_scan /\ n = Opening(q)
          /\ \A l \in DOMAIN opened' : (l \in DOMAIN opened /\ opened'[l] = opened[l]) \/ opened'[l] = n
    BY <1>6, OpenedBy
  <2>2. n.req \in DOMAIN sent
    BY <2>1, OpeningCounts
  <2>3. ASSUME NEW l \in DOMAIN opened, opened[l].number = n.number PROVE Agree(opened[l], n)
    BY <2>1, <2>3, OpeningIsNew
  <2>4. CASE o = p
    BY <2>4 DEF Agree
  <2>5. CASE p = n /\ j \in DOMAIN opened /\ o = opened[j]
    BY <1>2, <1>3, <2>2, <2>3, <2>5
  <2>6. CASE o = n /\ k \in DOMAIN opened /\ p = opened[k]
    BY <1>2, <1>3, <2>2, <2>3, <2>6
  <2>7. CASE j \in DOMAIN opened /\ o = opened[j] /\ k \in DOMAIN opened /\ p = opened[k]
    BY <1>2, <1>3, <1>4, <2>7
  <2> QED
    BY <2>1, <2>4, <2>5, <2>6, <2>7
<1> QED
  BY <1>5, <1>6

-----------------------------------------------------------------------------
(* The theorems.                                                           *)

PredictedHolds == Types /\ QueueInv /\ AnnouncedInv /\ PredictedIsOpened

LEMMA Stutters == PredictedHolds /\ UNCHANGED vars => PredictedHolds'
<1> SUFFICES ASSUME PredictedHolds, UNCHANGED vars PROVE PredictedHolds'
  OBVIOUS
<1>1. Types'
  BY SameTypes DEF PredictedHolds
<1>2. /\ sent' = sent /\ items' = items /\ queue' = queue /\ worker' = worker /\ scan_number' = scan_number
      /\ opened' = opened /\ log' = log
  BY DEF vars, client, numbers
<1>3. QueueInv'
  BY <1>2 DEF PredictedHolds, QueueInv, HeadInv, DistinctInv, CompletedInv, At, Mine
<1>4. AnnouncedInv'
  BY <1>2 DEF PredictedHolds, AnnouncedInv, LaterIn, At, Mine, Item, Active, OneQueue
<1>5. PredictedIsOpened'
  BY <1>2 DEF PredictedHolds, PredictedIsOpened, OneQueue
<1> QED
  BY <1>1, <1>3, <1>4, <1>5 DEF PredictedHolds

LEMMA PredictedStep == PredictedHolds /\ [Next]_vars => PredictedHolds'
<1> SUFFICES ASSUME PredictedHolds, Next PROVE PredictedHolds'
  BY Stutters
<1>1. Types' /\ Remembers
  BY NextTypes DEF PredictedHolds
<1>2. QueueInv'
  BY QueueInvNext DEF PredictedHolds
<1>3. AnnouncedInv'
  BY <1>1, AnnouncedNext DEF PredictedHolds
<1>4. PredictedIsOpened'
  BY <1>1, PredictedNext DEF PredictedHolds
<1> QED
  BY <1>1, <1>2, <1>3, <1>4 DEF PredictedHolds

\* The state has the types that the code gives it: every block is one of an accepted request
\* of the queue its item is in, and a worker that is at a block has an item with that block.
THEOREM TypeCorrect == Spec => []Types
<1>1. Init => Types
  BY InitTypes
<1>2. Types /\ [Next]_vars => Types'
  BY NextTypes, SameTypes
<1> QED
  BY <1>1, <1>2, PTL DEF Spec

\* Only requests that the scan guard has accepted become blocks of an item, and none of them
\* before it is accepted.
THEOREM AcceptedOnly == Spec => []OnlyAccepted
<1>1. Types => OnlyAccepted
  BY DEF Types, ItemType, OnlyAccepted, Accepted, IsItem
<1> QED
  BY <1>1, TypeCorrect, PTL

\* The scan number that _pull_request_block predicts, with scanIDs_head, is the number that
\* open_scan finds, unless the scan is a later one of a group, two queues count scans or a
\* restart went in front of a scan that had begun.
THEOREM NumbersAreKept == Spec => []PredictedIsOpened
<1>1. Init => PredictedHolds
  BY InitTypes, InitQueues DEF PredictedHolds
<1>2. PredictedHolds => PredictedIsOpened
  BY DEF PredictedHolds
<1> QED
  BY <1>1, <1>2, PredictedStep, PTL DEF Spec

\* What the numbers rest on: requests become blocks in their order, a closed definition is
\* not used again, and a definition that is open in an item has one scanID there.
NumbersHold ==
  /\ Types /\ ContextInv /\ ClosedInv /\ OrderInv /\ DefsInv /\ LookedInv /\ FirstInv /\ CountedInv
  /\ UniqueNumbers

LEMMA NumbersInit == Init => NumbersHold
<1> SUFFICES ASSUME Init PROVE NumbersHold
  OBVIOUS
<1>1. /\ context.def = 0 /\ context.fresh = 0 /\ DOMAIN sent = {} /\ DOMAIN inserts = {} /\ inserter.pc = "idle"
      /\ DOMAIN items = {} /\ DOMAIN opened = {} /\ worker = [q \in Queues |-> [pc |-> "take", item |-> 0, read |-> 0]]
  BY DEF Init
<1>2. ContextInv /\ ClosedInv
  BY <1>1 DEF ContextInv, ClosedInv
<1>3. OrderInv
  BY <1>1 DEF OrderInv, IsBlock
<1>4. DefsInv /\ LookedInv /\ FirstInv
  BY <1>1 DEF DefsInv, LookedInv, FirstInv, At
<1>5. CountedInv /\ UniqueNumbers
  BY <1>1 DEF CountedInv, UniqueNumbers
<1> QED
  BY <1>2, <1>3, <1>4, <1>5, InitTypes DEF NumbersHold

LEMMA NumbersStutter == NumbersHold /\ UNCHANGED vars => NumbersHold'
<1> SUFFICES ASSUME NumbersHold, UNCHANGED vars PROVE NumbersHold'
  OBVIOUS
<1>1. Types'
  BY SameTypes DEF NumbersHold
<1>2. /\ context' = context /\ sent' = sent /\ inserts' = inserts /\ inserter' = inserter /\ items' = items
      /\ worker' = worker /\ scan_number' = scan_number /\ opened' = opened /\ log' = log
  BY DEF vars, client, numbers
<1>3. ContextInv' /\ ClosedInv'
  BY <1>2 DEF NumbersHold, ContextInv, ClosedInv, Closes, Def, Kind
<1>4. OrderInv'
  BY <1>2 DEF NumbersHold, OrderInv, IsBlock, Passed
<1>5. DefsInv' /\ LookedInv'
  BY <1>2 DEF NumbersHold, DefsInv, LookedInv, ItemOk, EntriesOk, BlocksOk, StoppedOk, Intact, HasEntry, ClosedIn, Closes,
              IsScan, Def, Kind
<1>6. FirstInv'
  BY <1>2 DEF NumbersHold, FirstInv, At, Mine
<1>7. CountedInv'
  <2>1. /\ \A r : Def(r)' = Def(r) /\ Kind(r)' = Kind(r)
        /\ \A q : Mine(q)' = Mine(q) /\ ActiveBlock(q)' = ActiveBlock(q)
    BY <1>2 DEF Def, Kind, Mine, ActiveBlock
  <2>2. \A q, d, s : (Current(q, d, s))' <=> Current(q, d, s)
    BY <1>2, <2>1 DEF Current, AtScan, HasOpen, AtClose
  <2>3. \A k \in DOMAIN opened : Settled(opened[k])' <=> Settled(opened[k])
    BY <1>2, <2>1, <2>2 DEF Settled
  <2> QED
    BY <1>2, <2>3 DEF NumbersHold, CountedInv
<1>8. UniqueNumbers'
  BY <1>2 DEF NumbersHold, UniqueNumbers
<1> QED
  BY <1>1, <1>3, <1>4, <1>5, <1>6, <1>7, <1>8 DEF NumbersHold

LEMMA NumbersStep == NumbersHold /\ [Next]_vars => NumbersHold'
<1> SUFFICES ASSUME NumbersHold, Next PROVE NumbersHold'
  BY NumbersStutter
<1>0. Types /\ ContextInv /\ ClosedInv /\ OrderInv /\ DefsInv /\ LookedInv /\ FirstInv /\ CountedInv /\ UniqueNumbers
  BY DEF NumbersHold
<1>1. Types' /\ Remembers
  BY <1>0, NextTypes
<1>2. ContextInv' /\ ClosedInv'
  BY <1>0, <1>1, ContextNext
<1>3. OrderInv' /\ LookedInv' /\ FirstInv'
  BY <1>0, <1>1, OrderNext, LookedNext, FirstNext
<1>4. DefsInv'
  BY <1>0, <1>1, FourKinds, DefsQuiet, DefsPuts, DefsWorker
<1>5. CountedInv'
  BY <1>0, <1>1, CountedNext
<1>6. UniqueNumbers'
  BY <1>0, <1>1, UniqueNext
<1> QED
  BY <1>1, <1>2, <1>3, <1>4, <1>5, <1>6 DEF NumbersHold

\* Two scans of a queue that were opened with the same number have the same scanID, unless a
\* definition of theirs was aborted or repeated, another queue's worker wrote the number
\* meanwhile, or a scan ran in an item that had another definition open.
THEOREM NumbersAreDistinct == Spec => []UniqueNumbers
<1>1. NumbersHold => UniqueNumbers
  BY DEF NumbersHold
<1> QED
  BY <1>1, NumbersInit, NumbersStep, PTL DEF Spec
=============================================================================
