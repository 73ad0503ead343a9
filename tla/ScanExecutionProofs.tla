------------------------ MODULE ScanExecutionProofs ------------------------
(***************************************************************************)
(* Theorems about ScanExecution for every sequence of scans, whichever     *)
(* steps their programs take.                                              *)
(***************************************************************************)
EXTENDS ScanExecution, FunctionTheorems, FiniteSetTheorems, TLAPS

-----------------------------------------------------------------------------
(* Induction.                                                              *)

\* Induction up to n, without an operator for what is proved: if n were not in T, the
\* function that takes the numbers outside T one down would be an injection of 1..n into
\* 1..(n - 1).
LEMMA UpTo ==
  ASSUME NEW n \in Nat \ {0}, NEW T, 1 \in T, \A i \in 1..(n - 1) : i \in T => i + 1 \in T
  PROVE  n \in T
<1> SUFFICES ASSUME n \notin T PROVE FALSE
  OBVIOUS
<1> DEFINE f == [i \in 1..n |-> IF i \in T THEN i ELSE i - 1]
<1>1. f \in [1..n -> 1..(n - 1)]
  OBVIOUS
<1>2. ASSUME NEW i \in 1..n, NEW j \in 1..n, f[i] = f[j] PROVE i = j
  <2>1. CASE i \in T /\ j \notin T
    BY <1>2, <2>1, j = i + 1, i \in 1..(n - 1)
  <2>2. CASE i \notin T /\ j \in T
    BY <1>2, <2>2, i = j + 1, j \in 1..(n - 1)
  <2> QED
    BY <1>2, <2>1, <2>2
<1>3. f \in Injection(1..n, 1..(n - 1))
  BY <1>1, <1>2 DEF Injection, IsInjective
<1> QED
  BY <1>3, Fun_NatInjLeq DEF ExistsInjection

Joined(seqs, k, f) == f = [i \in 1..k |-> IF i = 1 THEN seqs[i] ELSE f[i-1] \o seqs[i]]

LEMMA JoinedExists ==
  ASSUME NEW seqs, NEW n \in Nat \ {0}
  PROVE  \E f : Joined(seqs, n, f)
<1> DEFINE T == {k \in 1..n : \E f : Joined(seqs, k, f)}
<1>1. 1 \in T
  <2>1. Joined(seqs, 1, [i \in 1..1 |-> seqs[i]])
    BY DEF Joined
  <2> QED
    BY <2>1
<1>2. ASSUME NEW k \in 1..(n - 1), k \in T PROVE k + 1 \in T
  <2>1. PICK f : f = [i \in 1..k |-> IF i = 1 THEN seqs[i] ELSE f[i-1] \o seqs[i]]
    BY <1>2 DEF Joined
  <2> DEFINE g == [i \in 1..(k + 1) |-> IF i = k + 1 THEN f[k] \o seqs[i] ELSE f[i]]
  <2>2. ASSUME NEW i \in 1..(k + 1) PROVE g[i] = IF i = 1 THEN seqs[i] ELSE g[i-1] \o seqs[i]
    <3>1. CASE i = k + 1
      <4>1. i # 1 /\ i - 1 = k /\ k \in 1..(k + 1) /\ k # k + 1
        BY <3>1
      <4>2. g[i] = f[k] \o seqs[i] /\ g[k] = f[k]
        BY <3>1, <4>1
      <4> QED
        BY <4>1, <4>2
    <3>2. CASE i # k + 1
      <4>1. i \in 1..k /\ (i # 1 => i - 1 \in 1..(k + 1) /\ i - 1 # k + 1)
        BY <3>2
      <4>2. g[i] = f[i] /\ (i # 1 => g[i - 1] = f[i - 1])
        BY <3>2, <4>1
      <4>3. f[i] = IF i = 1 THEN seqs[i] ELSE f[i - 1] \o seqs[i]
        BY <2>1, <4>1
      <4> HIDE DEF g
      <4> QED
        BY <4>1, <4>2, <4>3, Zenon
    <3> QED
      BY <3>1, <3>2
  <2>3. g = [i \in 1..(k + 1) |-> IF i = 1 THEN seqs[i] ELSE g[i-1] \o seqs[i]]
    BY <2>2
  <2> HIDE DEF g
  <2>4. Joined(seqs, k + 1, g)
    BY <2>3 DEF Joined
  <2> QED
    BY <2>4
<1> HIDE DEF T
<1>3. n \in T
  BY <1>1, <1>2, UpTo
<1> QED
  BY <1>3 DEF T

LEMMA FlattenJoined ==
  ASSUME NEW seqs, NEW S, seqs \in Seq(S), seqs # <<>>
  PROVE  \E f : Joined(seqs, Len(seqs), f) /\ FlattenSeq(seqs) = f[Len(seqs)]
<1>1. Len(seqs) \in Nat /\ Len(seqs) # 0
  OBVIOUS
<1> DEFINE n == Len(seqs)
           c == CHOOSE f : f = [i \in 1..n |-> IF i = 1 THEN seqs[i] ELSE f[i-1] \o seqs[i]]
<1>2. FlattenSeq(seqs) = c[n]
  BY <1>1, Zenon DEF FlattenSeq
<1>a. \E f : Joined(seqs, n, f)
  BY <1>1, JoinedExists
<1>3. Joined(seqs, n, c)
  BY <1>a, Zenon DEF Joined
<1> QED
  BY <1>2, <1>3

\* The elements of a flattened sequence are elements of its parts.
LEMMA FlattenType ==
  ASSUME NEW S, NEW seqs \in Seq(Seq(S))
  PROVE  FlattenSeq(seqs) \in Seq(S)
<1>1. CASE seqs = <<>>
  <2>1. FlattenSeq(seqs) = seqs
    BY <1>1, Zenon DEF FlattenSeq
  <2>2. <<>> \in Seq(S)
    OBVIOUS
  <2> QED
    BY <1>1, <2>1, <2>2, Zenon
<1>2. CASE seqs # <<>>
  <2> DEFINE n == Len(seqs)
  <2>1. n \in Nat \ {0} /\ \A i \in 1..n : seqs[i] \in Seq(S)
    BY <1>2
  <2>2. PICK f : Joined(seqs, n, f) /\ FlattenSeq(seqs) = f[n]
    BY <1>2, FlattenJoined
  <2> DEFINE T == {i \in 1..n : f[i] \in Seq(S)}
  <2> HIDE DEF n
  <2>3. 1 \in T
    BY <2>1, <2>2 DEF Joined
  <2>4. ASSUME NEW i \in 1..(n - 1), i \in T PROVE i + 1 \in T
    <3>1. PICK j \in 1..n : j = i + 1 /\ j # 1 /\ j - 1 = i
      BY <2>1
    <3>2. f[j] = IF j = 1 THEN seqs[j] ELSE f[j - 1] \o seqs[j]
      BY <2>2, Zenon DEF Joined
    <3>3. f[i] \in Seq(S) /\ seqs[j] \in Seq(S)
      BY <2>1, <2>4
    <3>4. f[i] \o seqs[j] \in Seq(S)
      BY <3>3
    <3>5. f[j] \in Seq(S)
      BY <3>1, <3>2, <3>4, Zenon
    <3> QED
      BY <3>1, <3>5, Zenon
  <2> HIDE DEF T
  <2>5. n \in T
    BY <2>1, <2>3, <2>4, UpTo
  <2> QED
    BY <2>2, <2>5 DEF T
<1> QED
  BY <1>1, <1>2

-----------------------------------------------------------------------------
(* The invariant: types. The metadata that anything carries were made for  *)
(* a block of the current item or of an earlier one.                       *)

Known(md) == \/ md = NoMd
             \/ /\ md.rid[1] \in 1..it /\ md.scan[1] = md.rid[1]
                /\ Items[md.rid[1]].def \/ md.scan = md.rid
KnownMarks == {md \in Marks : Known(md)}

Entries(S) == [md : S, on : BOOLEAN, set : BOOLEAN]
Flights(S) == [kick : S, complete : S, flies : BOOLEAN, told : BOOLEAN, asked : BOOLEAN, sent : Nat]
ScanTypes == [DIID : Nat, start_pos : Seq(Int), pointID : Int, num_pos : Int, target : Int,
              polls : Int, fresh : BOOLEAN, reading : BOOLEAN]
WorkTypes(S) == [scan_id : Nat \X Nat, scan_type : {"", "step", "fly"}, scan_motors : SUBSET Devices,
                 readout : SUBSET Devices, max_point_id : Int, staged : {{}, Devices},
                 returning : BOOLEAN, last_trigger : S, sent : Nat]

PlaceInv ==
  /\ scen \in ToSet(Scenarios)
  /\ wpc \in {"pull", "wait", "abort", "aborted", "done", "dead"} /\ status \in {"RUNNING", "STOPPED"}
  /\ it \in 1..Len(Items) /\ bl \in 1..Len(Item.blocks) /\ pc \in Nat \ {0}
WorkerInv ==
  /\ scan \in ScanTypes /\ cur.md \in KnownMarks /\ work \in WorkTypes(KnownMarks)
  /\ \A g \in groups : g[2] \in Devices /\ g[3] \in Nat

\* The instructions on their way, and how they are numbered.
InFlight == ToSet(tasks) \cup {t.m : t \in running}
TaskInv ==
  /\ tasks \in Seq(ToSet(tasks))
  /\ \A m \in InFlight : /\ m.md \in KnownMarks /\ m.device \subseteq Devices
                         /\ m.no \in Nat /\ m.no < work.sent
                         /\ m.action \in {"stage", "unstage"} => m.device = Devices
  /\ \A t \in running : DOMAIN t = {"m", "saved", "replied"}
OrderInv ==
  /\ \A i, j \in 1..Len(tasks) : i < j => tasks[i].no < tasks[j].no
  /\ \A t \in running, j \in 1..Len(tasks) : t.m.no < tasks[j].no
  /\ \A t, u \in running : t.m.no = u.m.no => t = u
  /\ \A t \in running : t.replied => t.m.action = "rpc"

DeviceInv ==
  /\ metadata \in [Devices -> Marks] /\ pos \in [Devices -> Int]
  /\ DOMAIN goal = Devices
  /\ \A d \in Devices : /\ DOMAIN goal[d] = {"md", "to", "moves", "response"}
                        /\ goal[d].md \in KnownMarks /\ goal[d].moves \in BOOLEAN
  /\ flight \in [Devices -> Flights(KnownMarks)] /\ exposing \in [Devices -> Entries(KnownMarks)]
RedisInv ==
  /\ req \in [Devices -> Entries(KnownMarks)] /\ staged \in [Devices -> Entries(KnownMarks)]
  /\ sts \in [Devices -> Entries(Marks)]
  /\ progress \in [Devices -> [md : Marks, n : Nat]] /\ \A r \in replies : r.value \in Int
LogInv == DOMAIN log = DOMAIN NewLog

TypeInv == PlaceInv /\ WorkerInv /\ TaskInv /\ DeviceInv /\ RedisInv /\ LogInv

\* An answer in redis was given.
AnsweredInv == \A d \in Devices : /\ req[d].set => <<d, req[d].md>> \in log.answered
                                  /\ staged[d].set => <<d, staged[d].md>> \in log.answered

\* While scans run, the instructions of an earlier item are before those of the current one.
Current(md) == md.rid[1] = it
OlderFirst == wpc # "done" => \A m, n \in InFlight : ~Current(m.md) /\ Current(n.md) => m.no < n.no

\* When the worker goes on with staged devices they are staged and nothing is on its way
\* that would change that; when it goes on without, no stage of this item comes late; ...
StageSent == {m \in InFlight : m.action = "stage" /\ Current(m.md)}
UnstageSent == {m \in InFlight : m.action = "unstage"}
On(d) == Current(staged[d].md) /\ staged[d].on
Off(d) == Current(staged[d].md) /\ ~staged[d].on
Steady == /\ work.staged # {} => UnstageSent = {} /\ \A d \in Devices : staged[d].on
          /\ work.staged = {} => StageSent = {} /\ \A d \in Devices : ~On(d)
\* ... while it waits for a stage, this comes after every unstage, and so the other way round.
Staging == /\ \A d \in Devices : On(d) => UnstageSent = {}
           /\ \A m \in UnstageSent, n \in StageSent : Current(m.md) => m.no < n.no
Unstaging == /\ \A d \in Devices : Off(d) => StageSent = {}
             /\ \A m \in UnstageSent, n \in StageSent : Current(m.md) => n.no < m.no
WaitsFor(action) == wpc = "wait" /\ cur.step.action = action
ScanningOn == wpc \in {"pull", "wait"} /\ ~work.returning /\ ~reordered /\ Devices # {}
StagingInv ==
  /\ stagedDevs \subseteq Devices /\ \A d \in Devices : d \in stagedDevs <=> staged[d].on
  /\ ScanningOn /\ WaitsFor("stage") => Staging /\ work.staged = Devices
  /\ ScanningOn /\ WaitsFor("unstage") => Unstaging /\ work.staged = {}
  /\ ScanningOn /\ ~WaitsFor("stage") /\ ~WaitsFor("unstage") => Steady

\* Unless two calls overlapped there is one, and the terminal waits for it.
IsRpc(t) == t.m.action = "rpc"
StdoutInv ==
  ~log.overlap => /\ \A t, u \in running : IsRpc(t) /\ IsRpc(u) => t = u
                  /\ \A t \in running : IsRpc(t) => t.saved = NoMd
                  /\ (\A t \in running : ~IsRpc(t)) => stdout = NoMd

-----------------------------------------------------------------------------
(* Programs.                                                               *)

\* What the constants say about the place the worker is at.
LEMMA PlaceFacts ==
  ASSUME PlaceInv
  PROVE  /\ Len(Items) \in Nat /\ Len(Item.blocks) \in Nat
         /\ \A i \in 1..Len(Items) : IsItem(Items[i]) /\ Len(Items[i].blocks) \in Nat \ {0}
         /\ \A j \in 1..Len(Item.blocks) : IsProgram(Item.blocks[j])
         /\ IsItem(Item) /\ IsProgram(Block) /\ Item.def \in BOOLEAN
<1>1. /\ Items \in Seq(ToSet(Items)) \ {<<>>}
      /\ \A item \in ToSet(Items) : IsItem(item)
  BY ScenariosAssumption DEF PlaceInv, Items
<1>2. Len(Items) \in Nat /\ \A i \in 1..Len(Items) : Items[i] \in ToSet(Items)
  BY <1>1 DEF ToSet
<1>3. ASSUME NEW item, IsItem(item)
      PROVE  /\ Len(item.blocks) \in Nat \ {0}
             /\ \A j \in 1..Len(item.blocks) : IsProgram(item.blocks[j])
             /\ item.def \in BOOLEAN
  <2>1. item.blocks \in Seq(ToSet(item.blocks)) \ {<<>>}
    BY <1>3 DEF IsItem
  <2>2. \A j \in 1..Len(item.blocks) : item.blocks[j] \in ToSet(item.blocks)
    BY <2>1 DEF ToSet
  <2> QED
    BY <1>3, <2>1, <2>2 DEF IsItem
<1>4. IsItem(Item)
  BY <1>1, <1>2 DEF PlaceInv, Item
<1> QED
  BY <1>1, <1>2, <1>3, <1>4 DEF PlaceInv, Block

\* The way back to the start moves the motors and waits, or raises if there are positions
\* missing.
ReturnActions(motors, start_pos) ==
  {"set", "wait"} \cup (IF Len(start_pos) < Len(motors) THEN {"raise"} ELSE {})
IsReturnStep(s, actions) == s.device \subseteq Devices /\ s.action \in actions
LEMMA ReturnSteps ==
  ASSUME NEW motors \in Seq(Devices), NEW start_pos \in Seq(Int)
  PROVE  LET steps == ReturnToStart(motors, start_pos)
         IN  /\ Len(steps) \in Nat /\ DOMAIN steps = 1..Len(steps)
             /\ \A k \in DOMAIN steps : IsReturnStep(steps[k], ReturnActions(motors, start_pos))
<1> DEFINE actions == ReturnActions(motors, start_pos)
           p == [i \in DOMAIN start_pos |-> Start(i)]
           MoveStep(i) == [Instr("set", {motors[i]}) EXCEPT !.value = p[i], !.wait_group = "scan_motor"]
           last == [Instr("wait", {}) EXCEPT !.type = "move", !.group = "scan_motor",
                                             !.wait_group = "scan_motor"]
           all == {MoveStep(i) : i \in DOMAIN motors} \cup {Instr("raise", {}), last}
           S == {s \in all : IsReturnStep(s, actions)}
           parts == [i \in DOMAIN motors |->
                      IF i \in DOMAIN p THEN Set(motors[i], p[i], "scan_motor") ELSE Local("raise")]
           tail == Wait("move", "scan_motor", "scan_motor")
<1>1. DOMAIN motors = 1..Len(motors) /\ DOMAIN start_pos = 1..Len(start_pos)
      /\ Len(motors) \in Nat /\ Len(start_pos) \in Nat
  OBVIOUS
<1>2. ASSUME NEW i \in DOMAIN motors PROVE parts[i] \in Seq(S)
  <2>1. CASE i \in DOMAIN p
    <3>1. MoveStep(i).action = "set" /\ MoveStep(i).device = {motors[i]}
      BY DEF Instr
    <3>2. {motors[i]} \subseteq Devices /\ "set" \in actions
      BY <1>1 DEF ReturnActions
    <3>r. IsReturnStep(MoveStep(i), actions)
      <4> HIDE DEF MoveStep, actions
      <4> QED
        BY <3>1, <3>2 DEF IsReturnStep
    <3>3. MoveStep(i) \in S
      BY <3>r
    <3>4. parts[i] = <<MoveStep(i)>>
      BY <2>1 DEF Set
    <3> HIDE DEF S, parts, MoveStep
    <3> QED
      BY <3>3, <3>4
  <2>2. CASE i \notin DOMAIN p
    <3>1. Instr("raise", {}).action = "raise" /\ Instr("raise", {}).device = {}
      BY DEF Instr
    <3>2. IsReturnStep(Instr("raise", {}), actions)
      BY <1>1, <2>2, <3>1 DEF IsReturnStep, ReturnActions
    <3>3. Instr("raise", {}) \in S
      BY <3>2
    <3>4. parts[i] = <<Instr("raise", {})>>
      BY <2>2 DEF Local
    <3> HIDE DEF S, parts
    <3> QED
      BY <3>3, <3>4
  <2> QED
    BY <2>1, <2>2
<1>3. tail \in Seq(S)
  <2>1. last.action = "wait" /\ last.device = {}
    BY DEF Instr
  <2>2. IsReturnStep(last, actions)
    BY <2>1 DEF IsReturnStep, ReturnActions
  <2>3. last \in S
    BY <2>2
  <2>4. tail = <<last>>
    BY DEF Wait
  <2> HIDE DEF S, last, tail
  <2> QED
    BY <2>3, <2>4
<1>s. \A s \in S : IsReturnStep(s, actions)
  OBVIOUS
<1> HIDE DEF S
<1>4. parts \in Seq(Seq(S))
  BY <1>1, <1>2
<1>5. FlattenSeq(parts) \in Seq(S)
  BY <1>4, FlattenType
<1>6. ReturnToStart(motors, start_pos) = IF p = <<>> THEN <<>> ELSE FlattenSeq(parts) \o tail
  BY Zenon DEF ReturnToStart, MoveAndWait
<1> HIDE DEF parts, p, tail
<1>7. <<>> \in Seq(S) /\ FlattenSeq(parts) \o tail \in Seq(S)
  BY <1>3, <1>5
<1>8. ReturnToStart(motors, start_pos) \in Seq(S)
  BY <1>6, <1>7
<1> HIDE DEF actions
<1> QED
  BY <1>8, <1>s DEF actions

\* The steps of a generator.
LEMMA StepFacts ==
  ASSUME PlaceInv, WorkerInv
  PROVE  /\ Len(Steps) \in Nat /\ DOMAIN Steps = 1..Len(Steps)
         /\ \A k \in DOMAIN Steps :
              /\ Steps[k].device \subseteq Devices
              /\ Steps[k].action = "until" => Steps[k].value.plus \in 0..(k - 1)
              /\ work.returning => Steps[k].action \in ReturnActions(Block.motors, scan.start_pos)
<1>1. IsProgram(Block)
  BY PlaceFacts
<1>2. CASE work.returning
  <2>1. scan.start_pos \in Seq(Int) /\ Block.motors \in Seq(Devices)
    BY <1>1 DEF WorkerInv, ScanTypes, IsProgram
  <2>2. Steps = ReturnToStart(Block.motors, scan.start_pos)
    BY <1>2 DEF Steps
  <2>3. "until" \notin ReturnActions(Block.motors, scan.start_pos)
    BY DEF ReturnActions
  <2> QED
    BY <2>1, <2>2, <2>3, ReturnSteps DEF IsReturnStep
<1>3. CASE ~work.returning
  <2>1. Steps = Block.steps
    BY <1>3 DEF Steps
  <2> QED
    BY <1>1, <1>3, <2>1 DEF IsProgram
<1> QED
  BY <1>2, <1>3

-----------------------------------------------------------------------------
(* Types.                                                                  *)

LEMMA AppendFacts ==
  ASSUME NEW q, q \in Seq(ToSet(q)), NEW m
  PROVE  /\ Append(q, m) \in Seq(ToSet(Append(q, m))) /\ ToSet(Append(q, m)) = ToSet(q) \cup {m}
         /\ Len(q) \in Nat /\ Len(Append(q, m)) = Len(q) + 1
         /\ \A i \in 1..Len(q) : Append(q, m)[i] = q[i]
         /\ Append(q, m)[Len(q) + 1] = m
<1> DEFINE S == ToSet(q) \cup {m}
           r == Append(q, m)
<1>1. q \in Seq(S) /\ m \in S
  OBVIOUS
<1> HIDE DEF S
<1>2. /\ Len(q) \in Nat /\ r \in Seq(S) /\ Len(r) = Len(q) + 1
      /\ \A i \in 1..Len(q) : r[i] = q[i]
      /\ r[Len(q) + 1] = m
  BY <1>1
<1> HIDE DEF r
<1>3. ToSet(r) = S
  <2>1. \A x \in ToSet(q) : \E i \in 1..Len(q) : q[i] = x
    BY DEF ToSet
  <2>2. \A x \in S : \E i \in 1..Len(r) : r[i] = x
    BY <1>2, <2>1 DEF S
  <2> QED
    BY <1>2, <2>2 DEF ToSet
<1> QED
  BY <1>2, <1>3 DEF r, S

LEMMA TailFacts ==
  ASSUME NEW q, q \in Seq(ToSet(q)), q # <<>>
  PROVE  /\ Tail(q) \in Seq(ToSet(Tail(q))) /\ ToSet(q) = ToSet(Tail(q)) \cup {Head(q)}
         /\ Len(q) \in Nat \ {0} /\ Len(Tail(q)) = Len(q) - 1 /\ Head(q) = q[1]
         /\ \A i \in 1..(Len(q) - 1) : Tail(q)[i] = q[i + 1]
<1> DEFINE S == ToSet(q)
           r == Tail(q)
<1> HIDE DEF S
<1>1. q \in Seq(S)
  BY DEF S
<1>2. /\ Len(q) \in Nat \ {0} /\ r \in Seq(S) /\ Len(r) = Len(q) - 1 /\ Head(q) = q[1]
      /\ \A i \in 1..(Len(q) - 1) : r[i] = q[i + 1]
  BY <1>1
<1> HIDE DEF r
<1>3. \A i \in 1..Len(r) : r[i] \in ToSet(r)
  BY <1>2 DEF ToSet
<1>4. r \in Seq(ToSet(r))
  BY <1>2, <1>3
<1>5. ToSet(q) = ToSet(r) \cup {Head(q)}
  <2>1. ToSet(r) \subseteq ToSet(q)
    BY <1>2 DEF S, ToSet
  <2>2. Head(q) \in ToSet(q)
    BY <1>1, <1>2 DEF ToSet
  <2>3. ASSUME NEW i \in 1..Len(q) PROVE q[i] \in ToSet(r) \cup {Head(q)}
    <3>1. CASE i = 1
      BY <1>2, <3>1
    <3>2. CASE i # 1
      <4>1. i - 1 \in 1..Len(r) /\ q[i] = r[i - 1]
        BY <1>2, <3>2
      <4> QED
        BY <1>3, <4>1
    <3> QED
      BY <3>1, <3>2
  <2> QED
    BY <1>1, <2>1, <2>2, <2>3 DEF ToSet
<1> QED
  BY <1>2, <1>4, <1>5 DEF r

LEMMA MarkFacts ==
  ASSUME PlaceInv, WorkerInv
  PROVE  /\ KnownMarks \subseteq Marks /\ NoMd \in KnownMarks /\ Md \in KnownMarks
         /\ Md.rid = <<it, bl>> /\ Current(Md) /\ ~Current(NoMd)
<1>1. it \in Nat \ {0} /\ bl \in Nat \ {0} /\ scan.DIID \in Nat
  BY PlaceFacts DEF PlaceInv, WorkerInv, ScanTypes
<1>2. NoMd \in KnownMarks
  BY DEF NoMd, KnownMarks, Known, Marks
<1>3. Md \in Marks /\ Md.rid = <<it, bl>> /\ Md.scan[1] = it /\ (Item.def \/ Md.scan = Md.rid)
  BY <1>1, PlaceFacts DEF Md, Marks
<1>4. Known(Md)
  BY <1>1, <1>3 DEF Known, Item
<1> QED
  BY <1>1, <1>2, <1>3, <1>4 DEF KnownMarks, NoMd, Current

\* An item that is over stays known.
LEMMA MarksKept ==
  ASSUME PlaceInv, scen' = scen, it' \in Nat, it' >= it
  PROVE  KnownMarks \subseteq KnownMarks' /\ NoMd' = NoMd
<1>1. it \in Nat /\ Items' = Items
  BY PlaceFacts DEF PlaceInv, Items
<1>2. ASSUME NEW md, Known(md) PROVE Known(md)'
  <2>1. 1..it \subseteq 1..it'
    BY <1>1
  <2> QED
    BY <1>1, <1>2, <2>1 DEF Known, NoMd
<1> QED
  BY <1>2 DEF KnownMarks, Marks, NoMd

\* The devices and the keys in redis that a step leaves alone.
LEMMA KeptTypes ==
  ASSUME PlaceInv, WorkerInv, scen' = scen, it' \in Nat, it' >= it
  PROVE  /\ DeviceInv /\ UNCHANGED device => DeviceInv'
         /\ RedisInv /\ UNCHANGED redis => RedisInv'
         /\ TaskInv /\ UNCHANGED <<tasks, running, work>> => TaskInv'
         /\ LogInv /\ UNCHANGED log => LogInv'
         /\ WorkerInv /\ UNCHANGED <<scan, cur, work, groups>> => WorkerInv'
<1>1. KnownMarks \subseteq KnownMarks'
  BY MarksKept
<1>2. DeviceInv /\ UNCHANGED device => DeviceInv'
  BY <1>1 DEF DeviceInv, device, Flights, Entries, Marks
<1>3. RedisInv /\ UNCHANGED redis => RedisInv'
  BY <1>1 DEF RedisInv, redis, Entries, Marks
<1>4. TaskInv /\ UNCHANGED <<tasks, running, work>> => TaskInv'
  BY <1>1 DEF TaskInv, InFlight
<1>5. LogInv /\ UNCHANGED log => LogInv'
  BY DEF LogInv, NewLog
<1>6. WorkerInv /\ UNCHANGED <<scan, cur, work, groups>> => WorkerInv'
  BY <1>1 DEF WorkerInv, ScanTypes, WorkTypes
<1> QED
  BY <1>2, <1>3, <1>4, <1>5, <1>6

\* A new instruction is in flight.
Sends(m) == /\ tasks' = Append(tasks, m) /\ running' = running
            /\ m.no = work.sent /\ work'.sent = work.sent + 1
LEMMA SendFacts ==
  ASSUME PlaceInv, WorkerInv, TaskInv, scen' = scen, it' \in Nat, it' >= it, NEW m, Sends(m),
         m.md \in KnownMarks, m.device \subseteq Devices,
         m.action \in {"stage", "unstage"} => m.device = Devices
  PROVE  TaskInv' /\ InFlight' = InFlight \cup {m}
<1>1. KnownMarks \subseteq KnownMarks' /\ work.sent \in Nat
  BY MarksKept DEF WorkerInv, WorkTypes
<1>2. tasks' \in Seq(ToSet(tasks')) /\ InFlight' = InFlight \cup {m}
  BY AppendFacts DEF TaskInv, InFlight, Sends
<1>3. ASSUME NEW n \in InFlight'
      PROVE  /\ n.md \in KnownMarks' /\ n.device \subseteq Devices
             /\ n.no \in Nat /\ n.no < work'.sent
             /\ n.action \in {"stage", "unstage"} => n.device = Devices
  BY <1>1, <1>2, <1>3 DEF TaskInv, Sends
<1> QED
  BY <1>2, <1>3 DEF TaskInv, Sends

-----------------------------------------------------------------------------
(* Types: the worker.                                                      *)

\* A step of the generator that does not raise changes its place and its attributes.
Moves == /\ pc' \in Nat \ {0} /\ scan' \in ScanTypes /\ scan'.start_pos \in Seq(Int)
         /\ ScanKeeps /\ wpc = "pull"
Raises == /\ Raise /\ wpc = "pull"
          /\ work.returning => Len(scan.start_pos) < Len(Block.motors)
LEMMA ScanFields ==
  ASSUME scan \in ScanTypes
  PROVE  /\ \A n \in Int : /\ [scan EXCEPT !.pointID = n] \in ScanTypes
                           /\ [scan EXCEPT !.num_pos = n] \in ScanTypes
                           /\ [scan EXCEPT !.polls = n] \in ScanTypes
                           /\ [scan EXCEPT !.target = n, !.polls = 0] \in ScanTypes
         /\ \A n \in Nat : [scan EXCEPT !.DIID = n, !.fresh = FALSE] \in ScanTypes
<1>1. ASSUME NEW n \in Int PROVE [scan EXCEPT !.pointID = n] \in ScanTypes
  BY DEF ScanTypes
<1>2. ASSUME NEW n \in Int PROVE [scan EXCEPT !.num_pos = n] \in ScanTypes
  BY DEF ScanTypes
<1>3. ASSUME NEW n \in Int PROVE [scan EXCEPT !.polls = n] \in ScanTypes
  BY DEF ScanTypes
<1>4. ASSUME NEW n \in Int PROVE [scan EXCEPT !.target = n, !.polls = 0] \in ScanTypes
  <2>1. [scan EXCEPT !.target = n] \in ScanTypes
    BY DEF ScanTypes
  <2>2. ASSUME NEW s \in ScanTypes, NEW k \in Int PROVE [s EXCEPT !.polls = k] \in ScanTypes
    BY DEF ScanTypes
  <2>3. [scan EXCEPT !.target = n, !.polls = 0] = [[scan EXCEPT !.target = n] EXCEPT !.polls = 0]
    OBVIOUS
  <2>4. 0 \in Int
    OBVIOUS
  <2> HIDE DEF ScanTypes
  <2> QED
    BY <2>1, <2>2, <2>3, <2>4, Zenon
<1>5. ASSUME NEW n \in Nat PROVE [scan EXCEPT !.DIID = n, !.fresh = FALSE] \in ScanTypes
  BY DEF ScanTypes
<1> QED
  BY <1>1, <1>2, <1>3, <1>4, <1>5
LEMMA FieldTypes ==
  /\ scan \in ScanTypes => /\ scan.pointID \in Int /\ scan.num_pos \in Int /\ scan.polls \in Int
                           /\ scan.DIID \in Nat
  /\ scan' \in ScanTypes => scan'.start_pos \in Seq(Int)
BY DEF ScanTypes
LEMMA GeneratorSteps ==
  ASSUME PlaceInv, WorkerInv, DeviceInv, RedisInv, Generator
  PROVE  Moves \/ Raises
<1>1. scan \in ScanTypes /\ pc \in Nat \ {0}
  BY DEF PlaceInv, WorkerInv
<1>2. ASSUME NEW a, AtStep(a)
      PROVE  /\ wpc = "pull" /\ pc \in DOMAIN Steps /\ Step = Steps[pc] /\ Step.action = a
             /\ Step.device \subseteq Devices
             /\ a = "until" => Step.value.plus \in 0..(pc - 1)
             /\ work.returning => a \in ReturnActions(Block.motors, scan.start_pos)
  BY <1>2, StepFacts DEF AtStep, Step
<1>3. ASSUME Next1 PROVE pc' \in Nat \ {0}
  BY <1>1, <1>3 DEF Next1
<1>4. CASE YieldNone
  BY <1>1, <1>2, <1>3, <1>4 DEF YieldNone, Moves, ScanTypes
<1>5. CASE Initialize
  BY <1>1, <1>2, <1>3, <1>5 DEF Initialize, Moves, ScanTypes
<1>6. CASE NewOffset
  <2>1. <<>> \in Seq(Int)
    OBVIOUS
  <2> QED
    BY <1>1, <1>2, <1>3, <1>6, <2>1 DEF NewOffset, Moves, ScanTypes
<1>7. CASE CountPoint
  <2>1. scan.pointID + 1 \in Int
    BY <1>1, FieldTypes
  <2>2. scan' \in ScanTypes
    BY <1>1, <1>7, <2>1, ScanFields, FieldTypes DEF CountPoint
  <2> QED
    BY <1>1, <1>2, <1>3, <1>7, <2>2, ScanFields, FieldTypes DEF CountPoint, Moves
<1>8. CASE CountPosition
  <2>1. scan.num_pos + 1 \in Int
    BY <1>1, FieldTypes
  <2>2. scan' \in ScanTypes
    BY <1>1, <1>8, <2>1, ScanFields, FieldTypes DEF CountPosition
  <2> QED
    BY <1>1, <1>2, <1>3, <1>8, <2>2, ScanFields, FieldTypes DEF CountPosition, Moves
<1>9. CASE SetTarget
  <2>1. scan.DIID - 1 \in Int
    BY <1>1, FieldTypes
  <2>2. scan' \in ScanTypes
    BY <1>1, <1>9, <2>1, ScanFields, FieldTypes DEF SetTarget
  <2> QED
    BY <1>1, <1>2, <1>3, <1>9, <2>2, ScanFields, FieldTypes DEF SetTarget, Moves
<1>10. CASE TakeProgress
  <2>1. PICK f \in Step.device :
          scan' = IF progress[f].md.rid = Md.rid /\ progress[f].n > 0
                    THEN [scan EXCEPT !.num_pos = progress[f].n] ELSE scan
    BY <1>10 DEF TakeProgress
  <2>2. f \in Devices
    BY <1>2, <1>10 DEF TakeProgress
  <2>3. progress[f].n \in Int
    BY <2>2 DEF RedisInv
  <2>4. scan' \in ScanTypes
    BY <1>1, <2>1, <2>3, ScanFields
  <2> QED
    BY <1>1, <1>2, <1>3, <1>10, <2>4, ScanFields, FieldTypes DEF TakeProgress, Moves
<1>11. CASE GetFromRpc
  BY <1>1, <1>2, <1>3, <1>11 DEF GetFromRpc, Moves, ScanTypes
<1>12. CASE AppendStart
  <2>1. PICK r \in replies : scan' = [scan EXCEPT !.start_pos = Append(@, r.value)]
    BY <1>12 DEF AppendStart
  <2>2. Append(scan.start_pos, r.value) \in Seq(Int)
    BY <1>1, <2>1 DEF RedisInv, ScanTypes
  <2> QED
    BY <1>1, <1>2, <1>3, <1>12, <2>1, <2>2 DEF AppendStart, Moves, ScanTypes
<1>13. CASE LeaveLoop
  BY <1>1, <1>2, <1>3, <1>13 DEF LeaveLoop, Moves, ScanTypes
<1>14. CASE NextRound
  <2>1. pc' \in Nat \ {0}
    BY <1>1, <1>2, <1>14 DEF NextRound
  <2>2. scan.polls + 1 \in Int
    BY <1>1, FieldTypes
  <2>3. scan' \in ScanTypes
    BY <1>1, <1>14, <2>2, ScanFields, FieldTypes DEF NextRound
  <2> QED
    BY <1>1, <1>2, <1>14, <2>1, <2>3, ScanFields, FieldTypes DEF NextRound, Moves
<1>15. CASE RaiseStep
  BY <1>2, <1>15 DEF RaiseStep, Raises, ReturnActions
<1>16. CASE LimitsPass
  BY <1>1, <1>2, <1>3, <1>16 DEF LimitsPass, Moves, ScanTypes
<1>17. CASE LimitsFail
  BY <1>2, <1>17 DEF LimitsFail, Raises, ReturnActions
<1>18. CASE Reached
  BY <1>1, <1>2, <1>3, <1>18 DEF Reached, Moves, ScanTypes, AtStep
<1>19. CASE Skipped
  BY <1>2, <1>19 DEF Skipped, Raises, ReturnActions, AtStep
<1> QED
  BY <1>4, <1>5, <1>6, <1>7, <1>8, <1>9, <1>10, <1>11, <1>12, <1>13, <1>14, <1>15, <1>16, <1>17,
     <1>18, <1>19 DEF Generator

\* What every instruction does.
LEMMA PullFacts ==
  ASSUME PlaceInv, WorkerInv, Pull
  PROVE  /\ wpc = "pull" /\ pc' \in Nat \ {0} /\ scan' \in ScanTypes
         /\ \A g \in groups' : g[2] \in Devices /\ g[3] \in Nat
         /\ Step.device \subseteq Devices
         /\ work.returning => Step.action \in {"set", "wait", "raise"}
<1>1. /\ Step.device \subseteq Devices
      /\ work.returning => Step.action \in ReturnActions(Block.motors, scan.start_pos)
  BY StepFacts DEF Pull, Step
<1>2. InstructionDevices(Step) \subseteq Devices
  BY <1>1 DEF InstructionDevices, MonitoredDevices, Devices, WorkerInv, WorkTypes
<1>3. scan.DIID \in Nat
  BY DEF WorkerInv, ScanTypes
<1>4. \A g \in groups' : g[2] \in Devices /\ g[3] \in Nat
  <2>1. \/ groups' \subseteq groups
        \/ groups' \subseteq groups \cup {<<Step.wait_group, d, scan.DIID>> : d \in InstructionDevices(Step)}
    BY DEF Pull
  <2> QED
    BY <1>2, <1>3, <2>1 DEF WorkerInv
<1>5. scan' \in ScanTypes
  <2>1. scan.DIID + 1 \in Nat /\ scan \in ScanTypes /\ scan.DIID + 1 \in Int
    BY <1>3 DEF WorkerInv
  <2> QED
    BY <2>1, ScanFields DEF Pull
<1>6. pc' \in Nat \ {0} /\ wpc = "pull"
  <2>1. Next1 /\ wpc = "pull"
    BY Zenon DEF Pull
  <2> QED
    BY <2>1 DEF Next1, PlaceInv
<1> QED
  BY <1>1, <1>4, <1>5, <1>6 DEF ReturnActions

LEMMA TargetsType ==
  ASSUME PlaceInv, WorkerInv, Pull
  PROVE  Targets(Step) \subseteq Devices
BY PullFacts DEF Targets, MonitoredDevices, Devices, WorkerInv, WorkTypes

\* The attributes of the worker may change one by one.
LEMMA WorkFields ==
  ASSUME NEW K, NEW w \in WorkTypes(K)
  PROVE  /\ w.max_point_id \in Int /\ w.sent \in Nat /\ w.staged \in {{}, Devices}
         /\ \A v \in Nat \X Nat : [w EXCEPT !.scan_id = v] \in WorkTypes(K)
         /\ \A v \in {"", "step", "fly"} : [w EXCEPT !.scan_type = v] \in WorkTypes(K)
         /\ \A v \in SUBSET Devices : [w EXCEPT !.scan_motors = v] \in WorkTypes(K)
         /\ \A v \in SUBSET Devices : [w EXCEPT !.readout = v] \in WorkTypes(K)
         /\ \A v \in Int : [w EXCEPT !.max_point_id = v] \in WorkTypes(K)
         /\ \A v \in {{}, Devices} : [w EXCEPT !.staged = v] \in WorkTypes(K)
         /\ \A v \in BOOLEAN : [w EXCEPT !.returning = v] \in WorkTypes(K)
         /\ \A v \in K : [w EXCEPT !.last_trigger = v] \in WorkTypes(K)
         /\ \A v \in Nat : [w EXCEPT !.sent = v] \in WorkTypes(K)
<1>0. w.max_point_id \in Int /\ w.sent \in Nat /\ w.staged \in {{}, Devices}
  BY DEF WorkTypes
<1>1. ASSUME NEW v \in Nat \X Nat PROVE [w EXCEPT !.scan_id = v] \in WorkTypes(K)
  BY DEF WorkTypes
<1>2. ASSUME NEW v \in {"", "step", "fly"} PROVE [w EXCEPT !.scan_type = v] \in WorkTypes(K)
  BY DEF WorkTypes
<1>3. ASSUME NEW v \in SUBSET Devices PROVE [w EXCEPT !.scan_motors = v] \in WorkTypes(K)
  BY DEF WorkTypes
<1>4. ASSUME NEW v \in SUBSET Devices PROVE [w EXCEPT !.readout = v] \in WorkTypes(K)
  BY DEF WorkTypes
<1>5. ASSUME NEW v \in Int PROVE [w EXCEPT !.max_point_id = v] \in WorkTypes(K)
  BY DEF WorkTypes
<1>6. ASSUME NEW v \in {{}, Devices} PROVE [w EXCEPT !.staged = v] \in WorkTypes(K)
  BY DEF WorkTypes
<1>7. ASSUME NEW v \in BOOLEAN PROVE [w EXCEPT !.returning = v] \in WorkTypes(K)
  BY DEF WorkTypes
<1>8. ASSUME NEW v \in K PROVE [w EXCEPT !.last_trigger = v] \in WorkTypes(K)
  BY DEF WorkTypes
<1>9. ASSUME NEW v \in Nat PROVE [w EXCEPT !.sent = v] \in WorkTypes(K)
  BY DEF WorkTypes
<1> QED
  BY <1>0, <1>1, <1>2, <1>3, <1>4, <1>5, <1>6, <1>7, <1>8, <1>9

\* The attributes after an instruction, and after an item.
LEMMA CountedType ==
  ASSUME PlaceInv, WorkerInv
  PROVE  /\ Counted \in WorkTypes(KnownMarks)
         /\ Counted.sent = work.sent /\ Counted.staged = work.staged
         /\ Counted.returning = work.returning /\ Counted.last_trigger = work.last_trigger
<1>1. work \in WorkTypes(KnownMarks) /\ scan.pointID \in Int /\ work.max_point_id \in Int
  BY FieldTypes, WorkFields DEF WorkerInv
<1>2. Counted \in WorkTypes(KnownMarks)
  BY <1>1, WorkFields DEF Counted
<1>3. \A n : LET w == [work EXCEPT !.max_point_id = n]
             IN  w.sent = work.sent /\ w.staged = work.staged /\ w.returning = work.returning
                 /\ w.last_trigger = work.last_trigger
  OBVIOUS
<1> QED
  BY <1>2, <1>3 DEF Counted
LEMMA ResetType ==
  ASSUME PlaceInv, WorkerInv
  PROVE  /\ Reset \in WorkTypes(KnownMarks) /\ Reset.staged = work.staged /\ Reset.sent = work.sent
         /\ Reset.last_trigger = work.last_trigger /\ ~Reset.returning
<1> DEFINE w1 == [work EXCEPT !.scan_id = NoMd.scan]
           w2 == [w1 EXCEPT !.scan_motors = {}]
           w3 == [w2 EXCEPT !.returning = FALSE]
           w4 == [w3 EXCEPT !.max_point_id = 0]
<1>1. NoMd.scan \in Nat \X Nat /\ work \in WorkTypes(KnownMarks) /\ {} \in SUBSET Devices /\ 0 \in Int
  BY DEF NoMd, WorkerInv
<1>2. Reset = w4
  BY DEF Reset
<1>3. w1 \in WorkTypes(KnownMarks)
  BY <1>1, WorkFields
<1>4. w2 \in WorkTypes(KnownMarks)
  <2> HIDE DEF w1
  <2> QED
    BY <1>1, <1>3, WorkFields
<1>5. w3 \in WorkTypes(KnownMarks)
  <2> HIDE DEF w2
  <2> QED
    BY <1>4, WorkFields
<1>6. w4 \in WorkTypes(KnownMarks)
  <2> HIDE DEF w3
  <2> QED
    BY <1>1, <1>5, WorkFields
<1>7. /\ w4.staged = work.staged /\ w4.sent = work.sent
      /\ w4.last_trigger = work.last_trigger
  OBVIOUS
<1>8. w4.returning = FALSE
  BY <1>1 DEF WorkTypes
<1> QED
  BY <1>2, <1>6, <1>7, <1>8

\* What an instruction that is sent looks like.
LEMMA MessageFacts ==
  ASSUME NEW i, NEW md, NEW devs
  PROVE  LET m == Message(i, md, devs)
         IN  /\ m.md = md /\ m.device = devs /\ m.no = work.sent
             /\ m.action = IF i.action = "baseline_reading" THEN "read" ELSE i.action
BY DEF Message

LEMMA NewScanType ==
  ASSUME NEW b, IsProgram(b), NEW point \in Int
  PROVE  NewScan(b, point) \in ScanTypes
<1>1. [i \in 1..b.zeros |-> 0] \in Seq(Int)
  BY DEF IsProgram
<1>2. b.num_pos \in Int
  BY DEF IsProgram
<1> HIDE DEF IsProgram
<1> QED
  BY <1>1, <1>2 DEF NewScan, ScanTypes

\* The steps of the worker, and the instruction that some of them send.
Stays == UNCHANGED <<scen, it, bl>>
Quiet == UNCHANGED tasks /\ work'.sent = work.sent
LogKept == UNCHANGED <<log>> \/ /\ DOMAIN log' = DOMAIN log /\ log'.early = log.early
                                /\ log'.answered = log.answered /\ log'.overlap = log.overlap

LEMMA InstructionTypes ==
  ASSUME PlaceInv, WorkerInv, LogInv, NEW m, m = Message(Step, Md, Targets(Step)),
         SendInstruction \/ SendAndWait
  PROVE  /\ Stays /\ PlaceInv' /\ WorkerInv' /\ LogInv' /\ LogKept
         /\ Sends(m) /\ m.md = Md /\ m.device \subseteq Devices
         /\ m.action \in {"stage", "unstage"} => m.device = Devices
         /\ SendInstruction => /\ m.action \notin {"stage", "unstage"}
                               /\ work'.staged = work.staged /\ UNCHANGED <<wpc, cur>>
         /\ SendAndWait => /\ m.action = Step.action /\ cur' = [step |-> Step, md |-> Md]
                           /\ Step.action \in {"stage", "unstage", "pre_scan"} /\ wpc' = "wait"
                           /\ Step.action = "stage" => work'.staged = Devices
                           /\ Step.action = "unstage" => work'.staged = {}
                           /\ Step.action = "pre_scan" => work'.staged = work.staged
         /\ work'.returning = work.returning
<1>0. Pull /\ UNCHANGED <<scen, it, bl, status, running>>
  BY Zenon DEF SendInstruction, SendAndWait, Pull
<1>1. /\ pc' \in Nat \ {0} /\ scan' \in ScanTypes /\ wpc = "pull"
      /\ \A g \in groups' : g[2] \in Devices /\ g[3] \in Nat
  BY <1>0, PullFacts
<1>2. /\ m.md = Md /\ m.device = Targets(Step) /\ m.no = work.sent
      /\ m.action = IF Step.action = "baseline_reading" THEN "read" ELSE Step.action
  BY MessageFacts
<1>3. m.device \subseteq Devices
  BY <1>0, <1>2, TargetsType
<1>k. KnownMarks' = KnownMarks
  BY <1>0 DEF KnownMarks, Known, Items, Marks, NoMd
<1>s. work.sent \in Nat
  BY DEF WorkerInv, WorkTypes
<1>n. work.sent \in Nat /\ work.sent + 1 \in Nat /\ Md \in KnownMarks
  BY <1>s, MarkFacts
<1>4. CASE SendInstruction
  <2>1. /\ tasks' = Append(tasks, m) /\ UNCHANGED <<wpc, cur, log>>
        /\ work' = [Counted EXCEPT !.sent = @ + 1,
                       !.last_trigger = IF Step.action = "trigger" THEN Md ELSE @]
        /\ Step.action \in {"set", "read", "trigger", "kickoff", "complete", "baseline_reading", "rpc"}
    BY <1>4 DEF SendInstruction
  <2> DEFINE w1 == [Counted EXCEPT !.sent = work.sent + 1]
             w2 == [w1 EXCEPT !.last_trigger = Md]
  <2>2. w1 \in WorkTypes(KnownMarks)
    BY <1>n, CountedType, WorkFields
  <2>3. w2 \in WorkTypes(KnownMarks)
    <3> HIDE DEF w1
    <3> QED
      BY <1>n, <2>2, WorkFields
  <2>4. work' = w1 \/ work' = w2
    <3>1. [w1 EXCEPT !.last_trigger = w1.last_trigger] = w1
      BY <2>2 DEF WorkTypes
    <3> QED
      BY <2>1, <3>1, CountedType
  <2>5. /\ work' \in WorkTypes(KnownMarks) /\ work'.sent = work.sent + 1
        /\ work'.staged = work.staged /\ work'.returning = work.returning
    <3>1. w1.sent = work.sent + 1 /\ w1.staged = work.staged /\ w1.returning = work.returning
      BY CountedType DEF WorkTypes
    <3>2. w2.sent = w1.sent /\ w2.staged = w1.staged /\ w2.returning = w1.returning
      OBVIOUS
    <3> HIDE DEF w1, w2
    <3> QED
      BY <2>2, <2>3, <2>4, <3>1, <3>2
  <2>6. PlaceInv' /\ WorkerInv' /\ LogInv'
    BY <1>0, <1>1, <1>k, <2>1, <2>5 DEF PlaceInv, WorkerInv, LogInv, NewLog, Items, Item
  <2>7. m.action \notin {"stage", "unstage"}
    BY <1>2, <2>1
  <2>8. ~SendAndWait
    BY <2>1 DEF SendAndWait
  <2> QED
    BY <1>0, <1>2, <1>3, <2>1, <2>5, <2>6, <2>7, <2>8 DEF Stays, Sends, LogKept
<1>5. CASE SendAndWait
  <2>1. /\ tasks' = Append(tasks, Message(Step, Md, Devices)) /\ UNCHANGED log
        /\ cur' = [step |-> Step, md |-> Md] /\ wpc' = "wait"
        /\ Step.action \in {"stage", "unstage", "pre_scan"}
        /\ work' = [work EXCEPT !.sent = @ + 1,
                       !.staged = CASE Step.action = "stage" -> Devices
                                    [] Step.action = "unstage" -> {}
                                    [] OTHER -> @]
    BY <1>5 DEF SendAndWait
  <2>2. Targets(Step) = Devices
    BY <2>1 DEF Targets
  <2>3. PICK v \in {{}, Devices} :
          /\ work' = [work EXCEPT !.sent = work.sent + 1, !.staged = v]
          /\ Step.action = "stage" => v = Devices
          /\ Step.action = "unstage" => v = {}
          /\ Step.action = "pre_scan" => v = work.staged
    <3>1. work.staged \in {{}, Devices}
      BY WorkFields DEF WorkerInv
    <3> QED
      BY <2>1, <3>1
  <2> DEFINE w1 == [work EXCEPT !.sent = work.sent + 1]
             w2 == [w1 EXCEPT !.staged = v]
  <2>4. w1 \in WorkTypes(KnownMarks)
    BY <1>n, WorkFields DEF WorkerInv
  <2>5. w2 \in WorkTypes(KnownMarks)
    <3> HIDE DEF w1
    <3> QED
      BY <2>4, WorkFields
  <2>6. work' = w2
    BY <2>3
  <2>7. w2.sent = work.sent + 1 /\ w2.staged = v /\ w2.returning = work.returning
    <3>1. /\ w1.sent = work.sent + 1 /\ w1.returning = work.returning
          /\ DOMAIN w1 = DOMAIN work /\ "staged" \in DOMAIN work
      BY DEF WorkerInv, WorkTypes
    <3> HIDE DEF w1
    <3> QED
      BY <3>1
  <2> HIDE DEF w1, w2
  <2>8. cur'.md \in KnownMarks
    BY <1>n, <2>1
  <2>9. PlaceInv' /\ WorkerInv' /\ LogInv'
    BY <1>0, <1>1, <1>k, <2>1, <2>5, <2>6, <2>8 DEF PlaceInv, WorkerInv, LogInv, NewLog, Items, Item
  <2>10. Sends(m)
    BY <1>0, <1>2, <2>1, <2>2, <2>6, <2>7 DEF Sends
  <2>11. m.action = Step.action /\ m.device = Devices
    BY <1>2, <2>1, <2>2
  <2>12. ~SendInstruction
    BY <2>1 DEF SendInstruction
  <2> QED
    BY <1>0, <1>2, <2>1, <2>3, <2>6, <2>7, <2>9, <2>10, <2>11, <2>12 DEF Stays, LogKept
<1> QED
  BY <1>4, <1>5

LEMMA OtherInstructionTypes ==
  ASSUME PlaceInv, WorkerInv, LogInv,
         BeginWait \/ OpenScanStep \/ CloseScanStep \/ PublishStep \/ OtherStep
  PROVE  /\ Stays /\ PlaceInv' /\ WorkerInv' /\ LogInv' /\ LogKept
         /\ Quiet /\ work'.staged = work.staged /\ work'.returning = work.returning
         /\ \/ BeginWait /\ cur' = [step |-> Step, md |-> Md] /\ Step.action = "wait" /\ wpc' = "wait"
            \/ UNCHANGED <<wpc, cur>>
            \/ wpc' = "dead" /\ scan'.num_pos = -1
<1>0. Pull /\ UNCHANGED <<scen, it, bl, status, running>>
      /\ scan' = [scan EXCEPT !.DIID = @ + 1, !.fresh = FALSE]
  BY Zenon DEF BeginWait, OpenScanStep, CloseScanStep, PublishStep, OtherStep, Pull
<1>1. /\ pc' \in Nat \ {0} /\ scan' \in ScanTypes /\ wpc = "pull"
      /\ \A g \in groups' : g[2] \in Devices /\ g[3] \in Nat
  BY <1>0, PullFacts
<1>k. KnownMarks' = KnownMarks
  BY <1>0 DEF KnownMarks, Known, Items, Marks, NoMd
<1>n. Md \in KnownMarks /\ work \in WorkTypes(KnownMarks) /\ scan'.num_pos = scan.num_pos
  BY <1>0, MarkFacts DEF WorkerInv
<1>w. ASSUME work' \in WorkTypes(KnownMarks), cur'.md \in KnownMarks,
             wpc' \in {"pull", "wait", "dead"}, DOMAIN log' = DOMAIN log
      PROVE  PlaceInv' /\ WorkerInv' /\ LogInv'
  BY <1>0, <1>1, <1>k, <1>w DEF PlaceInv, WorkerInv, LogInv, NewLog, Items, Item
<1>2. CASE BeginWait
  <2>1. /\ UNCHANGED <<tasks, work, log>> /\ cur' = [step |-> Step, md |-> Md] /\ wpc' = "wait"
        /\ Step.action = "wait" /\ cur'.md = Md
    BY <1>2 DEF BeginWait
  <2> QED
    BY <1>0, <1>2, <1>n, <1>w, <2>1 DEF Stays, Quiet, LogKept
<1>3. CASE OpenScanStep
  <2>1. /\ UNCHANGED <<cur, tasks>>
        /\ wpc' = IF scan.num_pos = -1 THEN "dead" ELSE wpc
    BY <1>3, Zenon DEF OpenScanStep
  <2>2. PICK n, p : log' = [log EXCEPT !.opened = n, !.points = p]
    BY <1>3 DEF OpenScanStep
  <2>3. LogKept /\ DOMAIN log' = DOMAIN log
    BY <2>2 DEF LogKept
  <2> DEFINE c == IF Item.def THEN work.max_point_id ELSE 0
             w == [work EXCEPT !.max_point_id = c]
             w1 == [w EXCEPT !.scan_id = Md.scan]
             w2 == [w1 EXCEPT !.scan_type = Block.type]
             w3 == [w2 EXCEPT !.scan_motors = ToSet(Block.motors)]
             w4 == [w3 EXCEPT !.readout = ToSet(Block.motors)]
  <2>4. work' = w \/ work' = w4
    <3>1. work' = IF work.scan_id = NoMd.scan
                    THEN [w EXCEPT !.scan_id = Md.scan, !.scan_type = Block.type,
                            !.scan_motors = ToSet(Block.motors), !.readout = ToSet(Block.motors)]
                    ELSE w
      BY <1>3, Zenon DEF OpenScanStep
    <3> HIDE DEF w
    <3> QED
      BY <3>1
  <2>5. /\ Md.scan \in Nat \X Nat /\ Block.type \in {"", "step", "fly"}
        /\ ToSet(Block.motors) \in SUBSET Devices
    <3>1. IsProgram(Block) /\ Md \in Marks
      BY <1>n, PlaceFacts, MarkFacts
    <3>2. ToSet(Block.motors) \subseteq Devices
      BY <3>1 DEF IsProgram, ToSet
    <3>3. Md.scan \in Nat \X Nat
      BY <3>1 DEF Marks
    <3>4. Block.type \in {"", "step", "fly"}
      BY <3>1 DEF IsProgram
    <3> QED
      BY <3>2, <3>3, <3>4
  <2>6. c \in Int
    <3>1. work.max_point_id \in Int
      BY <1>n DEF WorkTypes
    <3> QED
      BY <3>1
  <2>7. w \in WorkTypes(KnownMarks)
    <3> HIDE DEF c
    <3> QED
      BY <1>n, <2>6, WorkFields
  <2>8. w1 \in WorkTypes(KnownMarks)
    <3> HIDE DEF w
    <3> QED
      BY <2>5, <2>7, WorkFields
  <2>9. w2 \in WorkTypes(KnownMarks)
    <3> HIDE DEF w1
    <3> QED
      BY <2>5, <2>8, WorkFields
  <2>10. w3 \in WorkTypes(KnownMarks)
    <3> HIDE DEF w2
    <3> QED
      BY <2>5, <2>9, WorkFields
  <2>11. w4 \in WorkTypes(KnownMarks)
    <3> HIDE DEF w3
    <3> QED
      BY <2>5, <2>10, WorkFields
  <2>12. /\ w.sent = work.sent /\ w.staged = work.staged /\ w.returning = work.returning
         /\ w4.sent = work.sent /\ w4.staged = work.staged /\ w4.returning = work.returning
    OBVIOUS
  <2> HIDE DEF w, w4
  <2>13. /\ work' \in WorkTypes(KnownMarks) /\ Quiet /\ work'.staged = work.staged
         /\ work'.returning = work.returning
    BY <2>1, <2>4, <2>7, <2>11, <2>12 DEF Quiet
  <2> QED
    BY <1>0, <1>1, <1>n, <1>w, <2>1, <2>3, <2>13 DEF Stays, WorkerInv
<1>4. CASE CloseScanStep
  <2>1. PICK closing, num, e :
             /\ closing \in BOOLEAN /\ num \in BOOLEAN
             /\ UNCHANGED <<cur, tasks>>
             /\ work' = IF closing THEN [work EXCEPT !.scan_id = NoMd.scan] ELSE work
             /\ wpc' = IF closing /\ num /\ scan.num_pos = -1 THEN "dead" ELSE wpc
             /\ log' = IF closing THEN [log EXCEPT !.ends = e] ELSE log
    BY <1>4 DEF CloseScanStep
  <2>2. LogKept /\ DOMAIN log' = DOMAIN log
    BY <2>1 DEF LogKept
  <2>3. /\ work' \in WorkTypes(KnownMarks) /\ Quiet /\ work'.staged = work.staged
        /\ work'.returning = work.returning
    <3>1. NoMd.scan \in Nat \X Nat
      BY DEF NoMd
    <3>2. [work EXCEPT !.scan_id = NoMd.scan] \in WorkTypes(KnownMarks)
      BY <1>n, <3>1, WorkFields
    <3> QED
      BY <1>n, <2>1, <3>2 DEF Quiet
  <2>4. wpc' = wpc \/ (wpc' = "dead" /\ scan.num_pos = -1)
    BY <2>1
  <2> QED
    BY <1>0, <1>1, <1>n, <1>w, <2>1, <2>2, <2>3, <2>4 DEF Stays, WorkerInv
<1>5. CASE PublishStep
  <2>1. UNCHANGED <<wpc, cur, tasks>> /\ work' = Counted
    BY <1>5 DEF PublishStep
  <2>2. PICK p : log' = [log EXCEPT !.points = p]
    BY <1>5 DEF PublishStep
  <2>3. LogKept /\ DOMAIN log' = DOMAIN log
    BY <2>2 DEF LogKept
  <2> QED
    BY <1>0, <1>1, <1>n, <1>w, <2>1, <2>3, CountedType DEF Stays, WorkerInv, Quiet
<1>6. CASE OtherStep
  <2>1. UNCHANGED <<wpc, cur, tasks, work, log>>
    BY <1>6 DEF OtherStep
  <2> QED
    BY <1>0, <1>1, <1>n, <1>w, <2>1 DEF Stays, WorkerInv, Quiet, LogKept
<1> QED
  BY <1>2, <1>3, <1>4, <1>5, <1>6

\* The other steps of the worker.
LEMMA ItemTypes ==
  ASSUME PlaceInv, WorkerInv, NextItem, wpc # "done"
  PROVE  /\ scen' = scen /\ it' \in Nat /\ it' >= it /\ PlaceInv' /\ scan' \in ScanTypes
         /\ groups' = {} /\ DOMAIN log' = DOMAIN log /\ LogKept
         /\ UNCHANGED <<cur, running, device, redis, reordered>>
         /\ \/ wpc' = "pull" /\ it' = it + 1
            \/ wpc' = "done"
<1>1. /\ UNCHANGED <<scen, cur, running, device, redis, reordered>> /\ groups' = {}
      /\ status' = "RUNNING" /\ log' = [log EXCEPT !.home = pos, !.returned = FALSE]
      /\ \/ /\ it < Len(Items) /\ it' = it + 1 /\ bl' = 1 /\ pc' = 1 /\ wpc' = "pull"
            /\ scan' = NewScan(Items[it + 1].blocks[1], 0)
         \/ wpc' = "done" /\ UNCHANGED <<it, bl, pc, scan>>
  BY DEF NextItem
<1>2. DOMAIN log' = DOMAIN log /\ LogKept
  BY <1>1 DEF LogKept
<1>3. Items' = Items /\ it \in Nat /\ Len(Items) \in Nat
  BY <1>1, PlaceFacts DEF Items, PlaceInv
<1>4. CASE /\ it < Len(Items) /\ it' = it + 1 /\ bl' = 1 /\ pc' = 1 /\ wpc' = "pull"
           /\ scan' = NewScan(Items[it + 1].blocks[1], 0)
  <2>1. /\ it + 1 \in 1..Len(Items) /\ IsItem(Items[it + 1])
        /\ Len(Items[it + 1].blocks) \in Nat \ {0}
    BY <1>3, <1>4, PlaceFacts
  <2>2. IsProgram(Items[it + 1].blocks[1])
    <3>1. Items[it + 1].blocks[1] \in ToSet(Items[it + 1].blocks)
      BY <2>1 DEF IsItem, ToSet
    <3> QED
      BY <2>1, <3>1 DEF IsItem
  <2>3. scan' \in ScanTypes
    BY <1>4, <2>2, NewScanType
  <2>4. Item' = Items[it + 1]
    BY <1>3, <1>4 DEF Item
  <2>5. PlaceInv'
    BY <1>1, <1>3, <1>4, <2>1, <2>4 DEF PlaceInv
  <2> QED
    BY <1>1, <1>2, <1>3, <1>4, <2>3, <2>5
<1>5. CASE wpc' = "done" /\ UNCHANGED <<it, bl, pc, scan>>
  <2>1. PlaceInv'
    BY <1>1, <1>3, <1>5 DEF PlaceInv, Item
  <2> QED
    BY <1>1, <1>2, <1>3, <1>5, <2>1 DEF WorkerInv
<1> QED
  BY <1>1, <1>4, <1>5

\* The clean-up: nobody waits for this unstage.
CleanUp == Message(Instr("unstage", {}), NoMd, IF work.staged = {} THEN Devices ELSE work.staged)
LEMMA AbortedTypes ==
  ASSUME PlaceInv, WorkerInv, Aborted
  PROVE  /\ Sends(CleanUp) /\ CleanUp.md = NoMd /\ CleanUp.device = Devices
         /\ CleanUp.action = "unstage" /\ WorkerInv'
         /\ work'.staged = {} /\ ~work'.returning
<1>1. /\ wpc = "aborted" /\ NextItem /\ work' = [Reset EXCEPT !.staged = {}, !.sent = @ + 1]
      /\ tasks' = Append(tasks, CleanUp)
  BY DEF Aborted, CleanUp
<1>2. /\ scen' = scen /\ it' \in Nat /\ it' >= it /\ scan' \in ScanTypes
      /\ groups' = {} /\ UNCHANGED <<cur, running>>
  BY <1>1, ItemTypes
<1>3. /\ Reset \in WorkTypes(KnownMarks) /\ Reset.staged = work.staged /\ Reset.sent = work.sent
      /\ ~Reset.returning
  BY ResetType
<1>4. work.sent \in Nat /\ work.staged \in {{}, Devices}
  BY DEF WorkerInv, WorkTypes
<1> DEFINE w1 == [Reset EXCEPT !.staged = {}]
           w2 == [w1 EXCEPT !.sent = work.sent + 1]
<1>5. w1 \in WorkTypes(KnownMarks)
  BY <1>3, WorkFields
<1>6. w2 \in WorkTypes(KnownMarks)
  <2>1. work.sent + 1 \in Nat
    BY <1>4
  <2> HIDE DEF w1
  <2> QED
    BY <1>5, <2>1, WorkFields
<1>7. work' = w2
  BY <1>1, <1>3
<1>8. w2.sent = work.sent + 1 /\ w2.staged = {} /\ ~w2.returning
  <2>1. w1.staged = {} /\ w1.returning = Reset.returning /\ DOMAIN w1 = DOMAIN Reset
        /\ "sent" \in DOMAIN Reset
    BY <1>3 DEF WorkTypes
  <2> HIDE DEF w1
  <2> QED
    BY <1>3, <2>1
<1> HIDE DEF w1, w2
<1>9. /\ CleanUp.md = NoMd /\ CleanUp.no = work.sent /\ CleanUp.action = "unstage"
      /\ CleanUp.device = Devices
  <2>1. Instr("unstage", {}).action = "unstage"
    BY DEF Instr
  <2>2. (IF work.staged = {} THEN Devices ELSE work.staged) = Devices
    BY <1>4
  <2> QED
    BY <2>1, <2>2, MessageFacts DEF CleanUp
<1>10. KnownMarks \subseteq KnownMarks'
  BY <1>2, MarksKept
<1>11. WorkerInv'
  <2>1. work' \in WorkTypes(KnownMarks')
    BY <1>6, <1>7, <1>10 DEF WorkTypes
  <2> QED
    BY <1>2, <1>10, <2>1 DEF WorkerInv, ScanTypes
<1> QED
  BY <1>1, <1>2, <1>7, <1>8, <1>9, <1>11 DEF Sends

LEMMA ControlTypes ==
  ASSUME PlaceInv, WorkerInv, LogInv,
         EndWait \/ MovementFailed \/ CheckForInterruption \/ EndBlock \/ BeginReturn \/ EndReturn
  PROVE  /\ Stays \/ (EndBlock /\ scen' = scen /\ it' = it)
         /\ PlaceInv' /\ WorkerInv' /\ LogInv'
         /\ UNCHANGED <<cur, tasks, running, device, redis, reordered>>
         /\ Quiet /\ work'.staged = work.staged
         /\ EndWait \/ LogKept
         /\ \/ EndWait \/ EndBlock
            \/ wpc' \in {"abort", "aborted"}
            \/ work'.returning
         /\ EndWait \/ EndBlock => work' = work
<1>1. UNCHANGED <<scen, it, cur, tasks, running, device, redis, reordered>>
  BY DEF EndWait, MovementFailed, CheckForInterruption, EndBlock, BeginReturn, EndReturn, place
<1>k. KnownMarks' = KnownMarks /\ Items' = Items
  BY <1>1 DEF KnownMarks, Known, Items, Marks, NoMd
<1>w. ASSUME UNCHANGED <<bl, scan>>, work' \in WorkTypes(KnownMarks), groups' \subseteq groups,
             wpc' \in {"pull", "abort", "aborted", "dead"}, DOMAIN log' = DOMAIN log,
             pc' \in Nat \ {0}, status' \in {"RUNNING", "STOPPED"}
      PROVE  PlaceInv' /\ WorkerInv' /\ LogInv'
  BY <1>1, <1>k, <1>w DEF PlaceInv, WorkerInv, LogInv, NewLog, Item
<1>t. work \in WorkTypes(KnownMarks) /\ pc \in Nat \ {0} /\ status \in {"RUNNING", "STOPPED"}
  BY DEF WorkerInv, PlaceInv
<1>2. CASE EndWait
  <2>1. /\ UNCHANGED <<it, bl, pc, scan, work, status>> /\ wpc' = "pull" /\ groups' = groups \ Awaited
        /\ log' = log \/ log' = [log EXCEPT !.early = @ \cup {<<Type, it>>}]
    BY <1>2 DEF EndWait, place
  <2>2. DOMAIN log' = DOMAIN log
    BY <2>1
  <2> QED
    BY <1>1, <1>2, <1>t, <1>w, <2>1, <2>2 DEF Stays, Quiet
<1>3. CASE MovementFailed
  <2>1. /\ UNCHANGED <<it, bl, pc, scan, work, status, groups, log>> /\ wpc' = "abort"
    BY <1>3 DEF MovementFailed, place
  <2>2. ~EndWait /\ ~EndBlock
    BY <2>1 DEF EndWait, EndBlock, BlockEnds
  <2> QED
    BY <1>1, <1>t, <1>w, <2>1, <2>2 DEF Stays, Quiet, LogKept
<1>4. CASE CheckForInterruption
  <2>1. /\ UNCHANGED <<it, bl, pc, scan, work, status, groups, log>> /\ wpc' = "abort"
    BY <1>4 DEF CheckForInterruption, place
  <2>2. ~EndWait /\ ~EndBlock
    BY <2>1 DEF EndWait, EndBlock, BlockEnds
  <2> QED
    BY <1>1, <1>t, <1>w, <2>1, <2>2 DEF Stays, Quiet, LogKept
<1>5. CASE EndBlock
  <2>1. /\ UNCHANGED <<it, wpc, work, status, groups, log>> /\ bl < Len(Item.blocks) /\ bl' = bl + 1
        /\ pc' = 1 /\ scan' = NewScan(Item.blocks[bl + 1], IF Item.def THEN scan.pointID ELSE 0)
    BY <1>5 DEF EndBlock
  <2>2. bl \in Nat \ {0} /\ Len(Item.blocks) \in Nat /\ bl + 1 \in 1..Len(Item.blocks)
    BY <2>1, PlaceFacts DEF PlaceInv
  <2>3. IsProgram(Item.blocks[bl + 1]) /\ scan.pointID \in Int
    BY <2>2, PlaceFacts, FieldTypes DEF WorkerInv
  <2>4. scan' \in ScanTypes
    BY <2>1, <2>3, NewScanType
  <2>5. PlaceInv' /\ WorkerInv' /\ LogInv'
    BY <1>1, <1>k, <2>1, <2>2, <2>4 DEF PlaceInv, WorkerInv, LogInv, NewLog, Item
  <2> QED
    BY <1>1, <1>5, <2>1, <2>5 DEF Quiet, LogKept
<1>6. CASE BeginReturn
  <2>1. /\ UNCHANGED <<it, bl, scan, log>> /\ groups' = {} /\ wpc = "abort"
        /\ \/ wpc' = "aborted" /\ UNCHANGED <<pc, work, status>>
           \/ /\ wpc' = IF Block.back THEN "pull" ELSE "dead"
              /\ pc' = 1 /\ status' = "RUNNING" /\ work' = [work EXCEPT !.returning = TRUE]
    BY <1>6 DEF BeginReturn
  <2>2. [work EXCEPT !.returning = TRUE] \in WorkTypes(KnownMarks)
    BY <1>t, WorkFields
  <2>3. work' \in WorkTypes(KnownMarks) /\ (wpc' # "aborted" => work'.returning)
        /\ work'.sent = work.sent /\ work'.staged = work.staged
    BY <1>t, <2>1, <2>2 DEF WorkTypes
  <2>4. ~EndWait /\ ~EndBlock
    BY <2>1 DEF EndWait, EndBlock, BlockEnds
  <2> QED
    BY <1>1, <1>t, <1>w, <2>1, <2>3, <2>4 DEF Stays, Quiet, LogKept
<1>7. CASE EndReturn
  <2>1. /\ UNCHANGED <<it, bl, pc, scan, work, status, groups>> /\ wpc' = "aborted"
        /\ \E r : log' = [log EXCEPT !.returned = r]
    BY <1>7 DEF EndReturn, place
  <2>2. DOMAIN log' = DOMAIN log /\ LogKept
    BY <2>1 DEF LogKept
  <2>3. ~EndWait /\ ~EndBlock
    BY <1>7 DEF EndReturn, EndWait, EndBlock, BlockEnds
  <2> QED
    BY <1>1, <1>t, <1>w, <2>1, <2>2, <2>3 DEF Stays, Quiet
<1> QED
  BY <1>2, <1>3, <1>4, <1>5, <1>6, <1>7

\* The thread of the worker, whatever it does.
LEMMA WorkerTypes ==
  ASSUME TypeInv, Worker
  PROVE  TypeInv' /\ scen' = scen /\ it' \in Nat /\ it' >= it /\ UNCHANGED <<running, device, redis, reordered>>
<1> USE DEF TypeInv
<1>1. ASSUME scen' = scen, it' \in Nat, it' >= it, PlaceInv', WorkerInv', TaskInv', LogInv',
             UNCHANGED <<running, device, redis, reordered>>
      PROVE  TypeInv' /\ scen' = scen /\ it' \in Nat /\ it' >= it
             /\ UNCHANGED <<running, device, redis, reordered>>
  BY <1>1, KeptTypes
<1>i. it \in Nat /\ it >= it
  BY PlaceFacts DEF PlaceInv
<1>q. ASSUME UNCHANGED <<scen, it, tasks, running>>, work'.sent = work.sent PROVE TaskInv'
  <2>1. KnownMarks' = KnownMarks /\ InFlight' = InFlight
    BY <1>q DEF KnownMarks, Known, Items, Marks, NoMd, InFlight
  <2> QED
    BY <1>q, <2>1 DEF TaskInv
<1>2. CASE Generator
  <2>1. Moves \/ Raises
    BY <1>2, GeneratorSteps
  <2>2. UNCHANGED <<scen, it, bl, cur, work, groups, status, tasks, running, device, redis, reordered, log>>
    BY <2>1 DEF Moves, Raises, Raise, ScanKeeps, place
  <2>3. scan' \in ScanTypes /\ pc' \in Nat \ {0} /\ wpc' \in {"pull", "dead", "abort"}
    BY <2>1 DEF Moves, Raises, Raise, ScanKeeps, PlaceInv, WorkerInv, place
  <2>4. KnownMarks' = KnownMarks /\ Items' = Items
    BY <2>2 DEF KnownMarks, Known, Items, Marks, NoMd
  <2>5. PlaceInv' /\ WorkerInv' /\ LogInv'
    BY <2>2, <2>3, <2>4 DEF PlaceInv, WorkerInv, LogInv, NewLog, Item
  <2> QED
    BY <1>1, <1>i, <1>q, <2>2, <2>5
<1>3. CASE SendInstruction \/ SendAndWait
  <2> DEFINE m == Message(Step, Md, Targets(Step))
  <2>1. UNCHANGED <<device, redis, reordered>>
    BY <1>3, Zenon DEF SendInstruction, SendAndWait, Pull
  <2>2. /\ Stays /\ PlaceInv' /\ WorkerInv' /\ LogInv' /\ Sends(m) /\ m.md = Md
        /\ m.device \subseteq Devices /\ (m.action \in {"stage", "unstage"} => m.device = Devices)
    BY <1>3, InstructionTypes
  <2> HIDE DEF m
  <2>3. Md \in KnownMarks /\ UNCHANGED <<scen, it>>
    BY <2>2, MarkFacts DEF Stays
  <2>4. TaskInv'
    BY <1>i, <2>2, <2>3, SendFacts
  <2> QED
    BY <1>1, <1>i, <2>1, <2>2, <2>3, <2>4 DEF Sends
<1>4. CASE BeginWait \/ OpenScanStep \/ CloseScanStep \/ PublishStep \/ OtherStep
  <2>1. UNCHANGED <<running, device, redis, reordered>>
    BY <1>4, Zenon DEF BeginWait, OpenScanStep, CloseScanStep, PublishStep, OtherStep, Pull
  <2>2. Stays /\ PlaceInv' /\ WorkerInv' /\ LogInv' /\ Quiet
    BY <1>4, OtherInstructionTypes
  <2> QED
    BY <1>1, <1>i, <1>q, <2>1, <2>2 DEF Stays, Quiet
<1>5. CASE EndWait \/ MovementFailed \/ CheckForInterruption \/ EndBlock \/ BeginReturn \/ EndReturn
  <2>1. /\ UNCHANGED <<scen, it, running, device, redis, reordered>>
        /\ PlaceInv' /\ WorkerInv' /\ LogInv' /\ Quiet
    BY <1>5, ControlTypes DEF Stays
  <2> QED
    BY <1>1, <1>i, <1>q, <2>1 DEF Quiet
<1>6. CASE EndItem
  <2>1. NextItem /\ work' = Reset /\ UNCHANGED tasks /\ wpc # "done"
    BY <1>6 DEF EndItem, BlockEnds
  <2>2. /\ scen' = scen /\ it' \in Nat /\ it' >= it /\ PlaceInv' /\ scan' \in ScanTypes
        /\ groups' = {} /\ DOMAIN log' = DOMAIN log
        /\ UNCHANGED <<cur, running, device, redis, reordered>>
    BY <2>1, ItemTypes
  <2>3. KnownMarks \subseteq KnownMarks'
    BY <2>2, MarksKept
  <2>4. work' \in WorkTypes(KnownMarks') /\ work'.sent = work.sent
    BY <2>1, <2>3, ResetType DEF WorkTypes
  <2>5. WorkerInv'
    BY <2>2, <2>3, <2>4 DEF WorkerInv, ScanTypes
  <2>6. TaskInv'
    BY <2>1, <2>2, <2>3, <2>4 DEF TaskInv, InFlight
  <2>7. LogInv'
    BY <2>2 DEF LogInv, NewLog
  <2> QED
    BY <1>1, <2>2, <2>5, <2>6, <2>7
<1>7. CASE Aborted
  <2>1. NextItem /\ wpc # "done"
    BY <1>7 DEF Aborted
  <2>2. /\ scen' = scen /\ it' \in Nat /\ it' >= it /\ PlaceInv' /\ DOMAIN log' = DOMAIN log
        /\ UNCHANGED <<cur, running, device, redis, reordered>>
    BY <2>1, ItemTypes
  <2>3. /\ Sends(CleanUp) /\ CleanUp.md = NoMd /\ CleanUp.device = Devices
        /\ CleanUp.action = "unstage" /\ WorkerInv'
    BY <1>7, AbortedTypes
  <2>4. NoMd \in KnownMarks
    BY MarkFacts
  <2>5. TaskInv'
    BY <2>2, <2>3, <2>4, SendFacts
  <2>6. LogInv'
    BY <2>2 DEF LogInv, NewLog
  <2> QED
    BY <1>1, <2>2, <2>3, <2>5, <2>6
<1> QED
  BY <1>2, <1>3, <1>4, <1>5, <1>6, <1>7 DEF Worker

-----------------------------------------------------------------------------
(* Types: the device server and the devices.                               *)

\* They leave the worker alone.
LEMMA WorkerKept ==
  ASSUME TypeInv, WorkerKeeps
  PROVE  /\ UNCHANGED <<scen, it, bl, wpc, work, cur>> /\ KnownMarks' = KnownMarks
         /\ PlaceInv' /\ WorkerInv'
<1>1. UNCHANGED <<scen, it, bl, pc, wpc, scan, work, cur, groups, status>>
  BY DEF WorkerKeeps, place
<1>2. KnownMarks' = KnownMarks /\ Items' = Items
  BY <1>1 DEF KnownMarks, Known, Items, Marks, NoMd
<1> QED
  BY <1>1, <1>2 DEF TypeInv, PlaceInv, WorkerInv, Item

LEMMA StartTypes ==
  ASSUME TypeInv, StartTask
  PROVE  /\ TypeInv' /\ WorkerKeeps /\ tasks # <<>> /\ tasks' = Tail(tasks) /\ InFlight' \subseteq InFlight
         /\ Head(tasks) \in InFlight
         /\ UNCHANGED <<pos, goal, flight, exposing, settling, stagedDevs, redis, stopMsg, reordered>>
<1> DEFINE m == Head(tasks)
<1>1. /\ tasks # <<>> /\ tasks' = Tail(tasks)
      /\ metadata' = [d \in Devices |-> IF d \in m.device THEN m.md ELSE metadata[d]]
      /\ running' = running \/ running' = running \cup {[m |-> m, saved |-> stdout, replied |-> FALSE]}
      /\ DOMAIN log' = DOMAIN log
      /\ WorkerKeeps
      /\ UNCHANGED <<pos, goal, flight, exposing, settling, stagedDevs, redis, stopMsg, reordered>>
  BY DEF StartTask
<1>2. /\ KnownMarks' = KnownMarks /\ PlaceInv' /\ WorkerInv' /\ work' = work
  BY <1>1, WorkerKept
<1>3. /\ Tail(tasks) \in Seq(ToSet(Tail(tasks))) /\ ToSet(tasks) = ToSet(Tail(tasks)) \cup {m}
  BY <1>1, TailFacts DEF TypeInv, TaskInv
<1> HIDE DEF m
<1>4. m \in InFlight /\ InFlight' \subseteq InFlight
  <2>1. {t.m : t \in running'} \subseteq {t.m : t \in running} \cup {m}
    BY <1>1
  <2> QED
    BY <1>1, <1>3, <2>1 DEF InFlight
<1>5. TaskInv'
  BY <1>1, <1>2, <1>3, <1>4 DEF TypeInv, TaskInv
<1>6. DeviceInv'
  <2>1. m.md \in Marks
    BY <1>4, MarkFacts DEF TypeInv, TaskInv
  <2>2. metadata' \in [Devices -> Marks]
    BY <1>1, <2>1 DEF TypeInv, DeviceInv
  <2> QED
    BY <1>1, <1>2, <2>2 DEF TypeInv, DeviceInv, Marks
<1>7. RedisInv' /\ LogInv'
  BY <1>1, <1>2 DEF TypeInv, RedisInv, LogInv, NewLog, redis, Marks
<1> QED
  BY <1>1, <1>2, <1>4, <1>5, <1>6, <1>7 DEF TypeInv, m

\* Handling an instruction takes it from the thread.
LEMMA HandleFacts ==
  ASSUME TypeInv, NEW t \in running, NEW action, Handles(t, action)
  PROVE  /\ WorkerKeeps /\ UNCHANGED <<tasks, stopMsg>> /\ running' = running \ {t} /\ TaskInv'
         /\ InFlight' \subseteq InFlight /\ t.m \in InFlight
         /\ t.m.md \in KnownMarks /\ t.m.device \subseteq Devices
<1>1. WorkerKeeps /\ UNCHANGED <<tasks, stopMsg>> /\ running' = running \ {t}
  BY DEF Handles, ServerKeeps
<1>2. KnownMarks' = KnownMarks /\ work' = work
  BY <1>1, WorkerKept
<1>3. InFlight' \subseteq InFlight /\ t.m \in InFlight
  BY <1>1 DEF InFlight
<1> QED
  BY <1>1, <1>2, <1>3 DEF TypeInv, TaskInv

\* A handler answers for its devices.
LEMMA InType ==
  ASSUME NEW t, NEW K, NEW e \in Entries(K), NEW f \in [Devices -> Entries(K)]
  PROVE  /\ In(t, e, f) \in [Devices -> Entries(K)]
         /\ \A d \in Devices : In(t, e, f)[d] = IF d \in t.m.device THEN e ELSE f[d]
<1> HIDE DEF Entries
<1> QED
  BY DEF In
LEMMA EntryType ==
  ASSUME NEW K, NEW md \in K, NEW on \in BOOLEAN
  PROVE  Entry(md, on) \in Entries(K) /\ Entry(md, on).md = md /\ Entry(md, on).on = on /\ Entry(md, on).set
BY DEF Entry, Entries

LEMMA HandleTypes ==
  ASSUME TypeInv, HandleTask
  PROVE  TypeInv' /\ WorkerKeeps /\ UNCHANGED stopMsg
<1> SUFFICES ASSUME NEW t \in running,
                    \/ SetDevice(t) \/ ReadDevice(t) \/ TriggerDevice(t) \/ KickoffDevice(t)
                    \/ CompleteDevice(t) \/ PreScanDevice(t) \/ StageDevice(t) \/ UnstageDevice(t)
                    \/ RunRpc(t) \/ RestoreStdout(t)
             PROVE  TypeInv' /\ WorkerKeeps /\ UNCHANGED stopMsg
  BY DEF HandleTask
<1>0. /\ PlaceInv /\ WorkerInv /\ KnownMarks \subseteq Marks
      /\ RedisInv /\ DeviceInv /\ LogInv
  BY MarkFacts DEF TypeInv
<1>1. ASSUME NEW action, Handles(t, action), DeviceInv', RedisInv', DOMAIN log' = DOMAIN log
      PROVE  TypeInv' /\ WorkerKeeps /\ UNCHANGED stopMsg
  <2>1. LogInv'
    BY <1>0, <1>1 DEF LogInv, NewLog
  <2> QED
    BY <1>1, <2>1, HandleFacts, WorkerKept DEF TypeInv
<1>k. ASSUME NEW action, Handles(t, action)
      PROVE  /\ KnownMarks' = KnownMarks /\ t.m.md \in KnownMarks /\ t.m.md \in Marks
  BY <1>0, <1>k, HandleFacts, WorkerKept
<1>d. ASSUME KnownMarks' = KnownMarks PROVE /\ UNCHANGED device => DeviceInv'
                                            /\ UNCHANGED redis => RedisInv'
                                            /\ Marks' = Marks
  BY <1>0, <1>d DEF DeviceInv, RedisInv, device, redis, Marks, Entries, Flights
<1>e. \A md \in KnownMarks : /\ Entry(md, TRUE) \in Entries(KnownMarks)
                             /\ Entry(md, FALSE) \in Entries(KnownMarks)
  BY EntryType
<1>m. \A md \in Marks : /\ Entry(md, TRUE) \in Entries(Marks)
                        /\ Entry(md, FALSE) \in Entries(Marks)
  BY EntryType
<1>2. CASE SetDevice(t)
  <2>1. /\ Handles(t, "set") /\ DOMAIN log' = DOMAIN log
        /\ goal' = In(t, [md |-> t.m.md, to |-> t.m.value, moves |-> TRUE, response |-> t.m.response], goal)
        /\ sts' = [d \in Devices |-> IF d \in t.m.device THEN Entry(metadata[d], TRUE) ELSE sts[d]]
        /\ UNCHANGED <<metadata, stdout, pos, flight, exposing, settling, stagedDevs,
                       req, staged, reported, replies, progress>>
    BY <1>2 DEF SetDevice
  <2>2. KnownMarks' = KnownMarks /\ t.m.md \in KnownMarks
    BY <1>k, <2>1
  <2>3. \A d \in Devices : metadata[d] \in Marks /\ sts[d] \in Entries(Marks)
    BY <1>0 DEF DeviceInv, RedisInv
  <2>4. sts' \in [Devices -> Entries(Marks)]
    <3> HIDE DEF Entries
    <3> QED
      BY <1>m, <2>1, <2>3
  <2>5. /\ DOMAIN goal' = Devices
        /\ \A d \in Devices : /\ DOMAIN goal'[d] = {"md", "to", "moves", "response"}
                              /\ goal'[d].md \in KnownMarks /\ goal'[d].moves \in BOOLEAN
    BY <1>0, <2>1, <2>2 DEF In, DeviceInv
  <2>6. DeviceInv'
    BY <1>0, <1>d, <2>1, <2>2, <2>5 DEF DeviceInv, Flights, Entries
  <2>7. RedisInv'
    BY <1>0, <1>d, <2>1, <2>2, <2>4 DEF RedisInv, Entries
  <2> QED
    BY <1>1, <2>1, <2>6, <2>7
<1>3. CASE ReadDevice(t)
  <2>1. /\ Handles(t, "read") /\ sts' = In(t, Entry(t.m.md, FALSE), sts) /\ DOMAIN log' = DOMAIN log
        /\ UNCHANGED <<device, req, staged, reported, replies, progress>>
    BY <1>3 DEF ReadDevice
  <2>2. KnownMarks' = KnownMarks /\ t.m.md \in Marks
    BY <1>k, <2>1
  <2>3. sts' \in [Devices -> Entries(Marks)]
    BY <1>0, <1>m, <2>1, <2>2, InType DEF RedisInv
  <2>4. RedisInv'
    BY <1>0, <1>d, <2>1, <2>2, <2>3 DEF RedisInv, Entries
  <2> QED
    BY <1>1, <1>d, <2>1, <2>2, <2>4
<1>4. CASE TriggerDevice(t)
  <2>1. /\ Handles(t, "trigger") /\ exposing' = In(t, Entry(t.m.md, TRUE), exposing)
        /\ UNCHANGED <<metadata, stdout, pos, goal, flight, settling, stagedDevs, redis, log>>
    BY <1>4 DEF TriggerDevice
  <2>2. KnownMarks' = KnownMarks /\ t.m.md \in KnownMarks
    BY <1>k, <2>1
  <2>3. exposing' \in [Devices -> Entries(KnownMarks)]
    BY <1>0, <1>e, <2>1, <2>2, InType DEF DeviceInv
  <2>4. DeviceInv'
    BY <1>0, <1>d, <2>1, <2>2, <2>3 DEF DeviceInv, Flights, Entries
  <2> QED
    BY <1>1, <1>d, <2>1, <2>2, <2>4
<1>5. CASE KickoffDevice(t)
  <2>1. /\ Handles(t, "kickoff")
        /\ flight' = [d \in Devices |-> IF d \in t.m.device
             THEN [flight[d] EXCEPT !.kick = t.m.md, !.flies = TRUE, !.told = FALSE, !.sent = 0]
             ELSE flight[d]]
        /\ sts' = [d \in Devices |-> IF d \in t.m.device \cap Flyers THEN Entry(t.m.md, TRUE) ELSE sts[d]]
        /\ UNCHANGED <<metadata, stdout, pos, goal, exposing, settling, stagedDevs,
                       req, staged, reported, replies, progress, log>>
    BY <1>5 DEF KickoffDevice
  <2>2. KnownMarks' = KnownMarks /\ t.m.md \in KnownMarks /\ t.m.md \in Marks
    BY <1>k, <2>1
  <2>3. sts' \in [Devices -> Entries(Marks)]
    <3>1. \A d \in Devices : sts[d] \in Entries(Marks)
      BY <1>0 DEF RedisInv
    <3> HIDE DEF Entries
    <3> QED
      BY <1>m, <2>1, <2>2, <3>1
  <2>4. ASSUME NEW f \in Flights(KnownMarks)
        PROVE  [f EXCEPT !.kick = t.m.md, !.flies = TRUE, !.told = FALSE, !.sent = 0] \in Flights(KnownMarks)
    BY <2>2 DEF Flights
  <2>5. flight' \in [Devices -> Flights(KnownMarks)]
    <3>1. \A d \in Devices : flight[d] \in Flights(KnownMarks)
      BY <1>0 DEF DeviceInv
    <3> HIDE DEF Flights
    <3> QED
      BY <2>1, <2>4, <3>1
  <2>6. DeviceInv'
    BY <1>0, <1>d, <2>1, <2>2, <2>5 DEF DeviceInv, Entries, Flights
  <2>7. RedisInv'
    BY <1>0, <1>d, <2>1, <2>2, <2>3 DEF RedisInv, Entries
  <2> QED
    BY <1>1, <2>1, <2>6, <2>7
<1>6. CASE CompleteDevice(t)
  <2>1. /\ Handles(t, "complete")
        /\ flight' = [d \in Devices |-> IF d \in t.m.device
             THEN [flight[d] EXCEPT !.complete = t.m.md, !.asked = TRUE] ELSE flight[d]]
        /\ UNCHANGED <<metadata, stdout, pos, goal, exposing, settling, stagedDevs, redis, log>>
    BY <1>6 DEF CompleteDevice
  <2>2. KnownMarks' = KnownMarks /\ t.m.md \in KnownMarks
    BY <1>k, <2>1
  <2>4. ASSUME NEW f \in Flights(KnownMarks)
        PROVE  [f EXCEPT !.complete = t.m.md, !.asked = TRUE] \in Flights(KnownMarks)
    BY <2>2 DEF Flights
  <2>5. flight' \in [Devices -> Flights(KnownMarks)]
    <3>1. \A d \in Devices : flight[d] \in Flights(KnownMarks)
      BY <1>0 DEF DeviceInv
    <3> HIDE DEF Flights
    <3> QED
      BY <2>1, <2>4, <3>1
  <2>6. DeviceInv'
    BY <1>0, <1>d, <2>1, <2>2, <2>5 DEF DeviceInv, Entries, Flights
  <2> QED
    BY <1>1, <1>d, <2>1, <2>2, <2>6
<1>7. CASE PreScanDevice(t)
  <2>1. /\ Handles(t, "pre_scan") /\ req' = In(t, Entry(t.m.md, TRUE), req) /\ DOMAIN log' = DOMAIN log
        /\ UNCHANGED <<device, sts, staged, reported, replies, progress>>
    BY <1>7 DEF PreScanDevice
  <2>2. KnownMarks' = KnownMarks /\ t.m.md \in KnownMarks
    BY <1>k, <2>1
  <2>3. req' \in [Devices -> Entries(KnownMarks)]
    BY <1>0, <1>e, <2>1, <2>2, InType DEF RedisInv
  <2>4. RedisInv'
    BY <1>0, <1>d, <2>1, <2>2, <2>3 DEF RedisInv, Entries
  <2> QED
    BY <1>1, <1>d, <2>1, <2>2, <2>4
<1>8. CASE StageDevice(t) \/ UnstageDevice(t)
  <2>1. /\ Handles(t, "stage") \/ Handles(t, "unstage")
        /\ staged' = In(t, Entry(t.m.md, TRUE), staged) \/ staged' = In(t, Entry(t.m.md, FALSE), staged)
        /\ DOMAIN log' = DOMAIN log
        /\ UNCHANGED <<metadata, stdout, pos, goal, flight, exposing, settling,
                       req, sts, reported, replies, progress>>
    BY <1>8 DEF StageDevice, UnstageDevice
  <2>2. KnownMarks' = KnownMarks /\ t.m.md \in KnownMarks
    BY <1>k, <2>1
  <2>3. staged' \in [Devices -> Entries(KnownMarks)]
    <3>1. staged \in [Devices -> Entries(KnownMarks)]
      BY <1>0 DEF RedisInv
    <3>2. \A e \in Entries(KnownMarks) : In(t, e, staged) \in [Devices -> Entries(KnownMarks)]
      BY <3>1, InType
    <3> QED
      BY <1>e, <2>1, <2>2, <3>2
  <2>4. RedisInv'
    BY <1>0, <1>d, <2>1, <2>2, <2>3 DEF RedisInv, Entries
  <2>5. DeviceInv'
    BY <1>0, <1>d, <2>1, <2>2 DEF DeviceInv, Entries, Flights
  <2> QED
    BY <1>1, <2>1, <2>4, <2>5
<1>9. CASE RunRpc(t)
  <2>1. /\ running' = (running \ {t}) \cup {[t EXCEPT !.replied = TRUE]}
        /\ replies' = replies \cup {[key |-> [d |-> d, md |-> t.m.md], value |-> pos[d]]: d \in t.m.device}
        /\ WorkerKeeps
        /\ UNCHANGED <<tasks, stopMsg, device, req, sts, staged, reported, progress, reordered, log>>
    BY <1>9 DEF RunRpc, ServerKeeps
  <2>2. KnownMarks' = KnownMarks /\ PlaceInv' /\ WorkerInv' /\ work' = work
    BY <2>1, WorkerKept
  <2>3. DOMAIN t = {"m", "saved", "replied"} /\ t.m \in InFlight
    BY DEF TypeInv, TaskInv, InFlight
  <2>4. [t EXCEPT !.replied = TRUE].m = t.m /\ DOMAIN [t EXCEPT !.replied = TRUE] = {"m", "saved", "replied"}
    BY <2>3
  <2>5. InFlight' \subseteq InFlight
    BY <2>1, <2>3, <2>4 DEF InFlight
  <2>6. TaskInv'
    BY <2>1, <2>2, <2>4, <2>5 DEF TypeInv, TaskInv
  <2>7. RedisInv'
    <3>1. \A d \in t.m.device : pos[d] \in Int
      BY <1>0, <2>3 DEF DeviceInv, TypeInv, TaskInv
    <3>2. \A r \in replies' : r.value \in Int
      BY <1>0, <2>1, <3>1 DEF RedisInv
    <3> QED
      BY <1>0, <1>d, <2>1, <2>2, <3>2 DEF RedisInv, Entries
  <2>8. LogInv'
    BY <1>0, <2>1 DEF LogInv, NewLog
  <2> QED
    BY <1>d, <2>1, <2>2, <2>6, <2>7, <2>8 DEF TypeInv
<1>10. CASE RestoreStdout(t)
  <2>1. /\ Handles(t, "rpc")
        /\ UNCHANGED <<metadata, pos, goal, flight, exposing, settling, stagedDevs, redis, log>>
    BY <1>10 DEF RestoreStdout
  <2>2. KnownMarks' = KnownMarks
    BY <1>k, <2>1
  <2>3. DeviceInv'
    BY <1>0, <1>d, <2>1, <2>2 DEF DeviceInv, Entries, Flights
  <2> QED
    BY <1>1, <1>d, <2>1, <2>2, <2>3
<1> QED
  BY <1>2, <1>3, <1>4, <1>5, <1>6, <1>7, <1>8, <1>9, <1>10

LEMMA CallbackTypes ==
  ASSUME TypeInv, Callback \/ StopDevices
  PROVE  TypeInv' /\ DeviceKeeps
<1>0. /\ PlaceInv /\ WorkerInv /\ KnownMarks \subseteq Marks
      /\ RedisInv /\ DeviceInv /\ LogInv
  BY MarkFacts DEF TypeInv
<1>k. DeviceKeeps
  BY Zenon DEF Callback, StopDevices, Advance, Arrive, IsMovingCallback, TriggerDone, KickedOff, Emit,
         Land, Completed
<1>w. WorkerKeeps /\ UNCHANGED <<tasks, running, metadata, staged, replies>>
  BY <1>k DEF DeviceKeeps
<1>m. KnownMarks' = KnownMarks /\ PlaceInv' /\ WorkerInv' /\ work' = work
  BY <1>w, WorkerKept
<1>t. TaskInv'
  BY <1>w, <1>m DEF TypeInv, TaskInv, InFlight
<1> USE DEF DeviceInv, RedisInv, LogInv
<1>f. \A d \in Devices :
         /\ metadata[d] \in Marks /\ pos[d] \in Int /\ goal[d].md \in KnownMarks
         /\ flight[d] \in Flights(KnownMarks) /\ exposing[d] \in Entries(KnownMarks)
         /\ req[d] \in Entries(KnownMarks) /\ sts[d] \in Entries(Marks)
  BY <1>0
<1>e. /\ \A md \in KnownMarks, b \in BOOLEAN : Entry(md, b) \in Entries(KnownMarks)
      /\ \A md \in Marks, b \in BOOLEAN : Entry(md, b) \in Entries(Marks)
  BY EntryType
<1>g. \A f \in Flights(KnownMarks) : /\ f.kick \in KnownMarks /\ f.complete \in KnownMarks
                                     /\ f.sent \in Nat
  BY DEF Flights
<1>x. \A x \in Entries(KnownMarks) : x.md \in KnownMarks
  BY DEF Entries
<1>s. \A d \in Devices, x \in Entries(KnownMarks) : [req EXCEPT ![d] = x] \in [Devices -> Entries(KnownMarks)]
  <2> HIDE DEF Entries
  <2> QED
    BY <1>0
<1>u. \A d \in Devices, x \in Entries(Marks) : [sts EXCEPT ![d] = x] \in [Devices -> Entries(Marks)]
  <2> HIDE DEF Entries
  <2> QED
    BY <1>0
<1>v. \A d \in Devices, x \in Flights(KnownMarks) : [flight EXCEPT ![d] = x] \in [Devices -> Flights(KnownMarks)]
  <2> HIDE DEF Flights
  <2> QED
    BY <1>0
<1>q. ASSUME pos' \in [Devices -> Int], DOMAIN goal' = Devices,
             \A d \in Devices : /\ DOMAIN goal'[d] = {"md", "to", "moves", "response"}
                                /\ goal'[d].md \in KnownMarks /\ goal'[d].moves \in BOOLEAN,
             flight' \in [Devices -> Flights(KnownMarks)], exposing' \in [Devices -> Entries(KnownMarks)],
             req' \in [Devices -> Entries(KnownMarks)], sts' \in [Devices -> Entries(Marks)],
             progress' \in [Devices -> [md : Marks, n : Nat]], DOMAIN log' = DOMAIN log
      PROVE  TypeInv' /\ DeviceKeeps
  BY <1>0, <1>k, <1>w, <1>m, <1>t, <1>q DEF TypeInv, NewLog, Flights, Entries, Marks
<1> HIDE DEF DeviceInv, RedisInv, LogInv
<1>z. /\ pos \in [Devices -> Int] /\ DOMAIN goal = Devices
      /\ \A d \in Devices : /\ DOMAIN goal[d] = {"md", "to", "moves", "response"}
                            /\ goal[d].md \in KnownMarks /\ goal[d].moves \in BOOLEAN
      /\ flight \in [Devices -> Flights(KnownMarks)] /\ exposing \in [Devices -> Entries(KnownMarks)]
      /\ req \in [Devices -> Entries(KnownMarks)] /\ sts \in [Devices -> Entries(Marks)]
      /\ progress \in [Devices -> [md : Marks, n : Nat]]
  BY <1>0 DEF DeviceInv, RedisInv
<1>1. CASE \E d \in Devices : Advance(d)
  <2>1. PICK d \in Devices : Advance(d)
    BY <1>1
  <2>2. pos' \in [Devices -> Int]
    <3>1. goal[d].to \in Int \/ goal[d].to \notin Int
      OBVIOUS
    <3>2. \A b \in BOOLEAN : pos[d] + (IF b THEN 1 ELSE -1) \in Int
      BY <1>f
    <3>3. PICK n \in Int : pos' = [pos EXCEPT ![d] = n]
      BY <2>1, <3>2 DEF Advance
    <3> QED
      BY <1>z, <3>3
  <2>3. UNCHANGED <<goal, flight, exposing, req, sts, progress, log>>
    BY <2>1 DEF Advance
  <2> QED
    BY <1>q, <1>z, <2>2, <2>3
<1>2. CASE \E d \in Devices : Arrive(d)
  <2>1. PICK d \in Devices : Arrive(d)
    BY <1>2
  <2>2. /\ goal' = [goal EXCEPT ![d].moves = FALSE] /\ req' = [req EXCEPT ![d] = Entry(goal[d].md, TRUE)]
        /\ DOMAIN log' = DOMAIN log /\ UNCHANGED <<pos, flight, exposing, sts, progress>>
    BY <2>1 DEF Arrive, Told
  <2>3. req' \in [Devices -> Entries(KnownMarks)]
    BY <1>e, <1>f, <1>s, <2>2
  <2>4. /\ DOMAIN goal' = Devices
        /\ \A m \in Devices : /\ DOMAIN goal'[m] = {"md", "to", "moves", "response"}
                              /\ goal'[m].md \in KnownMarks /\ goal'[m].moves \in BOOLEAN
    BY <1>z, <2>2
  <2> QED
    BY <1>q, <1>z, <2>2, <2>3, <2>4
<1>3. CASE \E d \in Devices : IsMovingCallback(d)
  <2>1. PICK d \in Devices : IsMovingCallback(d)
    BY <1>3
  <2>2. /\ sts' = [sts EXCEPT ![d] = Entry(metadata[d], FALSE)]
        /\ UNCHANGED <<pos, goal, flight, exposing, req, progress, log>>
    BY <2>1 DEF IsMovingCallback
  <2>3. sts' \in [Devices -> Entries(Marks)]
    BY <1>e, <1>f, <1>u, <2>2
  <2> QED
    BY <1>q, <1>z, <2>2, <2>3
<1>4. CASE \E d \in Devices : TriggerDone(d)
  <2>1. PICK d \in Devices : TriggerDone(d)
    BY <1>4
  <2>2. PICK success \in BOOLEAN :
          /\ exposing' = [exposing EXCEPT ![d].on = FALSE]
          /\ req' = [req EXCEPT ![d] = Entry(exposing[d].md, success)]
          /\ DOMAIN log' = DOMAIN log /\ UNCHANGED <<pos, goal, flight, sts, progress>>
    BY <2>1 DEF TriggerDone, Told
  <2>3. req' \in [Devices -> Entries(KnownMarks)]
    BY <1>e, <1>f, <1>s, <1>x, <2>2
  <2>4. exposing' \in [Devices -> Entries(KnownMarks)]
    <3>1. [exposing[d] EXCEPT !.on = FALSE] \in Entries(KnownMarks)
      BY <1>f DEF Entries
    <3> HIDE DEF Entries
    <3> QED
      BY <1>z, <2>2, <3>1
  <2> QED
    BY <1>q, <1>z, <2>2, <2>3, <2>4
<1>5. CASE \E d \in Devices : KickedOff(d)
  <2>1. PICK d \in Devices : KickedOff(d)
    BY <1>5
  <2>2. /\ flight' = [flight EXCEPT ![d] = [flight[d] EXCEPT !.told = TRUE]]
        /\ req' = [req EXCEPT ![d] = Entry(flight[d].kick, TRUE)]
        /\ DOMAIN log' = DOMAIN log /\ UNCHANGED <<pos, goal, exposing, sts, progress>>
    BY <2>1 DEF KickedOff, Told
  <2>3. [flight[d] EXCEPT !.told = TRUE] \in Flights(KnownMarks)
    BY <1>f DEF Flights
  <2>4. flight' \in [Devices -> Flights(KnownMarks)]
    BY <1>v, <2>2, <2>3
  <2>5. req' \in [Devices -> Entries(KnownMarks)]
    BY <1>e, <1>f, <1>g, <1>s, <2>2
  <2> QED
    BY <1>q, <1>z, <2>2, <2>4, <2>5
<1>6. CASE \E d \in Devices : Emit(d)
  <2>1. PICK d \in Devices : Emit(d)
    BY <1>6
  <2>2. /\ flight' = [flight EXCEPT ![d] = [flight[d] EXCEPT !.sent = flight[d].sent + 1]]
        /\ progress' = [progress EXCEPT ![d] = [md |-> metadata[d], n |-> flight[d].sent + 1]]
        /\ UNCHANGED <<pos, goal, exposing, req, sts, log>>
    BY <2>1 DEF Emit
  <2>3. flight[d].sent + 1 \in Nat
    BY <1>f, <1>g
  <2>4. \A n \in Nat : [flight[d] EXCEPT !.sent = n] \in Flights(KnownMarks)
    BY <1>f DEF Flights
  <2>5. flight' \in [Devices -> Flights(KnownMarks)]
    BY <1>v, <2>2, <2>3, <2>4
  <2>6. \A n \in Nat : [progress EXCEPT ![d] = [md |-> metadata[d], n |-> n]] \in [Devices -> [md : Marks, n : Nat]]
    BY <1>f, <1>z
  <2>7. progress' \in [Devices -> [md : Marks, n : Nat]]
    BY <2>2, <2>3, <2>6
  <2> QED
    BY <1>q, <1>z, <2>2, <2>5, <2>7
<1>7. CASE \E d \in Devices : Land(d)
  <2>1. PICK d \in Devices : Land(d)
    BY <1>7
  <2>2. /\ flight' = [flight EXCEPT ![d] = [flight[d] EXCEPT !.flies = FALSE]]
        /\ sts' = sts \/ sts' = [sts EXCEPT ![d] = Entry(flight[d].kick, FALSE)]
        /\ UNCHANGED <<pos, goal, exposing, req, progress, log>>
    BY <2>1 DEF Land
  <2>3. [flight[d] EXCEPT !.flies = FALSE] \in Flights(KnownMarks)
    BY <1>f DEF Flights
  <2>4. flight' \in [Devices -> Flights(KnownMarks)]
    BY <1>v, <2>2, <2>3
  <2>5. sts' \in [Devices -> Entries(Marks)]
    <3>1. Entry(flight[d].kick, FALSE) \in Entries(Marks)
      <4>1. flight[d].kick \in Marks
        BY <1>0, <1>f, <1>g
      <4> QED
        BY <1>e, <4>1
    <3> QED
      BY <1>u, <1>z, <2>2, <3>1
  <2> QED
    BY <1>q, <1>z, <2>2, <2>4, <2>5
<1>8. CASE \E d \in Devices : Completed(d)
  <2>1. PICK d \in Devices : Completed(d)
    BY <1>8
  <2>2. /\ flight' = [flight EXCEPT ![d] = [flight[d] EXCEPT !.asked = FALSE]]
        /\ req' = [req EXCEPT ![d] = Entry(flight[d].complete, TRUE)]
        /\ DOMAIN log' = DOMAIN log /\ UNCHANGED <<pos, goal, exposing, sts, progress>>
    BY <2>1 DEF Completed, Told
  <2>3. [flight[d] EXCEPT !.asked = FALSE] \in Flights(KnownMarks)
    BY <1>f DEF Flights
  <2>4. flight' \in [Devices -> Flights(KnownMarks)]
    BY <1>v, <2>2, <2>3
  <2>5. req' \in [Devices -> Entries(KnownMarks)]
    BY <1>e, <1>f, <1>g, <1>s, <2>2
  <2> QED
    BY <1>q, <1>z, <2>2, <2>4, <2>5
<1>9. CASE StopDevices
  <2>1. PICK stopped \in SUBSET Devices :
          /\ goal' = [m \in Devices |-> [goal[m] EXCEPT !.moves = FALSE]]
          /\ flight' = [f \in Devices |-> [flight[f] EXCEPT !.flies = FALSE]]
          /\ req' = [m \in Devices |-> IF m \in stopped THEN Entry(goal[m].md, FALSE) ELSE req[m]]
          /\ DOMAIN log' = DOMAIN log /\ UNCHANGED <<pos, exposing, sts, progress>>
    <3>1. {m \in Devices : goal[m].moves} \in SUBSET Devices
      OBVIOUS
    <3> QED
      BY <1>9, <3>1 DEF StopDevices
  <2>2. \A d \in Devices : [flight[d] EXCEPT !.flies = FALSE] \in Flights(KnownMarks)
    BY <1>f DEF Flights
  <2>3. flight' \in [Devices -> Flights(KnownMarks)]
    <3> HIDE DEF Flights
    <3> QED
      BY <2>1, <2>2
  <2>4. req' \in [Devices -> Entries(KnownMarks)]
    <3> HIDE DEF Entries
    <3> QED
      BY <1>e, <1>f, <2>1
  <2>5. /\ DOMAIN goal' = Devices
        /\ \A m \in Devices : /\ DOMAIN goal'[m] = {"md", "to", "moves", "response"}
                              /\ goal'[m].md \in KnownMarks /\ goal'[m].moves \in BOOLEAN
    BY <1>z, <2>1
  <2> QED
    BY <1>q, <1>z, <2>1, <2>3, <2>4, <2>5
<1> QED
  BY <1>1, <1>2, <1>3, <1>4, <1>5, <1>6, <1>7, <1>8, <1>9 DEF Callback

LEMMA TypesHold ==
  ASSUME TypeInv, [Next]_vars
  PROVE  TypeInv' /\ scen' = scen /\ it' \in Nat /\ it' >= it
<1>0. it \in Nat /\ it >= it
  BY PlaceFacts DEF TypeInv, PlaceInv
<1>1. CASE Worker
  BY <1>1, WorkerTypes
<1>2. CASE StartTask
  BY <1>0, <1>2, StartTypes, WorkerKept
<1>3. CASE HandleTask
  BY <1>0, <1>3, HandleTypes, WorkerKept
<1>4. CASE Callback \/ StopDevices
  <2>1. TypeInv' /\ WorkerKeeps
    BY <1>4, CallbackTypes DEF DeviceKeeps
  <2> QED
    BY <1>0, <2>1, WorkerKept
<1>5. CASE Interrupt
  <2>1. /\ UNCHANGED <<scen, it, bl, pc, wpc, scan, cur, work, groups, tasks, running, device, redis>>
        /\ status' = "STOPPED" /\ DOMAIN log' = DOMAIN log
    BY <1>5 DEF Interrupt, place
  <2>2. PlaceInv' /\ LogInv'
    BY <2>1 DEF TypeInv, PlaceInv, LogInv, NewLog, Items, Item
  <2> QED
    BY <1>0, <2>1, <2>2, KeptTypes DEF TypeInv
<1>6. CASE UNCHANGED vars
  <2>1. /\ UNCHANGED <<scen, it, bl, pc, wpc, scan, cur, work, groups, status, tasks, running, device, redis, log>>
    BY <1>6 DEF vars, place
  <2>2. PlaceInv' /\ LogInv'
    BY <2>1 DEF TypeInv, PlaceInv, LogInv, NewLog, Items, Item
  <2> QED
    BY <1>0, <2>1, <2>2, KeptTypes DEF TypeInv
<1> QED
  BY <1>1, <1>2, <1>3, <1>4, <1>5, <1>6 DEF Next, Polls, Finished

-----------------------------------------------------------------------------
(* What the worker awaits.                                                 *)

\* The bookkeeping of the worker's steps.
LEMMA WorkerLogs ==
  ASSUME TypeInv, Worker
  PROVE  /\ log'.answered = log.answered /\ log'.overlap = log.overlap
         /\ EndWait \/ log'.early = log.early
<1>0. LogInv
  BY DEF TypeInv
<1>1. CASE Generator
  <2>1. UNCHANGED log
    BY <1>1, GeneratorSteps DEF TypeInv, Moves, Raises, Raise, ScanKeeps
  <2> QED
    BY <2>1
<1>2. CASE SendInstruction \/ SendAndWait
  BY <1>2, InstructionTypes DEF TypeInv, LogKept
<1>3. CASE BeginWait \/ OpenScanStep \/ CloseScanStep \/ PublishStep \/ OtherStep
  BY <1>3, OtherInstructionTypes DEF TypeInv, LogKept
<1>4. CASE MovementFailed \/ CheckForInterruption \/ EndBlock \/ BeginReturn
  <2>1. UNCHANGED log
    BY Zenon, <1>4 DEF MovementFailed, CheckForInterruption, EndBlock, BeginReturn
  <2> QED
    BY <2>1
<1>5. CASE EndItem \/ Aborted
  <2>1. NextItem /\ wpc # "done"
    BY <1>5 DEF EndItem, Aborted, BlockEnds
  <2> QED
    BY <2>1, ItemTypes DEF TypeInv, LogKept
<1>6. CASE EndWait \/ EndReturn
  <2>1. \/ log' = log
        \/ EndWait /\ \E v : log' = [log EXCEPT !.early = v]
        \/ \E v : log' = [log EXCEPT !.returned = v]
    BY Zenon, <1>6 DEF EndWait, EndReturn
  <2>2. {"answered", "overlap", "early"} \subseteq DOMAIN log
    BY <1>0 DEF LogInv, NewLog
  <2> QED
    BY <2>1, <2>2
<1> QED
  BY <1>1, <1>2, <1>3, <1>4, <1>5, <1>6 DEF Worker

\* Marks of the same item and the same instruction of it are the same, unless the item is a
\* scan definition.
LEMMA SameMark ==
  ASSUME TypeInv, NEW a \in KnownMarks, NEW b \in KnownMarks, a.scan = b.scan, a.DIID = b.DIID,
         a.rid = b.rid \/ a.scan[1] = 0 \/ (a.scan[1] \in Nat /\ ~Items[a.scan[1]].def)
  PROVE  a = b
<1>1. a \in Marks /\ b \in Marks /\ Known(a) /\ Known(b)
  BY DEF KnownMarks
<1>2. it \in Nat
  BY PlaceFacts DEF TypeInv, PlaceInv
<1>3. ASSUME NEW m, Known(m), m.scan[1] = 0 PROVE m = NoMd
  <2>1. m.scan[1] \notin 1..it
    BY <1>2, <1>3
  <2> QED
    BY <1>3, <2>1 DEF Known
<1>4. CASE a.scan[1] = 0
  BY <1>1, <1>3, <1>4
<1>5. CASE a.scan[1] # 0 /\ ~Items[a.scan[1]].def
  <2>1. a # NoMd /\ b # NoMd
    BY <1>5 DEF NoMd
  <2>2. a.rid[1] = a.scan[1] /\ b.rid[1] = a.scan[1]
    BY <1>1, <2>1 DEF Known
  <2>3. a.scan = a.rid /\ b.scan = b.rid
    BY <1>1, <1>5, <2>1, <2>2 DEF Known
  <2>4. a.rid = b.rid
    BY <2>3
  <2> QED
    BY <1>1, <2>4 DEF Marks
<1>6. CASE a.rid = b.rid
  BY <1>1, <1>6 DEF Marks
<1> QED
  BY <1>4, <1>5, <1>6

\* A wait for a movement ends with its answer, and so do the others that look at the request
\* status or the staging of the devices, unless the item is a scan definition.
LEMMA EndWaitAnswered ==
  ASSUME TypeInv, AnsweredInv, EndWait, cur.md.rid[1] = it,
         Type = "move" \/ (Type \notin {"read", "trigger"} /\ ~Item.def)
  PROVE  Expected \subseteq log.answered
<1>0. cur.md \in KnownMarks /\ cur.md \in Marks /\ it \in Nat \ {0}
  BY PlaceFacts, MarkFacts DEF TypeInv, WorkerInv, PlaceInv
<1>r. \A d \in Devices : /\ req[d].md \in KnownMarks /\ req[d].md \in Marks
                         /\ staged[d].md \in KnownMarks
                         /\ req[d].set => <<d, req[d].md>> \in log.answered
                         /\ staged[d].set => <<d, staged[d].md>> \in log.answered
  BY MarkFacts DEF TypeInv, RedisInv, Entries, AnsweredInv
<1>1. CASE Type = "move"
  <2>1. ASSUME NEW g \in Awaited
        PROVE  <<g[2], [cur.md EXCEPT !.DIID = g[3]]>> \in log.answered
    <3>1. g[2] \in Devices /\ g[3] \in Nat
      BY DEF Awaited, TypeInv, WorkerInv
    <3>2. LET e == req[g[2]] IN
            e.set /\ e.md.scan = cur.md.scan /\ e.md.rid = cur.md.rid /\ e.md.DIID = g[3]
      BY <1>1 DEF EndWait, WaitOver, MovesOver, SameScan
    <3>3. req[g[2]].md = [cur.md EXCEPT !.DIID = g[3]]
      BY <1>0, <1>r, <3>1, <3>2 DEF Marks
    <3> QED
      BY <1>r, <3>1, <3>2, <3>3
  <2>2. Expected = {<<g[2], [cur.md EXCEPT !.DIID = g[3]]>>: g \in Awaited}
    BY <1>1 DEF Expected
  <2> QED
    BY <2>1, <2>2
<1>2. CASE Type \notin {"move", "read", "trigger"} /\ ~Item.def
  <2>1. cur.md.scan[1] = it /\ ~Items[cur.md.scan[1]].def
    <3>1. cur.md # NoMd
      BY <1>0 DEF NoMd
    <3> QED
      BY <1>0, <1>2, <3>1 DEF KnownMarks, Known, Item
  <2>2. ASSUME NEW d \in Devices PROVE <<d, cur.md>> \in log.answered
    <3>1. CASE Type = "pre_scan"
      <4>1. req[d].set /\ req[d].md.scan = cur.md.scan /\ req[d].md.DIID = cur.md.DIID
        BY <1>2, <3>1 DEF EndWait, WaitOver, PreScansOver, SameScan
      <4>2. req[d].md = cur.md
        BY <1>0, <1>r, <2>1, <4>1, SameMark
      <4> QED
        BY <1>r, <4>1, <4>2
    <3>2. CASE Type # "pre_scan"
      <4>1. staged[d].set /\ staged[d].md.scan = cur.md.scan /\ staged[d].md.DIID = cur.md.DIID
        BY <1>2, <3>2 DEF EndWait, WaitOver, StagesOver, SameScan
      <4>2. staged[d].md = cur.md
        BY <1>0, <1>r, <2>1, <4>1, SameMark
      <4> QED
        BY <1>r, <4>1, <4>2
    <3> QED
      BY <3>1, <3>2
  <2>3. Expected = {<<d, cur.md>> : d \in Devices}
    BY <1>2 DEF Expected
  <2> QED
    BY <2>2, <2>3
<1> QED
  BY <1>1, <1>2

\* A trigger that is waited for was answered if no item is a scan definition.
LEMMA TriggerAnswered ==
  ASSUME TypeInv, AnsweredInv, EndWait, Type = "trigger", \A i \in DOMAIN Items : ~Items[i].def
  PROVE  Expected \subseteq log.answered
<1>1. work.last_trigger \in KnownMarks /\ KnownMarks \subseteq Marks
  BY MarkFacts DEF TypeInv, WorkerInv, WorkTypes
<1>2. ASSUME NEW d \in Detectors PROVE <<d, work.last_trigger>> \in log.answered
  <2>1. /\ d \in Devices /\ req[d].set /\ req[d].md.scan = work.last_trigger.scan
        /\ req[d].md.DIID = work.last_trigger.DIID
    BY <1>2 DEF EndWait, WaitOver, TriggersOver, Devices
  <2>2. req[d].md \in KnownMarks
    BY <2>1 DEF TypeInv, RedisInv, Entries
  <2>3. req[d].md.scan[1] = 0 \/ (req[d].md.scan[1] \in Nat /\ ~Items[req[d].md.scan[1]].def)
    <3>1. it \in 1..Len(Items) /\ DOMAIN Items = 1..Len(Items) /\ Len(Items) \in Nat
      <4>1. Items \in Seq(ToSet(Items))
        BY ScenariosAssumption DEF TypeInv, PlaceInv, Items
      <4> QED
        BY <4>1 DEF TypeInv, PlaceInv
    <3>2. CASE req[d].md = NoMd
      BY <3>2 DEF NoMd
    <3>3. CASE req[d].md # NoMd
      <4>1. req[d].md.scan[1] \in 1..it
        BY <2>2, <3>3 DEF KnownMarks, Known
      <4> QED
        BY <3>1, <4>1
    <3> QED
      BY <3>2, <3>3
  <2>4. req[d].md = work.last_trigger
    BY <1>1, <2>1, <2>2, <2>3, SameMark
  <2> QED
    BY <2>1, <2>4 DEF AnsweredInv
<1>3. Expected = {<<d, work.last_trigger>> : d \in Detectors}
  BY DEF Expected
<1> QED
  BY <1>2, <1>3

\* Every answer in redis was given, whoever leaves it there.
LEMMA AnsweredHolds ==
  ASSUME TypeInv, AnsweredInv, [Next]_vars
  PROVE  AnsweredInv'
<1>0. {"answered", "early", "overlap", "outside", "points", "failed", "late", "stopped"} \subseteq DOMAIN log
  BY DEF TypeInv, LogInv, NewLog
<1>1. ASSUME log.answered \subseteq log'.answered,
             \A d \in Devices : \/ req'[d] = req[d]
                                \/ req'[d].set => <<d, req'[d].md>> \in log'.answered,
             \A d \in Devices : \/ staged'[d] = staged[d]
                                \/ staged'[d].set => <<d, staged'[d].md>> \in log'.answered
      PROVE  AnsweredInv'
  BY <1>1 DEF AnsweredInv
<1>2. CASE Worker
  <2>1. UNCHANGED redis /\ log'.answered = log.answered
    BY <1>2, WorkerTypes, WorkerLogs
  <2> QED
    BY <1>1, <2>1 DEF redis
<1>3. CASE StartTask \/ Interrupt
  <2>1. UNCHANGED redis /\ \E v : log' = [log EXCEPT !.overlap = v] \/ log' = [log EXCEPT !.stopped = v]
    BY Zenon, <1>3 DEF StartTask, Interrupt
  <2>2. log'.answered = log.answered
    BY <1>0, <2>1
  <2> QED
    BY <1>1, <2>1, <2>2 DEF redis
<1>4. CASE HandleTask
  <2>1. PICK t \in running :
          \/ SetDevice(t) \/ ReadDevice(t) \/ TriggerDevice(t) \/ KickoffDevice(t)
          \/ CompleteDevice(t) \/ PreScanDevice(t) \/ StageDevice(t) \/ UnstageDevice(t)
          \/ RunRpc(t) \/ RestoreStdout(t)
    BY <1>4 DEF HandleTask
  <2>2. CASE SetDevice(t)
    <3>1. UNCHANGED <<req, staged>> /\ (log' = log \/ \E v : log' = [log EXCEPT !.outside = v])
      BY Zenon, <2>2 DEF SetDevice
    <3>2. log'.answered = log.answered
      BY <1>0, <3>1
    <3> QED
      BY <1>1, <3>1, <3>2
  <2>3. CASE ReadDevice(t)
    <3>1. UNCHANGED <<req, staged>> /\ \E v : log' = [log EXCEPT !.answered = Answers(t), !.points = v]
      BY Zenon, <2>3 DEF ReadDevice
    <3>2. log'.answered = Answers(t)
      BY <1>0, <3>1
    <3> QED
      BY <1>1, <3>1, <3>2 DEF Answers
  <2>4. CASE TriggerDevice(t) \/ KickoffDevice(t) \/ CompleteDevice(t) \/ RunRpc(t) \/ RestoreStdout(t)
    <3>1. UNCHANGED <<req, staged, log>>
      BY Zenon, <2>4 DEF TriggerDevice, KickoffDevice, CompleteDevice, RunRpc, RestoreStdout, redis
    <3> QED
      BY <1>1, <3>1
  <2>5. CASE PreScanDevice(t) \/ StageDevice(t) \/ UnstageDevice(t)
    <3>1. /\ \/ req' = In(t, Entry(t.m.md, TRUE), req) /\ staged' = staged
             \/ req' = req /\ \E on \in BOOLEAN : staged' = In(t, Entry(t.m.md, on), staged)
          /\ log' = [log EXCEPT !.answered = Answers(t)]
      BY Zenon, <2>5 DEF PreScanDevice, StageDevice, UnstageDevice
    <3>2. log'.answered = Answers(t)
      BY <1>0, <3>1
    <3>3. \A f : \A d \in Devices, on \in BOOLEAN :
            \/ In(t, Entry(t.m.md, on), f)[d] = f[d]
            \/ /\ d \in t.m.device /\ In(t, Entry(t.m.md, on), f)[d].md = t.m.md
      BY DEF In, Entry
    <3>4. \A d \in t.m.device : <<d, t.m.md>> \in log'.answered
      BY <3>2 DEF Answers
    <3>5. ASSUME NEW on \in BOOLEAN, NEW f, NEW d \in Devices
          PROVE  LET e == In(t, Entry(t.m.md, on), f)[d] IN e = f[d] \/ <<d, e.md>> \in log'.answered
      BY <3>3, <3>4
    <3>6. \A d \in Devices : \/ req'[d] = req[d]
                             \/ <<d, req'[d].md>> \in log'.answered
      BY <3>1, <3>5
    <3>7. \A d \in Devices : \/ staged'[d] = staged[d]
                             \/ <<d, staged'[d].md>> \in log'.answered
      BY <3>1, <3>5
    <3> QED
      BY <1>1, <3>2, <3>6, <3>7 DEF Answers
  <2> QED
    BY <2>1, <2>2, <2>3, <2>4, <2>5
<1>5. CASE Callback
  <2>1. UNCHANGED staged
    BY <1>5, CallbackTypes DEF DeviceKeeps
  <2>2. PICK d \in Devices : \/ Advance(d) \/ Arrive(d) \/ IsMovingCallback(d) \/ TriggerDone(d)
                             \/ KickedOff(d) \/ Emit(d) \/ Land(d) \/ Completed(d)
    BY <1>5 DEF Callback
  <2>3. ASSUME UNCHANGED <<req, log>> PROVE AnsweredInv'
    BY <1>1, <2>1, <2>3
  <2>4. ASSUME NEW md, NEW on, req' = [req EXCEPT ![d] = Entry(md, on)],
               \/ log' = Told(d, md)
               \/ \E v : log' = [Told(d, md) EXCEPT !.failed = v]
        PROVE  AnsweredInv'
    <3>1. log'.answered = log.answered \cup {<<d, md>>}
      BY <1>0, <2>4 DEF Told
    <3>2. \A c \in Devices : req'[c] = req[c] \/ (c = d /\ req'[c] = Entry(md, on))
      BY <2>4 DEF TypeInv, RedisInv
    <3>3. Entry(md, on).md = md
      BY DEF Entry
    <3> QED
      BY <1>1, <2>1, <3>1, <3>2, <3>3
  <2>5. CASE Advance(d) \/ IsMovingCallback(d) \/ Emit(d) \/ Land(d)
    <3>1. UNCHANGED <<req, log>>
      BY Zenon, <2>5 DEF Advance, IsMovingCallback, Emit, Land
    <3> QED
      BY <2>3, <3>1
  <2>6. CASE Arrive(d)
    <3>1. req' = [req EXCEPT ![d] = Entry(goal[d].md, TRUE)] /\ log' = Told(d, goal[d].md)
      BY Zenon, <2>6 DEF Arrive
    <3> QED
      BY <2>4, <3>1, Zenon
  <2>7. CASE TriggerDone(d)
    <3>1. PICK success : /\ req' = [req EXCEPT ![d] = Entry(exposing[d].md, success)]
                         /\ \E v : log' = [Told(d, exposing[d].md) EXCEPT !.failed = v]
      BY Zenon, <2>7 DEF TriggerDone
    <3> QED
      BY <2>4, <3>1, Zenon
  <2>8. CASE KickedOff(d)
    <3>1. req' = [req EXCEPT ![d] = Entry(flight[d].kick, TRUE)] /\ log' = Told(d, flight[d].kick)
      BY Zenon, <2>8 DEF KickedOff
    <3> QED
      BY <2>4, <3>1, Zenon
  <2>9. CASE Completed(d)
    <3>1. req' = [req EXCEPT ![d] = Entry(flight[d].complete, TRUE)] /\ log' = Told(d, flight[d].complete)
      BY Zenon, <2>9 DEF Completed
    <3> QED
      BY <2>4, <3>1, Zenon
  <2> QED
    BY <2>2, <2>5, <2>6, <2>7, <2>8, <2>9
<1>6. CASE StopDevices
  <2>1. UNCHANGED staged
    BY <1>6, CallbackTypes DEF DeviceKeeps
  <2> DEFINE stopped == {m \in Devices : goal[m].moves}
  <2>2. /\ req' = [m \in Devices |-> IF m \in stopped THEN Entry(goal[m].md, FALSE) ELSE req[m]]
        /\ log' = [log EXCEPT !.answered = @ \cup {<<m, goal[m].md>> : m \in stopped}]
    BY <1>6 DEF StopDevices
  <2> HIDE DEF stopped
  <2>3. log'.answered = log.answered \cup {<<m, goal[m].md>> : m \in stopped}
    BY <1>0, <2>2
  <2>4. \A d \in Devices : req'[d] = req[d] \/ (d \in stopped /\ req'[d].md = goal[d].md)
    BY <2>2 DEF Entry
  <2> QED
    BY <1>1, <2>1, <2>3, <2>4
<1>7. CASE UNCHANGED vars
  BY <1>1, <1>7 DEF vars, redis
<1> QED
  BY <1>2, <1>3, <1>4, <1>5, <1>6, <1>7 DEF Next, Polls, Finished

\* Whoever is not the worker keeps what the worker awaits, and what it went on without.
LEMMA OthersKeep ==
  ASSUME TypeInv, StartTask \/ HandleTask \/ Callback \/ StopDevices \/ Interrupt \/ UNCHANGED vars
  PROVE  /\ UNCHANGED <<scen, it, bl, wpc, scan, cur, work, groups>> /\ log'.early = log.early
         /\ HandleTask \/ reordered' = reordered
<1>0. {"answered", "early", "overlap", "outside", "points", "failed", "late", "stopped"} \subseteq DOMAIN log
  BY DEF TypeInv, LogInv, NewLog
<1>1. CASE StartTask
  <2>1. WorkerKeeps /\ reordered' = reordered /\ \E v : log' = [log EXCEPT !.overlap = v]
    BY Zenon, <1>1 DEF StartTask
  <2> QED
    BY <1>0, <2>1 DEF WorkerKeeps, place
<1>2. CASE HandleTask
  <2>1. WorkerKeeps /\ \/ log' = log \/ \E v : log' = [log EXCEPT !.outside = v]
                       \/ \E v, w : log' = [log EXCEPT !.answered = v, !.points = w]
                       \/ \E v : log' = [log EXCEPT !.answered = v]
    BY Zenon, <1>2, HandleTypes DEF HandleTask, SetDevice, ReadDevice, TriggerDevice, KickoffDevice,
         CompleteDevice, PreScanDevice, StageDevice, UnstageDevice, RunRpc, RestoreStdout
  <2> QED
    BY <1>0, <1>2, <2>1 DEF WorkerKeeps, place
<1>3. CASE Callback
  <2>1. DeviceKeeps /\ \/ log' = log \/ \E d, md : log' = Told(d, md)
                       \/ \E d, md, v : log' = [Told(d, md) EXCEPT !.failed = v]
    <3>1. PICK d \in Devices : \/ Advance(d) \/ Arrive(d) \/ IsMovingCallback(d) \/ TriggerDone(d)
                               \/ KickedOff(d) \/ Emit(d) \/ Land(d) \/ Completed(d)
      BY <1>3 DEF Callback
    <3>2. CASE Advance(d) \/ IsMovingCallback(d) \/ Emit(d) \/ Land(d)
      BY Zenon, <3>2 DEF Advance, IsMovingCallback, Emit, Land
    <3>3. CASE Arrive(d) \/ KickedOff(d) \/ Completed(d)
      BY Zenon, <3>3 DEF Arrive, KickedOff, Completed
    <3>4. CASE TriggerDone(d)
      <4>1. DeviceKeeps /\ \E v : log' = [Told(d, exposing[d].md) EXCEPT !.failed = v]
        BY Zenon, <3>4 DEF TriggerDone
      <4> QED
        BY <4>1
    <3> QED
      BY <3>1, <3>2, <3>3, <3>4
  <2> QED
    BY <1>0, <2>1 DEF DeviceKeeps, WorkerKeeps, place, Told
<1>4. CASE StopDevices
  <2>1. DeviceKeeps /\ \E v : log' = [log EXCEPT !.answered = v]
    BY Zenon, <1>4 DEF StopDevices
  <2> QED
    BY <1>0, <2>1 DEF DeviceKeeps, WorkerKeeps, place
<1>5. CASE Interrupt
  <2>1. /\ UNCHANGED <<place, wpc, scan, cur, work, groups, reordered>>
        /\ log' = [log EXCEPT !.stopped = TRUE]
    BY Zenon, <1>5 DEF Interrupt
  <2> QED
    BY <1>0, <2>1 DEF place
<1>6. CASE UNCHANGED vars
  BY <1>6 DEF vars, place
<1> QED
  BY <1>1, <1>2, <1>3, <1>4, <1>5, <1>6

\* The instruction the worker waits with is of its item.
WaitsInv == wpc = "wait" => Current(cur.md)
LEMMA WaitsHold ==
  ASSUME TypeInv, WaitsInv, [Next]_vars
  PROVE  WaitsInv'
<1> USE DEF WaitsInv
<1>1. ASSUME UNCHANGED <<it, wpc, cur>> PROVE WaitsInv'
  BY <1>1 DEF Current
<1>2. ASSUME wpc' # "wait" PROVE WaitsInv'
  BY <1>2
<1>3. ASSUME cur' = [step |-> Step, md |-> Md], it' = it PROVE WaitsInv'
  BY <1>3, MarkFacts DEF Current, TypeInv
<1>4. CASE Generator
  <2>1. UNCHANGED <<it, cur>> /\ (wpc' = wpc \/ wpc' \in {"dead", "abort"})
    BY <1>4, GeneratorSteps DEF TypeInv, Moves, Raises, Raise, ScanKeeps, place
  <2> QED
    BY <1>1, <1>2, <2>1
<1>5. CASE SendInstruction \/ SendAndWait
  BY <1>1, <1>3, <1>5, InstructionTypes DEF TypeInv, Stays
<1>6. CASE BeginWait \/ OpenScanStep \/ CloseScanStep \/ PublishStep \/ OtherStep
  BY <1>1, <1>2, <1>3, <1>6, OtherInstructionTypes DEF TypeInv, Stays
<1>7. CASE EndWait \/ MovementFailed \/ CheckForInterruption \/ EndBlock \/ BeginReturn \/ EndReturn
  <2>1. \/ wpc' \in {"pull", "abort", "aborted", "dead"}
        \/ UNCHANGED <<it, wpc, cur>>
    BY Zenon, <1>7 DEF EndWait, MovementFailed, CheckForInterruption, EndBlock, BeginReturn, EndReturn
  <2> QED
    BY <1>1, <1>2, <2>1
<1>8. CASE EndItem \/ Aborted
  <2>1. NextItem /\ wpc # "done"
    BY <1>8 DEF EndItem, Aborted, BlockEnds
  <2> QED
    BY <1>2, <2>1, ItemTypes DEF TypeInv
<1>9. CASE StartTask \/ HandleTask \/ Callback \/ StopDevices \/ Interrupt \/ UNCHANGED vars
  BY <1>1, <1>9, OthersKeep
<1> QED
  BY <1>4, <1>5, <1>6, <1>7, <1>8, <1>9 DEF Next, Worker, Polls, Finished

\* No wait for a movement ends early; no other wait but for a reading does, where there are no
\* scan definitions, and in these but for a trigger.
NoDefinition == \A i \in DOMAIN Items : ~Items[i].def
EarlyInv == \A e \in log.early : /\ e[1] # "move" /\ (e[1] \in {"read", "trigger"} \/ Items[e[2]].def)
                                 /\ NoDefinition => e[1] = "read"
LEMMA EarlyHolds ==
  ASSUME TypeInv, WaitsInv, AnsweredInv, EarlyInv, [Next]_vars
  PROVE  EarlyInv'
<1>0. Items' = Items
  BY TypesHold DEF Items
<1>1. ASSUME log'.early = log.early PROVE EarlyInv'
  BY <1>0, <1>1 DEF EarlyInv, NoDefinition
<1>2. CASE EndWait
  <2>1. \/ log' = log
        \/ /\ log' = [log EXCEPT !.early = @ \cup {<<Type, it>>}]
           /\ ~(Expected \subseteq log.answered)
    BY <1>2 DEF EndWait
  <2>2. CASE log' = log
    BY <1>1, <2>2
  <2>3. CASE /\ log' = [log EXCEPT !.early = @ \cup {<<Type, it>>}]
             /\ ~(Expected \subseteq log.answered)
    <3>1. "early" \in DOMAIN log /\ cur.md.rid[1] = it
      BY <1>2 DEF TypeInv, LogInv, NewLog, WaitsInv, EndWait, Current
    <3>2. log'.early = log.early \cup {<<Type, it>>}
      BY <2>3, <3>1
    <3>3. ~(Type = "move" \/ (Type \notin {"read", "trigger"} /\ ~Item.def))
      BY <1>2, <2>3, <3>1, EndWaitAnswered
    <3>4. NoDefinition /\ Type = "trigger" => FALSE
      BY <1>2, <2>3, TriggerAnswered DEF NoDefinition
    <3>5. NoDefinition => ~Item.def
      <4>1. it \in DOMAIN Items
        <5>1. Items \in Seq(ToSet(Items))
          BY ScenariosAssumption DEF TypeInv, PlaceInv, Items
        <5> QED
          BY <5>1 DEF TypeInv, PlaceInv
      <4> QED
        BY <4>1 DEF NoDefinition, Item
    <3>6. LET e == <<Type, it>> IN /\ e[1] # "move" /\ (e[1] \in {"read", "trigger"} \/ Items[e[2]].def)
                                   /\ NoDefinition => e[1] = "read"
      BY <3>3, <3>4, <3>5 DEF Item
    <3> QED
      BY <1>0, <3>2, <3>6 DEF EarlyInv, NoDefinition
  <2> QED
    BY <2>1, <2>2, <2>3
<1>3. CASE Worker /\ ~EndWait
  BY <1>1, <1>3, WorkerLogs
<1>4. CASE StartTask \/ HandleTask \/ Callback \/ StopDevices \/ Interrupt \/ UNCHANGED vars
  BY <1>1, <1>4, OthersKeep
<1> QED
  BY <1>2, <1>3, <1>4 DEF Next, Polls, Finished

-----------------------------------------------------------------------------
(* Staging.                                                                *)

\* What a step of the worker is for the device server: it goes on, sends an instruction of the
\* item, ends a wait, begins the next item, or is done.
Goes ==
  /\ UNCHANGED <<it, tasks>> /\ work'.staged = work.staged
  /\ \/ wpc = "pull" /\ work'.returning = work.returning
          /\ (wpc' = "pull" \/ (wpc' = "wait" /\ cur'.step.action = "wait"))
     \/ wpc' \notin {"pull", "wait"}
     \/ work'.returning
Instructs(m) ==
  /\ it' = it /\ wpc = "pull" /\ work'.returning = work.returning /\ Sends(m) /\ Current(m.md)
  /\ \/ wpc' = "pull" /\ m.action \notin {"stage", "unstage"} /\ work'.staged = work.staged
     \/ /\ wpc' = "wait" /\ cur'.step.action = m.action
        /\ \/ m.action = "stage" /\ work'.staged = Devices
           \/ m.action = "unstage" /\ work'.staged = {}
           \/ m.action = "pre_scan" /\ work'.staged = work.staged
GoesOn == EndWait /\ UNCHANGED <<it, tasks, work>> /\ wpc = "wait" /\ wpc' = "pull"
Begins ==
  /\ it' = it + 1 /\ wpc' = "pull"
  /\ \/ wpc = "pull" /\ ~work.returning /\ UNCHANGED tasks /\ work'.staged = work.staged
     \/ /\ \E m : Sends(m) /\ m.md = NoMd /\ m.action = "unstage"
        /\ work'.staged = {}
LEMMA WorkerMoves ==
  ASSUME TypeInv, Worker
  PROVE  /\ wpc \notin {"done", "dead"}
         /\ Goes \/ (\E m : Instructs(m)) \/ GoesOn \/ Begins
            \/ (wpc' = "done" /\ (UNCHANGED tasks \/ \E m : Sends(m)))
<1> USE DEF TypeInv
<1>1. CASE Generator
  <2>1. wpc = "pull" /\ UNCHANGED <<it, tasks, work>> /\ (wpc' = "pull" \/ wpc' \in {"dead", "abort"})
    BY <1>1, GeneratorSteps DEF Moves, Raises, Raise, ScanKeeps, place
  <2> QED
    BY <2>1 DEF Goes
<1>2. CASE SendInstruction \/ SendAndWait
  <2> DEFINE m == Message(Step, Md, Targets(Step))
  <2>0. wpc = "pull"
    BY <1>2, PullFacts DEF SendInstruction, SendAndWait
  <2>1. /\ Stays /\ Sends(m) /\ m.md = Md /\ work'.returning = work.returning
        /\ SendInstruction => /\ m.action \notin {"stage", "unstage"}
                              /\ work'.staged = work.staged /\ UNCHANGED <<wpc, cur>>
        /\ SendAndWait => /\ m.action = Step.action /\ cur' = [step |-> Step, md |-> Md]
                          /\ Step.action \in {"stage", "unstage", "pre_scan"} /\ wpc' = "wait"
                          /\ Step.action = "stage" => work'.staged = Devices
                          /\ Step.action = "unstage" => work'.staged = {}
                          /\ Step.action = "pre_scan" => work'.staged = work.staged
    BY <1>2, InstructionTypes
  <2> HIDE DEF m
  <2>2. Instructs(m)
    BY <1>2, <2>0, <2>1, MarkFacts DEF Instructs, Stays
  <2> QED
    BY <2>0, <2>2
<1>3. CASE BeginWait \/ OpenScanStep \/ CloseScanStep \/ PublishStep \/ OtherStep
  <2>0. wpc = "pull"
    BY <1>3, PullFacts DEF BeginWait, OpenScanStep, CloseScanStep, PublishStep, OtherStep
  <2> QED
    BY <1>3, <2>0, OtherInstructionTypes DEF Goes, Stays, Quiet
<1>4. CASE MovementFailed \/ CheckForInterruption \/ BeginReturn \/ EndReturn
  <2>0. wpc \in {"wait", "pull", "abort"} /\ ~EndBlock
    <3>1. /\ MovementFailed => wpc = "wait"
          /\ CheckForInterruption => wpc \in {"wait", "pull"} /\ wpc' = "abort"
          /\ BeginReturn => wpc = "abort"
          /\ EndReturn => wpc = "pull" /\ work.returning
          /\ EndBlock => wpc = "pull" /\ ~work.returning /\ wpc' = wpc
      BY DEF MovementFailed, CheckForInterruption, BeginReturn, EndReturn, EndBlock, AtInstruction, BlockEnds
    <3> QED
      BY <1>4, <3>1
  <2>1. UNCHANGED <<it, tasks>> /\ work'.staged = work.staged
    BY <1>4, ControlTypes DEF Stays
  <2>2. wpc' \in {"abort", "aborted"} \/ work'.returning
    <3>1. /\ MovementFailed => wpc' = "abort"
          /\ CheckForInterruption => wpc' = "abort"
          /\ EndReturn => wpc' = "aborted"
          /\ BeginReturn => wpc' = "aborted" \/ work' = [work EXCEPT !.returning = TRUE]
      BY DEF MovementFailed, CheckForInterruption, BeginReturn, EndReturn
    <3>2. work' = [work EXCEPT !.returning = TRUE] => work'.returning
      BY DEF WorkerInv, WorkTypes
    <3> QED
      BY <1>4, <3>1, <3>2
  <2> QED
    BY <2>0, <2>1, <2>2 DEF Goes
<1>5. CASE EndBlock
  <2>1. wpc = "pull" /\ wpc' = "pull" /\ UNCHANGED <<it, tasks, work>>
    BY <1>5 DEF EndBlock, BlockEnds
  <2> QED
    BY <2>1 DEF Goes
<1>6. CASE EndWait
  <2>1. wpc = "wait" /\ wpc' = "pull" /\ UNCHANGED <<it, tasks, work>>
    BY <1>6 DEF EndWait, place
  <2> QED
    BY <1>6, <2>1 DEF GoesOn
<1>7. CASE EndItem
  <2>1. NextItem /\ wpc = "pull" /\ ~work.returning /\ work' = Reset /\ UNCHANGED tasks
    BY <1>7 DEF EndItem, BlockEnds
  <2>2. (wpc' = "pull" /\ it' = it + 1) \/ wpc' = "done"
    BY <2>1, ItemTypes
  <2> QED
    BY <2>1, <2>2, ResetType DEF Begins
<1>8. CASE Aborted
  <2>1. NextItem /\ wpc = "aborted"
    BY <1>8 DEF Aborted
  <2>2. (wpc' = "pull" /\ it' = it + 1) \/ wpc' = "done"
    BY <2>1, ItemTypes
  <2>3. Sends(CleanUp) /\ CleanUp.md = NoMd /\ CleanUp.action = "unstage" /\ work'.staged = {}
    BY <1>8, AbortedTypes
  <2> QED
    BY <2>1, <2>2, <2>3 DEF Begins
<1> QED
  BY <1>1, <1>2, <1>3, <1>4, <1>5, <1>6, <1>7, <1>8 DEF Worker

\* What a new instruction does to the order: it is the last.
LEMMA SendOrder ==
  ASSUME TypeInv, OrderInv, NEW m, Sends(m)
  PROVE  /\ OrderInv' /\ InFlight' = InFlight \cup {m}
         /\ \A n \in InFlight : n.no \in Nat /\ n.no < m.no
<1>1. /\ \A n \in InFlight : n.no \in Nat /\ n.no < m.no
      /\ running' = running /\ tasks' = Append(tasks, m) /\ tasks \in Seq(ToSet(tasks))
  BY DEF TypeInv, TaskInv, Sends
<1>2. /\ ToSet(tasks') = ToSet(tasks) \cup {m} /\ Len(tasks) \in Nat /\ Len(tasks') = Len(tasks) + 1
      /\ \A i \in 1..Len(tasks) : tasks'[i] = tasks[i] /\ tasks[i] \in InFlight
      /\ tasks'[Len(tasks) + 1] = m
  <2>1. \A i \in 1..Len(tasks) : tasks[i] \in InFlight
    BY <1>1 DEF InFlight, ToSet
  <2> QED
    BY <1>1, <2>1, AppendFacts
<1>3. InFlight' = InFlight \cup {m}
  BY <1>1, <1>2 DEF InFlight
<1>4. \A i, j \in 1..Len(tasks') : i < j => tasks'[i].no < tasks'[j].no
  <2>1. SUFFICES ASSUME NEW i \in 1..Len(tasks'), NEW j \in 1..Len(tasks'), i < j
                 PROVE  tasks'[i].no < tasks'[j].no
    OBVIOUS
  <2>2. i \in 1..Len(tasks) /\ (j \in 1..Len(tasks) \/ j = Len(tasks) + 1)
    BY <1>2, <2>1
  <2> QED
    BY <1>1, <1>2, <2>1, <2>2 DEF OrderInv
<1>5. \A t \in running', j \in 1..Len(tasks') : t.m.no < tasks'[j].no
  <2>1. SUFFICES ASSUME NEW t \in running, NEW j \in 1..Len(tasks')
                 PROVE  t.m.no < tasks'[j].no
    BY <1>1
  <2>2. t.m \in InFlight /\ (j \in 1..Len(tasks) \/ j = Len(tasks) + 1)
    BY <1>2 DEF InFlight
  <2> QED
    BY <1>1, <1>2, <2>1, <2>2 DEF OrderInv
<1> QED
  BY <1>1, <1>3, <1>4, <1>5 DEF OrderInv

\* The next instruction goes to a thread, or is dropped.
LEMMA StartOrder ==
  ASSUME TypeInv, OrderInv, StartTask
  PROVE  OrderInv'
<1> DEFINE m == Head(tasks)
           new == [m |-> m, saved |-> stdout, replied |-> FALSE]
<1>1. /\ tasks # <<>> /\ tasks' = Tail(tasks) /\ (running' = running \/ running' = running \cup {new})
  BY DEF StartTask
<1>2. new.m = m /\ ~new.replied
  OBVIOUS
<1>3. /\ Len(tasks) \in Nat \ {0} /\ Len(tasks') = Len(tasks) - 1 /\ m = tasks[1]
      /\ \A i \in 1..(Len(tasks) - 1) : tasks'[i] = tasks[i + 1]
  BY <1>1, TailFacts DEF TypeInv, TaskInv
<1> HIDE DEF m, new
<1>4. \A i \in 1..Len(tasks') : /\ i + 1 \in 1..Len(tasks) /\ tasks'[i] = tasks[i + 1]
                               /\ 1 \in 1..Len(tasks) /\ 1 < i + 1
  BY <1>3
<1>5. \A i, j \in 1..Len(tasks') : i < j => tasks'[i].no < tasks'[j].no
  <2>1. \A i, j \in 1..Len(tasks') : i < j => i + 1 < j + 1
    OBVIOUS
  <2> QED
    BY <1>4, <2>1 DEF OrderInv
<1>6. \A t \in running', j \in 1..Len(tasks') : t.m.no < tasks'[j].no
  BY <1>1, <1>2, <1>3, <1>4 DEF OrderInv
<1>7. \A t, u \in running' : t.m.no = u.m.no => t = u
  <2>1. \A t \in running : t.m.no < m.no /\ t.m.no \in Nat /\ m.no \in Nat
    <3>1. 1 \in 1..Len(tasks) /\ m \in InFlight /\ \A t \in running : t.m \in InFlight
      BY <1>3 DEF InFlight, ToSet, TypeInv, TaskInv
    <3> QED
      BY <1>3, <3>1 DEF OrderInv, TypeInv, TaskInv
  <2>2. \A t \in running : t.m.no # new.m.no
    BY <1>2, <2>1
  <2> QED
    BY <1>1, <2>2 DEF OrderInv
<1> QED
  BY <1>1, <1>2, <1>5, <1>6, <1>7 DEF OrderInv

\* A handler takes its instruction from the threads; the one of rpc keeps it at first.
LEMMA HandleOrder ==
  ASSUME TypeInv, OrderInv, HandleTask
  PROVE  OrderInv' /\ InFlight' \subseteq InFlight /\ tasks' = tasks
<1>1. PICK t \in running :
        \/ SetDevice(t) \/ ReadDevice(t) \/ TriggerDevice(t) \/ KickoffDevice(t)
        \/ CompleteDevice(t) \/ PreScanDevice(t) \/ StageDevice(t) \/ UnstageDevice(t)
        \/ RunRpc(t) \/ RestoreStdout(t)
  BY DEF HandleTask
<1>2. CASE RunRpc(t)
  <2> DEFINE u == [t EXCEPT !.replied = TRUE]
  <2>1. running' = (running \ {t}) \cup {u} /\ tasks' = tasks /\ t.m.action = "rpc"
    BY <1>2 DEF RunRpc, ServerKeeps
  <2>2. u.m = t.m
    BY DEF TypeInv, TaskInv
  <2> HIDE DEF u
  <2>3. \A x, y \in running' : x.m.no = y.m.no => x = y
    BY <2>1, <2>2 DEF OrderInv
  <2> QED
    BY <2>1, <2>2, <2>3 DEF OrderInv, InFlight
<1>3. CASE ~RunRpc(t)
  <2>1. \E action : Handles(t, action)
    BY Zenon, <1>1, <1>3 DEF SetDevice, ReadDevice, TriggerDevice, KickoffDevice, CompleteDevice,
       PreScanDevice, StageDevice, UnstageDevice, RestoreStdout
  <2>2. running' = running \ {t} /\ tasks' = tasks
    BY <2>1 DEF Handles, ServerKeeps
  <2> QED
    BY <2>2 DEF OrderInv, InFlight
<1> QED
  BY <1>2, <1>3
LEMMA KeepsFlight ==
  ASSUME UNCHANGED <<tasks, running>>
  PROVE  InFlight' = InFlight /\ (OrderInv => OrderInv')
BY DEF InFlight, OrderInv

LEMMA OrderHolds ==
  ASSUME TypeInv, OrderInv, [Next]_vars
  PROVE  OrderInv'
<1>1. CASE Worker
  <2>1. UNCHANGED running
    BY <1>1, WorkerTypes
  <2>2. UNCHANGED tasks \/ \E m : Sends(m)
    BY <1>1, WorkerMoves DEF Goes, Instructs, GoesOn, Begins
  <2> QED
    BY <2>1, <2>2, SendOrder, KeepsFlight
<1>2. CASE Callback \/ StopDevices \/ Interrupt \/ UNCHANGED vars
  <2>1. UNCHANGED <<tasks, running>>
    <3>1. Callback \/ StopDevices => UNCHANGED <<tasks, running>>
      BY CallbackTypes DEF DeviceKeeps
    <3>2. Interrupt \/ UNCHANGED vars => UNCHANGED <<tasks, running>>
      BY DEF Interrupt, vars
    <3> QED
      BY <1>2, <3>1, <3>2
  <2> QED
    BY <2>1, KeepsFlight
<1> QED
  BY <1>1, <1>2, StartOrder, HandleOrder DEF Next, Polls, Finished

\* Nothing on its way, and nothing in redis, is of an item that is still to come.
LEMMA NextUnknown ==
  ASSUME TypeInv, it' = it + 1, NEW md \in KnownMarks
  PROVE  md.rid[1] # it' /\ ~Current(md)'
<1>1. it \in Nat
  BY PlaceFacts DEF TypeInv, PlaceInv
<1>2. md = NoMd \/ md.rid[1] \in 1..it
  BY DEF KnownMarks, Known
<1>3. NoMd.rid[1] = 0
  BY DEF NoMd
<1>4. md.rid[1] # it'
  BY <1>1, <1>2, <1>3
<1> QED
  BY <1>4 DEF Current
LEMMA OlderHolds ==
  ASSUME TypeInv, OrderInv, OlderFirst, [Next]_vars
  PROVE  OlderFirst'
<1>1. ASSUME InFlight' \subseteq InFlight, it' = it, wpc' # "done" => wpc # "done" PROVE OlderFirst'
  BY <1>1 DEF OlderFirst, Current
<1>2. CASE Worker
  <2>0. wpc # "done" /\ UNCHANGED running
    BY <1>2, WorkerMoves, WorkerTypes
  <2>1. CASE Goes \/ GoesOn
    <3>1. InFlight' = InFlight /\ it' = it
      BY <2>0, <2>1, KeepsFlight DEF Goes, GoesOn
    <3> QED
      BY <1>1, <2>0, <3>1
  <2>2. CASE \E m : Instructs(m)
    <3>1. PICK m : it' = it /\ Sends(m) /\ Current(m.md)
      BY <2>2 DEF Instructs
    <3>2. InFlight' = InFlight \cup {m} /\ \A n \in InFlight : n.no \in Nat /\ n.no < m.no
      BY <3>1, SendOrder
    <3> QED
      BY <2>0, <3>1, <3>2 DEF OlderFirst, Current
  <2>3. CASE Begins
    <3>1. it' = it + 1 /\ (InFlight' = InFlight \/ \E m : InFlight' = InFlight \cup {m} /\ m.md = NoMd)
      <4>1. it' = it + 1 /\ (UNCHANGED tasks \/ \E m : Sends(m) /\ m.md = NoMd)
        BY <2>3 DEF Begins
      <4> QED
        BY <2>0, <4>1, KeepsFlight, SendOrder
    <3>2. NoMd \in KnownMarks /\ \A m \in InFlight : m.md \in KnownMarks
      BY MarkFacts DEF TypeInv, TaskInv
    <3>3. \A m \in InFlight' : m.md \in KnownMarks
      BY <3>1, <3>2
    <3>4. \A m \in InFlight' : ~Current(m.md)'
      BY <3>1, <3>3, NextUnknown DEF Current
    <3> QED
      BY <3>4 DEF OlderFirst, Current
  <2>4. CASE wpc' = "done"
    BY <2>4 DEF OlderFirst
  <2> QED
    BY <1>2, <2>1, <2>2, <2>3, <2>4, WorkerMoves
<1>3. CASE StartTask
  BY <1>1, <1>3, StartTypes, OthersKeep
<1>4. CASE HandleTask
  BY <1>1, <1>4, HandleOrder, OthersKeep
<1>5. CASE Callback \/ StopDevices \/ Interrupt \/ UNCHANGED vars
  <2>1. UNCHANGED <<tasks, running>>
    <3>1. Callback \/ StopDevices => UNCHANGED <<tasks, running>>
      BY CallbackTypes DEF DeviceKeeps
    <3>2. Interrupt \/ UNCHANGED vars => UNCHANGED <<tasks, running>>
      BY DEF Interrupt, vars
    <3> QED
      BY <1>5, <3>1, <3>2
  <2> QED
    BY <1>1, <1>5, <2>1, KeepsFlight, OthersKeep
<1> QED
  BY <1>2, <1>3, <1>4, <1>5 DEF Next, Polls, Finished

\* A stage or unstage that is not carried out of turn is the first of them.
LEMMA HandledFirst ==
  ASSUME TypeInv, OrderInv, NEW t \in running, NEW action \in {"stage", "unstage"},
         Handles(t, action), ~reordered', Devices # {}
  PROVE  \A m \in InFlight' : m.action \in {"stage", "unstage"} => /\ t.m.no < m.no /\ t.m.no \in Nat
                                                                   /\ m.no \in Nat
<1>1. /\ running' = running \ {t} /\ tasks' = tasks /\ t.m.action = action
      /\ \A u \in running : u.m.device \cap t.m.device # {} /\ ~u.replied => ~(u.m.no < t.m.no)
  BY DEF Handles, ServerKeeps
<1>2. \A m \in InFlight : m.no \in Nat /\ (m.action \in {"stage", "unstage"} => m.device = Devices)
  BY DEF TypeInv, TaskInv
<1>3. t.m \in InFlight /\ t.m.no \in Nat /\ t.m.device = Devices
  <2>1. t.m \in InFlight
    BY DEF InFlight
  <2> QED
    BY <1>1, <1>2, <2>1
<1>4. ASSUME NEW m \in ToSet(tasks) PROVE t.m.no < m.no
  <2>1. PICK i \in 1..Len(tasks) : tasks[i] = m
    BY <1>4 DEF ToSet, TypeInv, TaskInv
  <2> QED
    BY <2>1 DEF OrderInv
<1>5. ASSUME NEW u \in running', u.m.action \in {"stage", "unstage"} PROVE t.m.no < u.m.no
  <2>1. u \in running /\ u # t /\ u.m \in InFlight
    BY <1>1 DEF InFlight
  <2>2. u.m.no \in Nat /\ u.m.device = Devices /\ ~u.replied
    BY <1>2, <1>5, <2>1 DEF OrderInv
  <2>3. ~(u.m.no < t.m.no) /\ u.m.no # t.m.no
    BY <1>1, <1>3, <2>1, <2>2 DEF OrderInv
  <2> QED
    BY <1>3, <2>2, <2>3
<1>6. InFlight' = ToSet(tasks) \cup {u.m : u \in running'} /\ InFlight' \subseteq InFlight
  BY <1>1 DEF InFlight
<1> QED
  BY <1>2, <1>3, <1>4, <1>5, <1>6

\* What is on its way becomes less, and the devices stay as they are.
LEMMA Settled ==
  ASSUME InFlight' \subseteq InFlight, UNCHANGED <<it, wpc, staged, stagedDevs, work, cur>>,
         ~reordered' => ~reordered, StagingInv
  PROVE  StagingInv'
<1>1. /\ StageSent' \subseteq StageSent /\ UnstageSent' \subseteq UnstageSent
      /\ \A d \in Devices : On(d)' = On(d) /\ Off(d)' = Off(d)
      /\ \A md : Current(md)' = Current(md)
  BY DEF StageSent, UnstageSent, On, Off, Current
<1>2. (Steady => Steady') /\ (Staging => Staging') /\ (Unstaging => Unstaging')
  <2>1. Steady => Steady'
    BY <1>1 DEF Steady
  <2>2. Staging => Staging'
    BY <1>1 DEF Staging
  <2>3. Unstaging => Unstaging'
    BY <1>1 DEF Unstaging
  <2> QED
    BY <2>1, <2>2, <2>3
<1>3. /\ ScanningOn' => ScanningOn
      /\ WaitsFor("stage")' = WaitsFor("stage") /\ WaitsFor("unstage")' = WaitsFor("unstage")
  BY DEF ScanningOn, WaitsFor
<1> QED
  BY <1>2, <1>3 DEF StagingInv

LEMMA StagingHolds ==
  ASSUME TypeInv, OrderInv, OlderFirst, WaitsInv, StagingInv, [Next]_vars
  PROVE  StagingInv'
<1>s. \A d \in Devices : staged[d].md \in KnownMarks /\ staged[d].on \in BOOLEAN
  BY DEF TypeInv, RedisInv, Entries
<1>1. CASE Worker
  <2>0. /\ UNCHANGED <<staged, stagedDevs, reordered, running>> /\ stagedDevs' \subseteq Devices
        /\ \A d \in Devices : d \in stagedDevs' <=> staged'[d].on
    BY <1>1, WorkerTypes DEF device, redis, StagingInv
  <2>1. ASSUME wpc' \notin {"pull", "wait"} \/ work'.returning PROVE StagingInv'
    BY <2>0, <2>1 DEF StagingInv, ScanningOn, WaitsFor
  <2>2. ASSUME ScanningOn, wpc = "pull" PROVE Steady
    BY <2>2 DEF StagingInv, WaitsFor
  <2>p. ASSUME ScanningOn' => Steady', ~WaitsFor("stage")', ~WaitsFor("unstage")' PROVE StagingInv'
    BY <2>0, <2>p DEF StagingInv
  <2>c. ASSUME it' = it PROVE /\ \A d \in Devices : On(d)' = On(d) /\ Off(d)' = Off(d)
                              /\ \A md : Current(md)' = Current(md)
    BY <2>0, <2>c DEF On, Off, Current
  <2>3. CASE Goes
    <3>1. CASE wpc' \notin {"pull", "wait"} \/ work'.returning
      BY <2>1, <3>1
    <3>2. CASE ~(wpc' \notin {"pull", "wait"} \/ work'.returning)
      <4>1. /\ UNCHANGED <<it, tasks>> /\ work'.staged = work.staged /\ wpc = "pull"
            /\ work'.returning = work.returning
            /\ (wpc' = "pull" \/ (wpc' = "wait" /\ cur'.step.action = "wait"))
        BY <2>3, <3>2 DEF Goes
      <4>2. InFlight' = InFlight
        BY <2>0, <4>1, KeepsFlight
      <4>3. Steady => Steady'
        BY <2>0, <2>c, <4>1, <4>2 DEF Steady, StageSent, UnstageSent
      <4>4. ScanningOn' => ScanningOn
        BY <2>0, <4>1 DEF ScanningOn
      <4>5. ~WaitsFor("stage")' /\ ~WaitsFor("unstage")'
        BY <4>1 DEF WaitsFor
      <4> QED
        BY <2>2, <2>p, <4>1, <4>3, <4>4, <4>5
    <3> QED
      BY <3>1, <3>2
  <2>4. CASE \E m : Instructs(m)
    <3>1. PICK m : Instructs(m)
      BY <2>4
    <3>2. /\ it' = it /\ wpc = "pull" /\ work'.returning = work.returning /\ Sends(m) /\ Current(m.md)
          /\ \/ wpc' = "pull" /\ m.action \notin {"stage", "unstage"} /\ work'.staged = work.staged
             \/ /\ wpc' = "wait" /\ cur'.step.action = m.action
                /\ \/ m.action = "stage" /\ work'.staged = Devices
                   \/ m.action = "unstage" /\ work'.staged = {}
                   \/ m.action = "pre_scan" /\ work'.staged = work.staged
      BY <3>1 DEF Instructs
    <3>3. InFlight' = InFlight \cup {m} /\ \A n \in InFlight : n.no \in Nat /\ n.no < m.no
      BY <3>2, SendOrder
    <3>4. ScanningOn' => ScanningOn /\ Steady
      BY <2>0, <2>2, <3>2 DEF ScanningOn
    <3>5. CASE m.action \notin {"stage", "unstage"}
      <4>1. StageSent' = StageSent /\ UnstageSent' = UnstageSent
        BY <2>c, <3>2, <3>3, <3>5 DEF StageSent, UnstageSent
      <4>2. Steady => Steady'
        BY <2>0, <2>c, <3>2, <3>5, <4>1 DEF Steady
      <4>3. ~WaitsFor("stage")' /\ ~WaitsFor("unstage")'
        BY <3>2, <3>5 DEF WaitsFor
      <4> QED
        BY <2>p, <3>4, <4>2, <4>3
    <3>6. CASE m.action = "stage"
      <4>1. UnstageSent' = UnstageSent /\ StageSent' = StageSent \cup {m}
        BY <2>c, <3>2, <3>3, <3>6 DEF StageSent, UnstageSent
      <4>2. Steady => Staging'
        <5>1. CASE work.staged # {}
          BY <4>1, <5>1 DEF Steady, Staging
        <5>2. CASE work.staged = {}
          <6>1. \A n \in UnstageSent : n.no < m.no
            BY <3>3 DEF UnstageSent
          <6> QED
            BY <2>c, <3>2, <4>1, <5>2, <6>1 DEF Steady, Staging
        <5> QED
          BY <5>1, <5>2
      <4>3. WaitsFor("stage")' /\ ~WaitsFor("unstage")' /\ work'.staged = Devices
        BY <3>2, <3>6 DEF WaitsFor
      <4> QED
        BY <2>0, <3>4, <4>2, <4>3 DEF StagingInv
    <3>7. CASE m.action = "unstage"
      <4>1. UnstageSent' = UnstageSent \cup {m} /\ StageSent' = StageSent
        BY <2>c, <3>2, <3>3, <3>7 DEF StageSent, UnstageSent
      <4>2. Steady => Unstaging'
        <5>1. CASE work.staged # {}
          <6>1. \A n \in StageSent : n.no < m.no
            BY <3>3 DEF StageSent
          <6> QED
            BY <2>c, <3>2, <4>1, <5>1, <6>1 DEF Steady, Unstaging, Off
        <5>2. CASE work.staged = {}
          BY <4>1, <5>2 DEF Steady, Unstaging
        <5> QED
          BY <5>1, <5>2
      <4>3. WaitsFor("unstage")' /\ ~WaitsFor("stage")' /\ work'.staged = {}
        BY <3>2, <3>7 DEF WaitsFor
      <4> QED
        BY <2>0, <3>4, <4>2, <4>3 DEF StagingInv
    <3> QED
      BY <3>5, <3>6, <3>7
  <2>5. CASE GoesOn
    <3>1. EndWait /\ UNCHANGED <<it, tasks, work>> /\ wpc = "wait" /\ wpc' = "pull"
      BY <2>5 DEF GoesOn
    <3>2. InFlight' = InFlight
      BY <2>0, <3>1, KeepsFlight
    <3>3. Steady => Steady'
      BY <2>0, <2>c, <3>1, <3>2 DEF Steady, StageSent, UnstageSent
    <3>4. ScanningOn' => ScanningOn
      BY <2>0, <3>1 DEF ScanningOn
    <3>5. ~WaitsFor("stage")' /\ ~WaitsFor("unstage")'
      BY <3>1 DEF WaitsFor
    <3>6. ASSUME cur.step.action \in {"stage", "unstage"}, NEW d \in Devices
          PROVE  Current(staged[d].md) /\ staged[d].on = (cur.step.action = "stage")
      <4>1. StagesOver /\ Type = cur.step.action
        <5>1. Type = cur.step.action
          BY <3>6 DEF Type
        <5> QED
          BY <3>1, <3>6, <5>1 DEF EndWait, WaitOver
      <4>2. staged[d].md.scan = cur.md.scan /\ staged[d].on = (cur.step.action = "stage")
        BY <4>1 DEF StagesOver, SameScan
      <4>3. cur.md.scan[1] = it /\ it # 0
        <5>1. cur.md \in KnownMarks /\ Current(cur.md) /\ it # 0 /\ NoMd.rid[1] = 0
          BY <3>1, PlaceFacts DEF TypeInv, PlaceInv, WorkerInv, WaitsInv, NoMd
        <5> QED
          BY <5>1 DEF KnownMarks, Known, Current
      <4>4. staged[d].md # NoMd
        BY <4>2, <4>3 DEF NoMd
      <4>5. staged[d].md.scan[1] = staged[d].md.rid[1]
        BY <1>s, <4>4 DEF KnownMarks, Known
      <4> QED
        BY <4>2, <4>3, <4>5 DEF Current
    <3>7. ScanningOn /\ WaitsFor("stage") => Steady
      BY <3>6 DEF StagingInv, ScanningOn, WaitsFor, Staging, Steady, On
    <3>8. ScanningOn /\ WaitsFor("unstage") => Steady
      BY <3>6 DEF StagingInv, ScanningOn, WaitsFor, Unstaging, Steady, On, Off
    <3> QED
      BY <2>p, <3>3, <3>4, <3>5, <3>7, <3>8 DEF StagingInv
  <2>6. CASE Begins
    <3>1. it' = it + 1 /\ wpc' = "pull"
      BY <2>6 DEF Begins
    <3>2. \A d \in Devices : ~On(d)'
      BY <1>s, <2>0, <3>1, NextUnknown DEF On, Current
    <3>3. /\ NoMd \in KnownMarks /\ \A m \in InFlight : m.md \in KnownMarks
      BY MarkFacts DEF TypeInv, TaskInv
    <3>4. ASSUME InFlight' = InFlight \/ \E m : InFlight' = InFlight \cup {m} /\ m.md = NoMd
          PROVE  StageSent' = {}
      <4>1. \A m \in InFlight' : m.md \in KnownMarks
        BY <3>3, <3>4
      <4> QED
        BY <3>1, <4>1, NextUnknown DEF StageSent, Current
    <3>5. ~WaitsFor("stage")' /\ ~WaitsFor("unstage")'
      BY <3>1 DEF WaitsFor
    <3>6. CASE wpc = "pull" /\ ~work.returning /\ UNCHANGED tasks /\ work'.staged = work.staged
      <4>1. InFlight' = InFlight
        BY <2>0, <3>6, KeepsFlight
      <4>2. ScanningOn' => Steady
        BY <2>0, <2>2, <3>6 DEF ScanningOn
      <4>3. Steady => Steady'
        BY <2>0, <3>2, <3>4, <3>6, <4>1 DEF Steady, UnstageSent
      <4> QED
        BY <2>p, <3>5, <4>2, <4>3
    <3>7. CASE /\ \E m : Sends(m) /\ m.md = NoMd /\ m.action = "unstage"
               /\ work'.staged = {}
      <4>1. \E m : InFlight' = InFlight \cup {m} /\ m.md = NoMd
        BY <3>7, SendOrder
      <4>2. Steady'
        BY <3>2, <3>4, <3>7, <4>1 DEF Steady
      <4> QED
        BY <2>p, <3>5, <4>2
    <3> QED
      BY <2>6, <3>6, <3>7 DEF Begins
  <2>7. CASE wpc' = "done"
    BY <2>1, <2>7
  <2> QED
    BY <1>1, <2>3, <2>4, <2>5, <2>6, <2>7, WorkerMoves
<1>2. CASE StartTask
  <2>1. InFlight' \subseteq InFlight /\ UNCHANGED <<stagedDevs, redis, reordered>>
    BY <1>2, StartTypes
  <2> QED
    BY <1>2, <2>1, OthersKeep, Settled DEF redis
<1>3. CASE HandleTask
  <2>0. UNCHANGED <<it, wpc, work, cur>> /\ InFlight' \subseteq InFlight
    BY <1>3, OthersKeep, HandleOrder
  <2>1. PICK t \in running :
          \/ SetDevice(t) \/ ReadDevice(t) \/ TriggerDevice(t) \/ KickoffDevice(t)
          \/ CompleteDevice(t) \/ PreScanDevice(t) \/ StageDevice(t) \/ UnstageDevice(t)
          \/ RunRpc(t) \/ RestoreStdout(t)
    BY <1>3 DEF HandleTask
  <2>2. CASE ~StageDevice(t) /\ ~UnstageDevice(t)
    <3>1. UNCHANGED <<staged, stagedDevs>>
      BY Zenon, <2>1, <2>2 DEF SetDevice, ReadDevice, TriggerDevice, KickoffDevice, CompleteDevice,
         PreScanDevice, RunRpc, RestoreStdout, device, redis
    <3>2. reordered' = reordered \/ \E action : Handles(t, action)
      BY Zenon, <2>1, <2>2 DEF SetDevice, ReadDevice, TriggerDevice, KickoffDevice, CompleteDevice,
         PreScanDevice, RunRpc, RestoreStdout
    <3>3. ~reordered' => ~reordered
      BY <3>2 DEF Handles
    <3> QED
      BY <2>0, <3>1, <3>3, Settled
  <2>3. ASSUME NEW action \in {"stage", "unstage"}, Handles(t, action)
        PROVE  /\ t.m \in InFlight /\ t.m.device = Devices /\ t.m.action = action
               /\ ~reordered' => ~reordered
               /\ \A md : Current(md)' = Current(md)
               /\ StageSent' \subseteq StageSent /\ UnstageSent' \subseteq UnstageSent
    <3>1. t.m \in InFlight /\ t.m.action = action /\ (~reordered' => ~reordered)
      BY <2>3 DEF Handles, InFlight
    <3>2. \A md : Current(md)' = Current(md)
      BY <2>0 DEF Current
    <3> QED
      BY <2>0, <3>1, <3>2 DEF TypeInv, TaskInv, StageSent, UnstageSent
  <2>4. ASSUME NEW action \in {"stage", "unstage"}, NEW on \in BOOLEAN, t.m.device = Devices,
               staged' = In(t, Entry(t.m.md, on), staged)
        PROVE  \A d \in Devices : staged'[d].md = t.m.md /\ staged'[d].on = on
    BY <2>4 DEF In, Entry
  <2>5. ScanningOn' => Devices # {} /\ ~reordered'
    BY DEF ScanningOn
  <2>6. WaitsFor("stage")' = WaitsFor("stage") /\ WaitsFor("unstage")' = WaitsFor("unstage")
    BY <2>0 DEF WaitsFor
  <2>7. CASE StageDevice(t)
    <3>1. /\ Handles(t, "stage") /\ staged' = In(t, Entry(t.m.md, TRUE), staged)
          /\ stagedDevs' = stagedDevs \cup t.m.device
      BY <2>7 DEF StageDevice
    <3>2. /\ t.m \in InFlight /\ t.m.device = Devices /\ t.m.action = "stage"
          /\ (~reordered' => ~reordered) /\ \A md : Current(md)' = Current(md)
          /\ StageSent' \subseteq StageSent /\ UnstageSent' \subseteq UnstageSent
      BY <2>3, <3>1
    <3>3. \A d \in Devices : staged'[d].md = t.m.md /\ staged'[d].on
      BY <2>4, <3>1, <3>2
    <3>4. stagedDevs' = Devices
      BY <3>1, <3>2 DEF StagingInv
    <3>5. /\ \A d \in Devices : ~Off(d)' /\ (On(d)' => Current(t.m.md))
          /\ Current(t.m.md) => t.m \in StageSent
      BY <3>2, <3>3 DEF On, Off, StageSent
    <3>6. ScanningOn' => ScanningOn
      BY <2>0, <3>2 DEF ScanningOn
    <3>7. ScanningOn' /\ Staging => Staging'
      <4>1. SUFFICES ASSUME ScanningOn', Staging, Current(t.m.md), NEW m \in UnstageSent' PROVE FALSE
        BY <3>2, <3>5 DEF Staging
      <4>2. m \in InFlight' /\ m.action = "unstage" /\ m \in UnstageSent /\ m \in InFlight
        BY <2>0, <3>2, <4>1 DEF UnstageSent
      <4>3. t.m.no < m.no /\ t.m.no \in Nat /\ m.no \in Nat
        BY <2>5, <3>1, <4>1, <4>2, HandledFirst
      <4>4. CASE Current(m.md)
        <5>1. m.no < t.m.no
          BY <3>5, <4>1, <4>2, <4>4 DEF Staging
        <5> QED
          BY <4>3, <5>1
      <4>5. CASE ~Current(m.md)
        <5>1. wpc # "done"
          BY <3>6, <4>1 DEF ScanningOn
        <5>2. m.no < t.m.no
          BY <3>2, <4>1, <4>2, <4>5, <5>1 DEF OlderFirst
        <5> QED
          BY <4>3, <5>2
      <4> QED
        BY <4>4, <4>5
    <3>8. Unstaging => Unstaging'
      BY <3>2, <3>5 DEF Unstaging
    <3>9. Steady => Steady'
      BY <2>0, <3>2, <3>3, <3>5 DEF Steady
    <3> QED
      BY <2>0, <2>6, <3>3, <3>4, <3>6, <3>7, <3>8, <3>9 DEF StagingInv
  <2>8. CASE UnstageDevice(t)
    <3>1. /\ Handles(t, "unstage") /\ staged' = In(t, Entry(t.m.md, FALSE), staged)
          /\ stagedDevs' = stagedDevs \ t.m.device
      BY <2>8 DEF UnstageDevice
    <3>2. /\ t.m \in InFlight /\ t.m.device = Devices /\ t.m.action = "unstage"
          /\ (~reordered' => ~reordered) /\ \A md : Current(md)' = Current(md)
          /\ StageSent' \subseteq StageSent /\ UnstageSent' \subseteq UnstageSent
      BY <2>3, <3>1
    <3>3. \A d \in Devices : staged'[d].md = t.m.md /\ ~staged'[d].on
      BY <2>4, <3>1, <3>2
    <3>4. stagedDevs' = {}
      BY <3>1, <3>2 DEF StagingInv
    <3>5. /\ \A d \in Devices : ~On(d)' /\ (Off(d)' => Current(t.m.md))
          /\ t.m \in UnstageSent
      BY <3>2, <3>3 DEF On, Off, UnstageSent
    <3>6. ScanningOn' => ScanningOn
      BY <2>0, <3>2 DEF ScanningOn
    <3>7. ScanningOn' /\ Unstaging => Unstaging'
      <4>1. SUFFICES ASSUME ScanningOn', Unstaging, Current(t.m.md), NEW n \in StageSent' PROVE FALSE
        BY <3>2, <3>5 DEF Unstaging
      <4>2. n \in InFlight' /\ n.action = "stage" /\ n \in StageSent
        BY <3>2, <4>1 DEF StageSent
      <4>3. t.m.no < n.no /\ t.m.no \in Nat /\ n.no \in Nat
        BY <2>5, <3>1, <4>1, <4>2, HandledFirst
      <4>4. n.no < t.m.no
        BY <3>5, <4>1, <4>2 DEF Unstaging
      <4> QED
        BY <4>3, <4>4
    <3>8. Staging => Staging'
      BY <3>2, <3>5 DEF Staging
    <3>9. Steady => Steady'
      BY <2>0, <3>2, <3>5 DEF Steady
    <3> QED
      BY <2>0, <2>6, <3>3, <3>4, <3>6, <3>7, <3>8, <3>9 DEF StagingInv
  <2> QED
    BY <2>1, <2>2, <2>7, <2>8
<1>4. CASE Callback \/ StopDevices
  <2>1. UNCHANGED <<tasks, running, staged, stagedDevs, reordered>>
    BY <1>4, CallbackTypes DEF DeviceKeeps
  <2> QED
    BY <1>4, <2>1, OthersKeep, KeepsFlight, Settled
<1>5. CASE Interrupt \/ UNCHANGED vars
  <2>1. UNCHANGED <<tasks, running, staged, stagedDevs, reordered>>
    BY Zenon, <1>5 DEF Interrupt, vars, device, redis
  <2> QED
    BY <1>5, <2>1, OthersKeep, KeepsFlight, Settled
<1> QED
  BY <1>1, <1>2, <1>3, <1>4, <1>5 DEF Next, Polls, Finished

-----------------------------------------------------------------------------
(* The streams of the calls, and the end of the worker's thread.           *)

\* Who is no start of an instruction overlaps no calls.
LEMMA OverlapKept ==
  ASSUME TypeInv, [Next]_vars
  PROVE  StartTask \/ log'.overlap = log.overlap
<1>0. {"answered", "early", "overlap", "outside", "points", "failed", "late", "stopped"} \subseteq DOMAIN log
  BY DEF TypeInv, LogInv, NewLog
<1>1. CASE Worker
  BY <1>1, WorkerLogs
<1>2. CASE HandleTask
  <2>1. \/ log' = log \/ \E v : log' = [log EXCEPT !.outside = v]
        \/ \E v, w : log' = [log EXCEPT !.answered = v, !.points = w]
        \/ \E v : log' = [log EXCEPT !.answered = v]
    BY Zenon, <1>2 DEF HandleTask, SetDevice, ReadDevice, TriggerDevice, KickoffDevice,
         CompleteDevice, PreScanDevice, StageDevice, UnstageDevice, RunRpc, RestoreStdout
  <2> QED
    BY <1>0, <2>1
<1>3. CASE Callback
  <2>1. PICK d \in Devices : \/ Advance(d) \/ Arrive(d) \/ IsMovingCallback(d) \/ TriggerDone(d)
                             \/ KickedOff(d) \/ Emit(d) \/ Land(d) \/ Completed(d)
    BY <1>3 DEF Callback
  <2>2. CASE Advance(d) \/ IsMovingCallback(d) \/ Emit(d) \/ Land(d)
    BY Zenon, <2>2 DEF Advance, IsMovingCallback, Emit, Land
  <2>3. CASE Arrive(d) \/ KickedOff(d) \/ Completed(d)
    <3>1. \E md : log' = Told(d, md)
      BY Zenon, <2>3 DEF Arrive, KickedOff, Completed
    <3> QED
      BY <1>0, <3>1 DEF Told
  <2>4. CASE TriggerDone(d)
    <3>1. \E v : log' = [Told(d, exposing[d].md) EXCEPT !.failed = v]
      BY Zenon, <2>4 DEF TriggerDone
    <3> QED
      BY <1>0, <3>1 DEF Told
  <2> QED
    BY <2>1, <2>2, <2>3, <2>4
<1>4. CASE StopDevices \/ Interrupt
  <2>1. \E v : log' = [log EXCEPT !.answered = v] \/ log' = [log EXCEPT !.stopped = v]
    BY Zenon, <1>4 DEF StopDevices, Interrupt
  <2> QED
    BY <1>0, <2>1
<1>5. CASE UNCHANGED vars
  BY <1>5 DEF vars
<1> QED
  BY <1>1, <1>2, <1>3, <1>4, <1>5 DEF Next, Polls, Finished

LEMMA StdoutHolds ==
  ASSUME TypeInv, OrderInv, StdoutInv, [Next]_vars
  PROVE  StdoutInv'
<1>1. ASSUME UNCHANGED <<running, stdout>>, log'.overlap = log.overlap PROVE StdoutInv'
  BY <1>1 DEF StdoutInv, IsRpc
<1>o. ~StartTask => log'.overlap = log.overlap
  BY OverlapKept
<1>2. CASE Worker \/ Callback \/ StopDevices \/ Interrupt \/ UNCHANGED vars
  <2>1. Worker \/ Callback \/ StopDevices => UNCHANGED <<running, stdout>>
    BY WorkerTypes, CallbackTypes DEF DeviceKeeps, device
  <2>2. Interrupt \/ UNCHANGED vars => UNCHANGED <<running, stdout>> /\ log'.overlap = log.overlap
    <3>1. Interrupt \/ UNCHANGED vars =>
            /\ UNCHANGED <<running, stdout>>
            /\ (log' = log \/ log' = [log EXCEPT !.stopped = TRUE])
      BY Zenon DEF Interrupt, vars, device
    <3> QED
      BY <3>1 DEF TypeInv, LogInv, NewLog
  <2>3. Worker \/ Callback \/ StopDevices => UNCHANGED tasks \/ Worker
    BY CallbackTypes DEF DeviceKeeps
  <2>4. StartTask /\ UNCHANGED <<tasks>> => FALSE
    <3>1. StartTask => tasks # <<>> /\ tasks' = Tail(tasks)
      BY DEF StartTask
    <3> QED
      BY <3>1, TailFacts DEF TypeInv, TaskInv
  <2>5. Worker => log'.overlap = log.overlap
    BY WorkerLogs
  <2> QED
    BY <1>1, <1>2, <1>o, <2>1, <2>2, <2>3, <2>4, <2>5
<1>3. CASE StartTask
  <2> DEFINE m == Head(tasks)
             new == [m |-> m, saved |-> stdout, replied |-> FALSE]
             rpc == m.action = "rpc" /\ m.device # {}
  <2>1. /\ running' = IF m.device = {} THEN running ELSE running \cup {new}
        /\ stdout' = IF rpc THEN m.md ELSE stdout
        /\ log' = [log EXCEPT !.overlap = @ \/ (rpc /\ \E r \in running : r.m.action = "rpc")]
    BY <1>3 DEF StartTask
  <2>2. log'.overlap = (log.overlap \/ (rpc /\ \E r \in running : r.m.action = "rpc"))
    BY <2>1 DEF TypeInv, LogInv, NewLog
  <2>3. new.m = m /\ new.saved = stdout
    OBVIOUS
  <2>4. CASE rpc
    <3>1. ~log'.overlap => ~log.overlap /\ (\A r \in running : ~IsRpc(r)) /\ stdout = NoMd
      BY <2>2, <2>4 DEF StdoutInv, IsRpc
    <3>2. running' = running \cup {new} /\ new.m.action = "rpc"
      BY <2>1, <2>3, <2>4
    <3> HIDE DEF new, rpc, m
    <3> QED
      BY <2>3, <3>1, <3>2 DEF StdoutInv, IsRpc
  <2>5. CASE ~rpc
    <3>1. stdout' = stdout /\ (~log'.overlap => ~log.overlap)
      BY <2>1, <2>2, <2>5
    <3>2. running' = running \/ (running' = running \cup {new} /\ new.m.action # "rpc")
      BY <2>1, <2>3, <2>5
    <3> HIDE DEF new, rpc, m
    <3> QED
      BY <3>1, <3>2 DEF StdoutInv, IsRpc
  <2> QED
    BY <2>4, <2>5
<1>4. CASE HandleTask
  <2>1. PICK t \in running :
          \/ SetDevice(t) \/ ReadDevice(t) \/ TriggerDevice(t) \/ KickoffDevice(t)
          \/ CompleteDevice(t) \/ PreScanDevice(t) \/ StageDevice(t) \/ UnstageDevice(t)
          \/ RunRpc(t) \/ RestoreStdout(t)
    BY <1>4 DEF HandleTask
  <2>2. log'.overlap = log.overlap
    <3>1. StartTask => FALSE
      <4>1. StartTask => tasks # <<>> /\ tasks' = Tail(tasks)
        BY DEF StartTask
      <4> QED
        BY <1>4, <4>1, HandleOrder, TailFacts DEF TypeInv, TaskInv
    <3> QED
      BY <1>o, <3>1
  <2>3. CASE RunRpc(t)
    <3> DEFINE u == [t EXCEPT !.replied = TRUE]
    <3>1. running' = (running \ {t}) \cup {u} /\ stdout' = stdout /\ t.m.action = "rpc"
      BY <2>3, Zenon DEF RunRpc, device
    <3>2. u.m = t.m /\ u.saved = t.saved
      BY DEF TypeInv, TaskInv
    <3> HIDE DEF u
    <3> QED
      BY <2>2, <3>1, <3>2 DEF StdoutInv, IsRpc
  <2>4. CASE RestoreStdout(t)
    <3>1. running' = running \ {t} /\ stdout' = t.saved /\ t.m.action = "rpc"
      BY <2>4 DEF RestoreStdout, Handles
    <3> QED
      BY <2>2, <3>1 DEF StdoutInv, IsRpc
  <2>5. CASE ~RunRpc(t) /\ ~RestoreStdout(t)
    <3>1. stdout' = stdout /\ \E action \in {"set", "read", "trigger", "kickoff", "complete", "pre_scan",
                                             "stage", "unstage"} : Handles(t, action)
      BY Zenon, <2>1, <2>5 DEF SetDevice, ReadDevice, TriggerDevice, KickoffDevice, CompleteDevice,
         PreScanDevice, StageDevice, UnstageDevice, device
    <3>2. running' = running \ {t} /\ t.m.action # "rpc"
      BY <3>1 DEF Handles
    <3> QED
      BY <2>2, <3>1, <3>2 DEF StdoutInv, IsRpc
  <2> QED
    BY <2>3, <2>4, <2>5
<1> QED
  BY <1>2, <1>3, <1>4 DEF Next, Polls, Finished

LEMMA ReasonHolds ==
  ASSUME TypeInv, DiesForReason, [Next]_vars
  PROVE  DiesForReason'
<1>1. CASE Worker
  <2>1. ASSUME wpc' # "dead" PROVE DiesForReason'
    BY <2>1 DEF DiesForReason
  <2>0. wpc # "dead"
    BY <1>1, WorkerMoves
  <2>2. CASE Generator
    <3>1. (UNCHANGED <<scen, it, bl, scan>> /\ Raises) \/ wpc' = "pull"
      BY <2>2, GeneratorSteps DEF TypeInv, Moves, Raises, Raise, ScanKeeps, place
    <3>2. CASE UNCHANGED <<scen, it, bl, scan>> /\ Raises
      <4>1. Block' = Block
        BY <3>2 DEF Block, Item, Items
      <4>2. wpc' = "dead" => Len(scan.start_pos) < Len(Block.motors) \/ (bl > 1 /\ scan.fresh)
        BY <3>2 DEF Raises, Raise
      <4> QED
        BY <3>2, <4>1, <4>2 DEF DiesForReason
    <3> QED
      BY <2>1, <3>1, <3>2
  <2>3. CASE SendInstruction \/ SendAndWait
    <3>1. wpc' = wpc \/ wpc' = "wait"
      BY <2>3 DEF SendInstruction, SendAndWait
    <3> QED
      BY <2>0, <2>1, <3>1
  <2>4. CASE BeginWait \/ OpenScanStep \/ CloseScanStep \/ PublishStep \/ OtherStep
    BY <2>0, <2>1, <2>4, OtherInstructionTypes DEF TypeInv, DiesForReason
  <2>5. CASE EndWait \/ MovementFailed \/ CheckForInterruption \/ EndBlock \/ EndReturn
    <3>1. wpc' = wpc \/ wpc' \in {"pull", "abort", "aborted"}
      BY Zenon, <2>5 DEF EndWait, MovementFailed, CheckForInterruption, EndBlock, EndReturn
    <3> QED
      BY <2>0, <2>1, <3>1
  <2>6. CASE BeginReturn
    <3>1. UNCHANGED <<scen, it, bl, scan>> /\ (wpc' = "dead" => ~Block.back)
      BY <2>6 DEF BeginReturn
    <3>2. Block' = Block
      BY <3>1 DEF Block, Item, Items
    <3> QED
      BY <3>1, <3>2 DEF DiesForReason
  <2>7. CASE EndItem \/ Aborted
    <3>1. wpc' \in {"pull", "done"}
      BY <2>7, ItemTypes DEF EndItem, Aborted, BlockEnds, TypeInv
    <3> QED
      BY <2>1, <3>1
  <2> QED
    BY <1>1, <2>2, <2>3, <2>4, <2>5, <2>6, <2>7 DEF Worker
<1>2. CASE StartTask \/ HandleTask \/ Callback \/ StopDevices \/ Interrupt \/ UNCHANGED vars
  <2>1. UNCHANGED <<scen, it, bl, wpc, scan>>
    BY <1>2, OthersKeep
  <2>2. Block' = Block
    BY <2>1 DEF Block, Item, Items
  <2> QED
    BY <2>1, <2>2 DEF DiesForReason
<1> QED
  BY <1>1, <1>2 DEF Next, Polls, Finished

-----------------------------------------------------------------------------
(* Theorems.                                                               *)

\* The inductive invariant.
IInv == /\ TypeInv /\ WaitsInv /\ AnsweredInv /\ EarlyInv /\ OrderInv /\ OlderFirst /\ StagingInv
        /\ StdoutInv /\ DiesForReason

LEMMA InitTypes ==
  ASSUME Init
  PROVE  TypeInv
<1>0. /\ scen \in ToSet(Scenarios) /\ it = 1 /\ bl = 1 /\ pc = 1 /\ wpc = "pull" /\ status = "RUNNING"
      /\ scan = NewScan(Block, 0)
  BY DEF Init
<1>1. /\ Items \in Seq(ToSet(Items)) \ {<<>>}
      /\ \A item \in ToSet(Items) : IsItem(item)
  BY <1>0, ScenariosAssumption DEF Items
<1>2. Len(Items) \in Nat \ {0} /\ Item \in ToSet(Items)
  BY <1>0, <1>1 DEF ToSet, Item
<1>3. /\ Item.blocks \in Seq(ToSet(Item.blocks)) \ {<<>>}
      /\ \A b \in ToSet(Item.blocks) : IsProgram(b)
  BY <1>1, <1>2 DEF IsItem
<1>4. Len(Item.blocks) \in Nat \ {0} /\ IsProgram(Block)
  BY <1>0, <1>3 DEF ToSet, Block
<1>5. PlaceInv
  BY <1>0, <1>2, <1>4 DEF PlaceInv
<1>6. NoMd \in Marks /\ NoMd \in KnownMarks /\ NoMd.scan \in Nat \X Nat
  BY DEF NoMd, Marks, KnownMarks, Known
<1>7. WorkerInv
  <2>1. scan \in ScanTypes
    <3>1. 0 \in Int
      OBVIOUS
    <3> QED
      BY <1>0, <1>4, <3>1, NewScanType
  <2>2. work \in WorkTypes(KnownMarks)
    <3>1. work = [scan_id |-> NoMd.scan, scan_type |-> "", scan_motors |-> {}, readout |-> {},
                  max_point_id |-> 0, staged |-> {}, returning |-> FALSE, last_trigger |-> NoMd, sent |-> 0]
      BY DEF Init
    <3>2. /\ {} \in SUBSET Devices /\ {} \in {{}, Devices} /\ 0 \in Int /\ 0 \in Nat
          /\ "" \in {"", "step", "fly"} /\ FALSE \in BOOLEAN
      OBVIOUS
    <3> HIDE DEF KnownMarks, NoMd, Devices
    <3> QED
      BY <1>6, <3>1, <3>2 DEF WorkTypes
  <2>3. cur.md = NoMd /\ groups = {}
    BY DEF Init
  <2> QED
    BY <1>6, <2>1, <2>2, <2>3 DEF WorkerInv
<1>8. TaskInv
  <2>1. tasks = <<>> /\ running = {}
    BY DEF Init
  <2>2. <<>> \in Seq(ToSet(<<>>)) /\ ToSet(<<>>) = {}
    BY DEF ToSet
  <2> QED
    BY <2>1, <2>2 DEF TaskInv, InFlight
<1>9. DeviceInv
  <2>1. /\ metadata = [d \in Devices |-> NoMd] /\ pos = [d \in Devices |-> 0]
        /\ goal = [d \in Devices |-> Idle] /\ flight = [d \in Devices |-> Grounded]
        /\ exposing = [d \in Devices |-> Empty]
    BY DEF Init
  <2>2. /\ DOMAIN Idle = {"md", "to", "moves", "response"} /\ Idle.md = NoMd /\ Idle.moves = FALSE
        /\ Grounded \in Flights(KnownMarks) /\ Empty \in Entries(KnownMarks)
    <3> HIDE DEF KnownMarks, NoMd
    <3> QED
      BY <1>6 DEF Idle, Grounded, Empty, Flights, Entries
  <2> HIDE DEF Idle, Grounded, Empty, Flights, Entries, KnownMarks, NoMd, Marks
  <2>3. metadata \in [Devices -> Marks] /\ pos \in [Devices -> Int] /\ DOMAIN goal = Devices
    BY <1>6, <2>1
  <2>4. flight \in [Devices -> Flights(KnownMarks)] /\ exposing \in [Devices -> Entries(KnownMarks)]
    BY <2>1, <2>2
  <2>5. \A d \in Devices : /\ DOMAIN goal[d] = {"md", "to", "moves", "response"}
                           /\ goal[d].md \in KnownMarks /\ goal[d].moves \in BOOLEAN
    BY <1>6, <2>1, <2>2
  <2> QED
    BY <2>3, <2>4, <2>5 DEF DeviceInv
<1>10. RedisInv
  <2>1. /\ req = [d \in Devices |-> Empty] /\ sts = [d \in Devices |-> Empty]
        /\ staged = [d \in Devices |-> Empty] /\ replies = {}
        /\ progress = [d \in Devices |-> [md |-> NoMd, n |-> 0]]
    BY DEF Init
  <2>2. Empty \in Entries(KnownMarks) /\ Empty \in Entries(Marks) /\ [md |-> NoMd, n |-> 0] \in [md : Marks, n : Nat]
    <3> HIDE DEF KnownMarks, NoMd, Marks
    <3> QED
      BY <1>6 DEF Empty, Entries
  <2> HIDE DEF Entries, Empty, KnownMarks, NoMd, Marks
  <2> QED
    BY <2>1, <2>2 DEF RedisInv
<1>11. LogInv
  BY DEF Init, LogInv, NewLog
<1> QED
  BY <1>5, <1>7, <1>8, <1>9, <1>10, <1>11 DEF TypeInv

LEMMA InitHolds ==
  ASSUME Init
  PROVE  IInv
<1>1. TypeInv /\ it = 1 /\ wpc = "pull"
  BY InitTypes DEF Init
<1>2. InFlight = {} /\ tasks = <<>> /\ running = {}
  <2>1. tasks = <<>> /\ running = {}
    BY DEF Init
  <2>2. ToSet(<<>>) = {}
    BY DEF ToSet
  <2> QED
    BY <2>1, <2>2 DEF InFlight
<1>3. WaitsInv /\ DiesForReason
  BY <1>1 DEF WaitsInv, DiesForReason
<1>4. AnsweredInv
  BY DEF Init, AnsweredInv, Empty
<1>5. EarlyInv
  BY DEF Init, EarlyInv, NewLog
<1>6. OrderInv /\ OlderFirst
  <2>1. 1..Len(tasks) = {}
    BY <1>2
  <2> QED
    BY <1>2, <2>1 DEF OrderInv, OlderFirst
<1>7. StagingInv
  <2>1. \A d \in Devices : staged[d].md = NoMd /\ ~staged[d].on
    BY DEF Init, Empty
  <2>2. ~Current(NoMd)
    BY <1>1 DEF Current, NoMd
  <2>3. stagedDevs = {} /\ work.staged = {}
    BY DEF Init
  <2> QED
    BY <1>1, <1>2, <2>1, <2>2, <2>3 DEF StagingInv, WaitsFor, Steady, StageSent, UnstageSent, On
<1>8. StdoutInv
  BY DEF Init, StdoutInv
<1> QED
  BY <1>1, <1>3, <1>4, <1>5, <1>6, <1>7, <1>8 DEF IInv

LEMMA StepHolds == IInv /\ [Next]_vars => IInv'
BY TypesHold, WaitsHold, AnsweredHolds, EarlyHolds, OrderHolds, OlderHolds, StagingHolds, StdoutHolds,
   ReasonHolds DEF IInv

LEMMA Invariant == Spec => []IInv
<1>1. Init => IInv
  BY InitHolds
<1> QED
  BY <1>1, StepHolds, PTL DEF Spec

\* Whatever the programs are, the model's state is what the code's is: among others, every
\* metadata that a device or redis has was made for an instruction.
THEOREM TypeCorrect == Spec => []TypeOK
<1>1. IInv => TypeOK
  <2> SUFFICES ASSUME IInv PROVE TypeOK
    OBVIOUS
  <2>1. TypeInv /\ KnownMarks \subseteq Marks
    BY MarkFacts DEF IInv, TypeInv
  <2>2. wpc \in {"pull", "wait", "abort", "aborted", "done", "dead"} /\ status \in {"RUNNING", "STOPPED"} /\ pc \in Nat
    BY <2>1 DEF TypeInv, PlaceInv
  <2>3. it \in DOMAIN Items /\ bl \in DOMAIN Item.blocks
    <3>1. Items \in Seq(ToSet(Items)) /\ IsItem(Item)
      BY <2>1, PlaceFacts, ScenariosAssumption DEF TypeInv, PlaceInv, Items
    <3>2. Item.blocks \in Seq(ToSet(Item.blocks))
      BY <3>1 DEF IsItem
    <3> QED
      BY <2>1, <3>1, <3>2 DEF TypeInv, PlaceInv
  <2>4. \A t \in running : t.m.md \in Marks /\ t.m.device \subseteq Devices
    BY <2>1 DEF TypeInv, TaskInv, InFlight
  <2>5. \A d \in Devices : {metadata[d], req[d].md, sts[d].md, staged[d].md, goal[d].md} \subseteq Marks
    <3>1. ASSUME NEW d \in Devices
          PROVE  /\ metadata[d] \in Marks /\ goal[d].md \in KnownMarks /\ req[d].md \in KnownMarks
                 /\ sts[d].md \in Marks /\ staged[d].md \in KnownMarks
      BY <2>1 DEF TypeInv, DeviceInv, RedisInv, Entries
    <3> QED
      BY <2>1, <3>1
  <2>6. \A g \in groups : g[2] \in Devices /\ g[3] \in Nat
    BY <2>1 DEF TypeInv, WorkerInv
  <2> QED
    BY <2>2, <2>3, <2>4, <2>5, <2>6 DEF TypeOK
<1> QED
  BY <1>1, Invariant, PTL

\* The worker awaits the devices (scan_worker.py, _wait_for_*): whatever the programs are, no
\* wait for a movement ends before all of it were answered, and outside of scan definitions
\* none but that for a reading does.
THEOREM AwaitsAnswers ==
  Spec => [](/\ \A e \in log.early : e[1] # "move"
             /\ (\A i \in DOMAIN Items : ~Items[i].def) => MovesAreAwaited)
<1>1. IInv => /\ \A e \in log.early : e[1] # "move"
              /\ (\A i \in DOMAIN Items : ~Items[i].def) => MovesAreAwaited
  BY DEF IInv, EarlyInv, NoDefinition, MovesAreAwaited
<1> QED
  BY <1>1, Invariant, PTL

\* The devices stay staged while the worker goes on with staged devices
\* (scan_worker.py, _stage_devices; device_server.py, _stage_device).
THEOREM StaysStaged == Spec => []StagedWhileScanning
<1>1. IInv => StagedWhileScanning
  <2> SUFFICES ASSUME IInv, wpc = "pull", ~work.returning, work.staged # {}, ~reordered
               PROVE  stagedDevs = Devices
    BY DEF StagedWhileScanning
  <2>1. work.staged \in {{}, Devices}
    BY DEF IInv, TypeInv, WorkerInv, WorkTypes
  <2>2. ScanningOn /\ ~WaitsFor("stage") /\ ~WaitsFor("unstage")
    BY <2>1 DEF ScanningOn, WaitsFor
  <2>3. Steady /\ stagedDevs \subseteq Devices /\ \A d \in Devices : d \in stagedDevs <=> staged[d].on
    BY <2>2 DEF IInv, StagingInv
  <2> QED
    BY <2>3 DEF Steady
<1> QED
  BY <1>1, Invariant, PTL

\* The terminal comes back after the last call that overlapped no other
\* (device_server.py, run_rpc).
THEOREM TerminalComesBack == Spec => []StdoutRestored
<1>1. IInv => StdoutRestored
  BY DEF IInv, StdoutInv, StdoutRestored
<1> QED
  BY <1>1, Invariant, PTL

\* The thread of the worker ends for no other reason than these, whatever the programs are
\* (scan_worker.py, run; request_block_queue __next__).
THEOREM EndsForReason == Spec => []DiesForReason
<1>1. IInv => DiesForReason
  BY DEF IInv
<1> QED
  BY <1>1, Invariant, PTL

=============================================================================
