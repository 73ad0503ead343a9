--------------------------- MODULE ServicesProofs ---------------------------
(***************************************************************************)
(* Theorems about Services for all processes and classes, all that may     *)
(* happen to them, and every length of the keys' life, of the pause        *)
(* between two writes and of a check that TimesAssumption allows.          *)
(***************************************************************************)
EXTENDS Services, TLAPS

\* The bookkeeping of the properties.
LogType == log \in [known : SUBSET Processes, cutOff : SUBSET Processes, met : SUBSET Processes,
                    lone : SUBSET Processes, unseen : SUBSET Processes,
                    there : [Processes -> SUBSET Processes], early : SUBSET Processes,
                    vanished : BOOLEAN, deceived : BOOLEAN]

USE DEF local, redis, around

LEMMA InitType == Init => TypeOK /\ LogType
<1> SUFFICES ASSUME Init PROVE TypeOK /\ LogType
  OBVIOUS
<1> USE TimesAssumption DEF Init
<1>1. LogType
  BY DEF LogType
<1>2. TypeOK
  BY DEF TypeOK, Registered, Status, None, Threads, Nothing
<1> QED
  BY <1>1, <1>2

LEMMA EmptyTyped == <<>> \in Seq(Names)
  OBVIOUS

LEMMA TailTyped == \A s \in Seq(Names) : s # <<>> => Tail(s) \in Seq(Names) /\ Head(s) \in Names
  OBVIOUS

\* Whoever is killed forgets what it had read and was about to write.
LEMMA KilledIsTyped == ASSUME TypeOK, NEW ps \in SUBSET Processes, Killed(ps) PROVE TypeOK'
<1> USE DEF TypeOK, Registered, Status, None, Threads
<1>1. pc' \in [Processes -> Registered \cup {"off", "checking", "down", "refused", "failed"}]
  BY DEF Killed
<1>2. out' \in [Processes -> [Threads -> Status \cup {None}]]
  <2>1. Nothing \in [Threads -> Status \cup {None}]
    BY DEF Nothing
  <2> QED
    BY <2>1 DEF Killed
<1>3. since' \in [Processes -> 0..(Expire + 1)]
  <2>1. 1 \in 0..(Expire + 1)
    BY TimesAssumption
  <2> QED
    BY <2>1 DEF Killed
<1>4. wants' \in [Processes -> Seq(Names)]
  <2>1. << >> \in Seq(Names)
    OBVIOUS
  <2> QED
    BY <2>1 DEF Killed
<1>5. at' \in [Processes -> {"idle", "listed", "late"}] /\ seen' \in [Processes -> SUBSET Processes]
  BY DEF Killed
<1>6. stopping' \subseteq Processes
  BY DEF Killed
<1>7. UNCHANGED <<status, val, timer, ttl, elapsed, info, cut, lost>>
  BY DEF Killed
<1> QED
  BY <1>1, <1>2, <1>3, <1>4, <1>5, <1>6, <1>7

LEMMA NextType == ASSUME TypeOK, [Next]_vars PROVE TypeOK'
<1> USE TimesAssumption DEF TypeOK, Registered, Status, None, Threads, Nothing
<1>1. ASSUME NEW i \in Processes, NEW t \in Threads, Write(i, t) PROVE TypeOK'
  <2>1. out[i][t] \in Status
    BY <1>1 DEF Write
  <2>2. ttl' \in [Processes -> 0..Expire]
    <3>1. ttl' = ttl \/ ttl' = [ttl EXCEPT ![i] = Expire]
      BY <1>1 DEF Write
    <3>2. Expire \in 0..Expire
      OBVIOUS
    <3> QED
      BY <3>1, <3>2
  <2>4. val' \in [Processes -> Status]
    <3>1. val' = val \/ val' = [val EXCEPT ![i] = out[i][t]]
      BY <1>1 DEF Write
    <3> QED
      BY <2>1, <3>1
  <2>3. out' \in [Processes -> [Threads -> Status \cup {None}]]
    BY <1>1 DEF Write
  <2> QED
    BY <1>1, <2>2, <2>3, <2>4 DEF Write
<1>2. ASSUME NEW i \in Processes, UpdateServiceInfo(i) PROVE TypeOK'
  BY <1>2 DEF UpdateServiceInfo
<1>3. ASSUME NEW i \in Processes, ListKeys(i) PROVE TypeOK'
  BY <1>3 DEF ListKeys, Keys
<1>4. ASSUME NEW i \in Processes, ReadKeys(i) PROVE TypeOK'
  <2>1. PICK known \in KnownNow(i) :
          /\ info' = [info EXCEPT ![i] = known]
          /\ IF pc[i] = "checking" THEN CheckedWith(i, known) /\ UNCHANGED wants ELSE WaitedWith(i, known)
    BY <1>4 DEF ReadKeys
  <2>2. known \in [Names -> Status \cup {None}]
    BY DEF KnownNow, Infos
  <2>3. info' \in [Processes -> [Names -> Status \cup {None}]]
    BY <2>1, <2>2
  <2>4. at' \in [Processes -> {"idle", "listed", "late"}] /\ seen' \in [Processes -> SUBSET Processes]
    BY <1>4 DEF ReadKeys
  <2>5. pc' \in [Processes -> Registered \cup {"off", "checking", "down", "refused", "failed"}]
    <3>1. pc' = pc \/ \E l \in {"building", "refused", "up"} : pc' = [pc EXCEPT ![i] = l]
      <4>1. CASE pc[i] = "checking"
        BY <2>1, <4>1 DEF CheckedWith, Passed
      <4>2. CASE pc[i] # "checking"
        <5>1. pc' = pc \/ pc' = [pc EXCEPT ![i] = IF Tail(wants[i]) = <<>> THEN "up" ELSE @]
          BY <2>1, <4>2 DEF WaitedWith, WaitIsOver
        <5> QED
          BY <5>1
      <4> QED
        BY <4>1, <4>2
    <3> QED
      BY <3>1
  <2>7. timer' \in [Processes -> 0..Refresh] /\ elapsed' \in [Processes -> 0..(Timeout + 1)]
    <3>1. \/ UNCHANGED <<timer, elapsed>>
          \/ timer' = [timer EXCEPT ![i] = 0] /\ UNCHANGED elapsed
          \/ /\ timer' = [timer EXCEPT ![i] = 1] /\ elapsed' = [elapsed EXCEPT ![i] = @ + 1]
             /\ elapsed[i] <= Timeout
      BY <2>1 DEF CheckedWith, Passed, WaitedWith, WaitIsOver
    <3>2. 0 \in 0..Refresh /\ 1 \in 0..Refresh /\ elapsed[i] \in Nat
      OBVIOUS
    <3>3. elapsed[i] <= Timeout => elapsed[i] + 1 \in 0..(Timeout + 1)
      BY <3>2
    <3>4. timer' \in [Processes -> 0..Refresh]
      BY <3>1, <3>2
    <3>5. elapsed' \in [Processes -> 0..(Timeout + 1)]
      <4>1. CASE UNCHANGED elapsed
        BY <4>1
      <4>2. CASE elapsed' = [elapsed EXCEPT ![i] = @ + 1] /\ elapsed[i] <= Timeout
        BY <3>3, <4>2
      <4> QED
        BY <3>1, <4>1, <4>2
    <3> QED
      BY <3>4, <3>5
  <2>6. wants' \in [Processes -> Seq(Names)]
    <3>1. wants[i] # <<>> \/ pc[i] = "checking"
      BY <1>4 DEF ReadKeys, Looks
    <3>2. UNCHANGED wants \/ (wants[i] # <<>> /\ wants' = [wants EXCEPT ![i] = Tail(@)])
      BY <2>1, <3>1 DEF WaitedWith, WaitIsOver
    <3>3. wants[i] # <<>> => Tail(wants[i]) \in Seq(Names)
      BY TailTyped
    <3> QED
      BY <3>2, <3>3
  <2> QED
    BY <1>4, <2>3, <2>4, <2>5, <2>6, <2>7 DEF ReadKeys
<1>5. ASSUME NEW i \in Processes, KeyIsGone(i) PROVE TypeOK'
  <2>1. wants' \in [Processes -> Seq(Names)]
    BY <1>5, EmptyTyped DEF KeyIsGone
  <2>2. out' \in [Processes -> [Threads -> Status \cup {None}]]
    <3>1. out' = out \/ out' = [out EXCEPT ![i] = Nothing]
      BY <1>5 DEF KeyIsGone
    <3>2. Nothing \in [Threads -> Status \cup {None}]
      OBVIOUS
    <3> QED
      BY <3>1, <3>2
  <2>3. pc' \in [Processes -> Registered \cup {"off", "checking", "down", "refused", "failed"}]
    BY <1>5 DEF KeyIsGone
  <2>4. lost' \subseteq Processes /\ stopping' \subseteq Processes
    BY <1>5 DEF KeyIsGone
  <2> QED
    BY <1>5, <2>1, <2>2, <2>3, <2>4 DEF KeyIsGone
<1>6. ASSUME NEW i \in Processes, Start(i) PROVE TypeOK'
  <2>1. wants' \in [Processes -> Seq(Names)]
    BY <1>6, NamesAssumption DEF Start
  <2>2. pc' \in [Processes -> Registered \cup {"off", "checking", "down", "refused", "failed"}]
    <3>1. pc' = [pc EXCEPT ![i] = "checking"] \/ pc' = [pc EXCEPT ![i] = "waiting"]
      BY <1>6 DEF Start
    <3> QED
      BY <3>1
  <2>3. timer' \in [Processes -> 0..Refresh]
    BY <1>6 DEF Start
  <2> QED
    BY <1>6, <2>1, <2>2, <2>3 DEF Start
<1>7. ASSUME NEW i \in Processes, MakeDeviceManager(i) PROVE TypeOK'
  BY <1>7 DEF MakeDeviceManager
<1>8. ASSUME NEW i \in Processes, GoUp(i) PROVE TypeOK'
  BY <1>8 DEF GoUp, SetStatus
<1>9. ASSUME NEW i \in Processes, Abort(i) PROVE TypeOK'
  <2>1. out' \in [Processes -> [Threads -> Status \cup {None}]]
    <3>1. out' = [out EXCEPT ![i] = Nothing] \/ out' = [out EXCEPT ![i]["side"] = "BUSY"]
      BY <1>9 DEF Abort, SetStatus
    <3>2. Nothing \in [Threads -> Status \cup {None}]
      OBVIOUS
    <3>3. CASE out' = [out EXCEPT ![i] = Nothing]
      BY <3>2, <3>3
    <3>4. CASE out' = [out EXCEPT ![i]["side"] = "BUSY"]
      BY <3>4
    <3> QED
      BY <3>1, <3>3, <3>4
  <2>2. status' \in [Processes -> Status]
    <3>1. status' = status \/ status' = [status EXCEPT ![i] = "BUSY"]
      BY <1>9 DEF Abort, SetStatus
    <3> QED
      BY <3>1
  <2>3. stopping' \subseteq Processes
    BY <1>9 DEF Abort
  <2>4. pc' \in [Processes -> Registered \cup {"off", "checking", "down", "refused", "failed"}]
    <3>1. UNCHANGED pc \/ pc' = [pc EXCEPT ![i] = "failed"]
      BY <1>9 DEF Abort
    <3> QED
      BY <3>1
  <2> QED
    BY <1>9, <2>1, <2>2, <2>3, <2>4 DEF Abort
<1>10. ASSUME NEW i \in Processes, DevicesStopped(i) PROVE TypeOK'
  BY <1>10 DEF DevicesStopped, SetStatus
<1>11. ASSUME NEW i \in Processes, Shutdown(i) PROVE TypeOK'
  BY <1>11 DEF Shutdown, Happens
<1>12. ASSUME NEW i \in Processes, SayIdle(i) PROVE TypeOK'
  BY <1>12 DEF SayIdle, SetStatus
<1>13. ASSUME NEW i \in Processes, End(i) PROVE TypeOK'
  BY <1>13 DEF End
<1>14. ASSUME NEW i \in Processes, Kill(i) PROVE TypeOK'
  BY <1>14, KilledIsTyped DEF Kill
<1>15. ASSUME KillSession PROVE TypeOK'
  BY <1>15, KilledIsTyped DEF KillSession
<1>16. ASSUME NEW i \in Processes, LoseConnection(i) PROVE TypeOK'
  BY <1>16 DEF LoseConnection, Happens
<1>17. ASSUME NEW i \in Processes, Reconnect(i) PROVE TypeOK'
  BY <1>17 DEF Reconnect
<1>18. ASSUME NEW i \in Processes, BeginItem(i) PROVE TypeOK'
  <2>1. <<"DeviceServer">> \in Seq(Names)
    BY NamesAssumption
  <2>2. wants' \in [Processes -> Seq(Names)]
    BY <1>18, <2>1 DEF BeginItem
  <2> QED
    BY <1>18, <2>2 DEF BeginItem
<1>19. ASSUME Tick PROVE TypeOK'
  BY <1>19 DEF Tick, Down
<1>20. CASE UNCHANGED vars
  BY <1>20 DEF vars
<1> QED
  BY <1>1, <1>2, <1>3, <1>4, <1>5, <1>6, <1>7, <1>8, <1>9, <1>10, <1>11, <1>12, <1>13, <1>14, <1>15, <1>16, <1>17, <1>18, <1>19, <1>20 DEF Next, Updating, Looking, Main, Side, Outside

\* What the steps write down.
SameLog == log' = log
Steps(i) == \/ UpdateServiceInfo(i) \/ MakeDeviceManager(i) \/ GoUp(i) \/ Abort(i) \/ Shutdown(i) \/ SayIdle(i)
            \/ End(i) \/ Kill(i) \/ Reconnect(i) \/ BeginItem(i)

LEMMA QuietSteps ==
  /\ \A i \in Processes : Steps(i) => SameLog
  /\ KillSession \/ Tick \/ UNCHANGED vars => SameLog
  BY DEF Steps, SameLog, UpdateServiceInfo, MakeDeviceManager, GoUp, Abort, Shutdown, SayIdle, End, Kill, Killed,
     KillSession, Reconnect, BeginItem, Tick, vars

LEMMA NextLogType == ASSUME TypeOK, LogType, [Next]_vars PROVE LogType'
<1> USE DEF LogType
<1>1. ASSUME SameLog PROVE LogType'
  BY <1>1 DEF SameLog
<1>2. ASSUME NEW i \in Processes, NEW t \in Threads, Write(i, t) PROVE LogType'
  <2>1. log' = log \/ \E k, c \in SUBSET Processes : log' = [log EXCEPT !.known = k, !.cutOff = c]
    <3>1. CASE i \in cut
      BY <1>2, <3>1 DEF Write
    <3>2. CASE i \notin cut
      <4>1. PICK k \in SUBSET Processes : k = log.known \cup {i}
        OBVIOUS
      <4>2. PICK c \in SUBSET Processes : c = IF at[i] = "idle" THEN log.cutOff \ {i} ELSE log.cutOff
        OBVIOUS
      <4>3. log' = [log EXCEPT !.known = k, !.cutOff = c]
        BY <1>2, <3>2, <4>1, <4>2 DEF Write
      <4> QED
        BY <4>3
    <3> QED
      BY <3>1, <3>2
  <2> QED
    BY <2>1
<1>3. ASSUME NEW i \in Processes, ListKeys(i) PROVE LogType'
  BY <1>3 DEF ListKeys, Rivals
<1>4. ASSUME NEW i \in Processes, ReadKeys(i) PROVE LogType'
  <2>1. PICK known \in KnownNow(i) :
          IF pc[i] = "checking" THEN CheckedWith(i, known) /\ UNCHANGED wants ELSE WaitedWith(i, known)
    BY <1>4 DEF ReadKeys
  <2>2. CASE pc[i] = "checking"
    <3>1. \/ log' = log
          \/ \E m, u \in SUBSET Processes : log' = [log EXCEPT !.met = m, !.unseen = u]
          \/ \E l \in SUBSET Processes : log' = [log EXCEPT !.lone = l]
      <4>1. {j \in Rivals(i) : pc[j] = "checking"} \subseteq Processes
        BY DEF Rivals
      <4>2. log.there[i] \subseteq Processes
        OBVIOUS
      <4>3. CASE known[NameOf[i]] = None
        BY <2>1, <2>2, <4>1, <4>2, <4>3 DEF CheckedWith, Passed
      <4>4. CASE known[NameOf[i]] # None
        BY <2>1, <2>2, <4>4 DEF CheckedWith
      <4> QED
        BY <4>3, <4>4
    <3> QED
      BY <3>1
  <2>3. CASE pc[i] # "checking"
    <3>1. CASE UNCHANGED log
      BY <3>1
    <3>2. CASE log' = [log EXCEPT !.deceived = @ \/ Deceived(i, Head(wants[i]))]
      <4>1. (log.deceived \/ Deceived(i, Head(wants[i]))) \in BOOLEAN
        OBVIOUS
      <4> QED
        BY <3>2, <4>1
    <3> QED
      BY <2>1, <2>3, <3>1, <3>2 DEF WaitedWith, WaitIsOver
  <2> QED
    BY <2>2, <2>3
<1>5. ASSUME NEW i \in Processes, KeyIsGone(i) PROVE LogType'
  BY <1>5 DEF KeyIsGone
<1>6. ASSUME NEW i \in Processes, Start(i) PROVE LogType'
  BY <1>6 DEF Start
<1>7. ASSUME NEW i \in Processes, LoseConnection(i) PROVE LogType'
  BY <1>7 DEF LoseConnection
<1>8. ASSUME NEW i \in Processes, DevicesStopped(i) PROVE LogType'
  BY <1>8 DEF DevicesStopped
<1> QED
  BY <1>1, <1>2, <1>3, <1>4, <1>5, <1>6, <1>7, <1>8, QuietSteps
     DEF Next, Updating, Looking, Main, Side, Outside, Steps, Threads


-----------------------------------------------------------------------------
(* A step, seen from one process: what it does to the entries of that one. *)

SameLife(j) == UNCHANGED <<pc[j], status[j]>>
SameWrites(j) == UNCHANGED <<out[j], timer[j]>>
SameLook(j) == UNCHANGED <<at[j], seen[j], info[j], elapsed[j]>>
SameKey(j) == UNCHANGED <<ttl[j], val[j]>>
SameCut(j) == /\ j \in cut' <=> j \in cut
              /\ j \in log.known' <=> j \in log.known
              /\ j \in log.cutOff' <=> j \in log.cutOff
SameMarks(j) == /\ UNCHANGED <<since[j], log.there[j]>>
                /\ j \in log.early' <=> j \in log.early
SameStop(j) == j \in stopping' <=> j \in stopping
Same(j) == SameLife(j) /\ SameWrites(j) /\ SameLook(j) /\ SameKey(j) /\ SameCut(j) /\ SameMarks(j) /\ SameStop(j)

\* A thread has something to write: only its entry of `out` changes.
Sets(j, t, s) == /\ out[j][t]' = s
                 /\ \A u \in Threads \ {t} : out[j][u]' = out[j][u]
Mute(j) == \A t \in Threads : out[j][t] = None

Writes(j) ==
  \E t \in Threads :
    /\ out[j][t] # None /\ Sets(j, t, None) /\ UNCHANGED timer[j]
    /\ IF j \in cut THEN SameKey(j) /\ SameCut(j)
       ELSE /\ ttl[j]' = Expire /\ val[j]' = out[j][t] /\ j \notin cut' /\ j \in log.known'
            /\ j \in log.cutOff' => j \in log.cutOff
            /\ at[j] # "idle" /\ j \in log.cutOff => j \in log.cutOff'
    /\ SameLife(j) /\ SameLook(j) /\ SameMarks(j) /\ SameStop(j)
Renews(j) ==
  /\ Updates(j) /\ timer[j] = 0 /\ out[j]["update"] = None
  /\ Sets(j, "update", status[j]) /\ timer[j]' = Refresh
  /\ SameLife(j) /\ SameLook(j) /\ SameKey(j) /\ SameCut(j) /\ SameMarks(j) /\ SameStop(j)
Lists(j) ==
  /\ Looks(j) /\ at[j] = "idle" /\ at[j]' = "listed"
  /\ seen[j]' = (IF j \in cut THEN {} ELSE Keys)
  /\ log.there[j]' = (IF IsUnique(j) THEN Rivals(j) \cap log.known ELSE {})
  /\ UNCHANGED <<info[j], elapsed[j], since[j]>> /\ (j \in log.early' <=> j \in log.early)
  /\ SameLife(j) /\ SameWrites(j) /\ SameKey(j) /\ SameCut(j) /\ SameStop(j)
Reads(j) ==
  /\ Looks(j) /\ at[j] # "idle" /\ at[j]' = "idle" /\ seen[j]' = {}
  /\ \A k \in seen[j] : ttl[k] > 0
  /\ info[j]' \in KnownNow(j)
  /\ \/ /\ pc[j] = "checking" /\ timer[j] = 0
        /\ \/ /\ info[j][NameOf[j]]' = None /\ pc[j]' = "building" /\ timer[j]' = 0 /\ UNCHANGED elapsed[j]
              /\ \A k \in Rivals(j) : pc[k] = "checking" => k \in log.met'
           \/ /\ info[j][NameOf[j]]' # None /\ elapsed[j] > Timeout
              /\ pc[j]' = "refused" /\ UNCHANGED <<timer[j], elapsed[j]>>
              /\ seen[j] = {} => j \in log.lone'
           \/ /\ info[j][NameOf[j]]' # None /\ elapsed[j] <= Timeout
              /\ elapsed[j]' = elapsed[j] + 1 /\ timer[j]' = 1 /\ UNCHANGED pc[j]
     \/ Updates(j) /\ pc[j]' \in {pc[j], "up"} /\ UNCHANGED <<timer[j], elapsed[j]>>
  /\ UNCHANGED <<status[j], out[j]>>
  /\ SameKey(j) /\ SameCut(j) /\ SameMarks(j) /\ SameStop(j)
Misses(j) ==
  /\ Looks(j) /\ at[j] # "idle" /\ at[j]' = "idle" /\ seen[j]' = {}
  /\ IF pc[j] = "up" THEN UNCHANGED <<pc[j], out[j]>> /\ SameStop(j)
     ELSE pc[j]' = "failed" /\ Mute(j)' /\ j \notin stopping'
  /\ UNCHANGED <<status[j], timer[j], info[j], elapsed[j]>>
  /\ SameKey(j) /\ SameCut(j) /\ SameMarks(j)
Starts(j) ==
  /\ pc[j] = "off" /\ timer[j]' = 0
  /\ \/ /\ IsUnique(j) /\ pc[j]' = "checking"
        /\ (\E k \in Rivals(j) : Alive(k)) => j \in log.met'
     \/ ~IsUnique(j) /\ pc[j]' = "waiting"
  /\ UNCHANGED <<status[j], out[j]>>
  /\ SameLook(j) /\ SameKey(j) /\ SameCut(j) /\ SameMarks(j) /\ SameStop(j)

\* The rest of its life.
Comes(j) ==
  /\ \/ pc[j] = "building" /\ pc[j]' = "built" /\ UNCHANGED <<status[j], out[j]>>
     \/ /\ pc[j] \in {"building", "built"} /\ pc[j]' = "up"
        /\ status[j]' = "RUNNING" /\ Sets(j, "main", "RUNNING")
  /\ UNCHANGED timer[j]
  /\ SameLook(j) /\ SameKey(j) /\ SameCut(j) /\ SameMarks(j) /\ SameStop(j)
Stops(j) ==
  /\ \/ /\ pc[j] = "building" /\ pc[j]' = "failed" /\ Mute(j)' /\ j \notin stopping /\ j \notin stopping'
        /\ UNCHANGED status[j]
     \/ /\ Alive(j) /\ UNCHANGED pc[j] /\ status[j]' = "BUSY" /\ Sets(j, "side", "BUSY") /\ j \in stopping'
  /\ UNCHANGED timer[j]
  /\ SameLook(j) /\ SameKey(j) /\ SameCut(j) /\ SameMarks(j)
Stopped(j) ==
  /\ j \in stopping /\ j \notin stopping' /\ status[j]' = "RUNNING" /\ Sets(j, "side", "RUNNING")
  /\ j \in log.early => j \in log.early'
  /\ ~Listens(j) => j \in log.early'
  /\ UNCHANGED <<pc[j], timer[j], since[j], log.there[j]>>
  /\ SameLook(j) /\ SameKey(j) /\ SameCut(j)
Closes(j) ==
  /\ pc[j] = "up" /\ pc[j]' = "closing" /\ since[j]' = 1 /\ at[j]' = "idle" /\ seen[j]' = {}
  /\ UNCHANGED <<status[j], info[j], elapsed[j], log.there[j]>> /\ (j \in log.early' <=> j \in log.early)
  /\ SameWrites(j) /\ SameKey(j) /\ SameCut(j) /\ SameStop(j)
Goes(j) ==
  /\ \/ pc[j] = "closing" /\ pc[j]' = "silent" /\ status[j]' = "IDLE" /\ Sets(j, "main", "IDLE") /\ SameStop(j)
     \/ /\ pc[j] \in {"closing", "silent"} /\ pc[j]' = "down" /\ Mute(j) /\ j \notin stopping /\ j \notin stopping'
        /\ UNCHANGED <<status[j], out[j]>>
  /\ UNCHANGED timer[j]
  /\ SameLook(j) /\ SameKey(j) /\ SameCut(j) /\ SameMarks(j)
Dies(j) ==
  /\ pc[j]' = "down" /\ Mute(j)' /\ j \notin stopping' /\ at[j]' = "idle" /\ seen[j]' = {}
  /\ since[j]' = (IF Listens(j) THEN 1 ELSE since[j])
  /\ UNCHANGED <<status[j], timer[j], info[j], elapsed[j], log.there[j]>> /\ (j \in log.early' <=> j \in log.early)
  /\ SameKey(j) /\ SameCut(j)
Cuts(j) ==
  /\ \/ j \in cut' /\ j \in log.cutOff' /\ j \notin log.known' /\ (Alive(j) \/ pc[j] = "checking")
     \/ j \notin cut' /\ (j \in log.known' <=> j \in log.known) /\ (j \in log.cutOff' <=> j \in log.cutOff)
  /\ SameLife(j) /\ SameWrites(j) /\ SameLook(j) /\ SameKey(j) /\ SameMarks(j) /\ SameStop(j)
Ages(j) ==
  /\ ~Due(j) /\ timer[j]' = Down(timer[j]) /\ ttl[j]' = Down(ttl[j])
  /\ at[j]' = (IF at[j] = "listed" THEN "late" ELSE at[j])
  /\ since[j]' = (IF since[j] \in 1..Expire THEN since[j] + 1 ELSE since[j])
  /\ UNCHANGED <<out[j], elapsed[j], seen[j], info[j], val[j], log.there[j]>> /\ (j \in log.early' <=> j \in log.early)
  /\ SameLife(j) /\ SameCut(j) /\ SameStop(j)

Acts(j) == \/ Writes(j) \/ Renews(j) \/ Lists(j) \/ Reads(j) \/ Misses(j) \/ Starts(j) \/ Comes(j) \/ Stops(j)
           \/ Stopped(j) \/ Closes(j) \/ Goes(j) \/ Cuts(j)
Ticks == \A j \in Processes : Ages(j)
Moves == \E i \in Processes : Acts(i) /\ \A j \in Processes \ {i} : Same(j)
Killing == \A j \in Processes : Same(j) \/ Dies(j)
Step == Moves \/ Killing \/ Ticks

LEMMA SetsEntry ==
  ASSUME TypeOK, NEW i \in Processes, NEW t \in Threads, NEW s, out' = [out EXCEPT ![i][t] = s]
  PROVE  Sets(i, t, s) /\ \A j \in Processes \ {i} : UNCHANGED out[j]
<1>1. out \in [Processes -> [Threads -> Status \cup {None}]]
  BY DEF TypeOK
<1>2. out'[i] = [out[i] EXCEPT ![t] = s]
  BY <1>1
<1>3. out'[i][t] = s /\ \A u \in Threads \ {t} : out'[i][u] = out[i][u]
  BY <1>1, <1>2
<1>4. \A j \in Processes \ {i} : out'[j] = out[j]
  BY <1>1
<1> QED
  BY <1>3, <1>4 DEF Sets

LEMMA ClearsEntry ==
  ASSUME TypeOK, NEW i \in Processes, out' = [out EXCEPT ![i] = Nothing]
  PROVE  Mute(i)' /\ \A j \in Processes \ {i} : UNCHANGED out[j]
  BY DEF TypeOK, Mute, Nothing

LEMMA MuteIsNothing == ASSUME TypeOK, NEW i \in Processes PROVE Mute(i) <=> out[i] = Nothing
  BY DEF TypeOK, Mute, Nothing

LEMMA ReadsLog ==
  ASSUME LogType, NEW i \in Processes, ReadKeys(i)
  PROVE  /\ UNCHANGED <<log.known, log.cutOff, log.there, log.early>>
<1> USE DEF LogType
<1>1. PICK known \in KnownNow(i) :
        IF pc[i] = "checking" THEN CheckedWith(i, known) /\ UNCHANGED wants ELSE WaitedWith(i, known)
  BY DEF ReadKeys
<1>2. CASE pc[i] = "checking"
  BY <1>1, <1>2 DEF CheckedWith, Passed
<1>3. CASE pc[i] # "checking"
  BY <1>1, <1>3 DEF WaitedWith, WaitIsOver
<1> QED
  BY <1>2, <1>3

LEMMA ReadsIsReads ==
  ASSUME TypeOK, LogType, NEW i \in Processes, ReadKeys(i)
  PROVE  Reads(i) /\ \A j \in Processes \ {i} : Same(j)
<1> USE DEF TypeOK
<1>1. PICK known \in KnownNow(i) :
        /\ info' = [info EXCEPT ![i] = known]
        /\ IF pc[i] = "checking" THEN CheckedWith(i, known) /\ UNCHANGED wants ELSE WaitedWith(i, known)
  BY DEF ReadKeys
<1>2. /\ info[i]' = known
      /\ \A j \in Processes \ {i} : UNCHANGED info[j]
  BY <1>1
<1>3. /\ at[i] # "idle" /\ at[i]' = "idle" /\ seen[i]' = {}
      /\ \A j \in Processes \ {i} : UNCHANGED <<at[j], seen[j]>>
      /\ \A j \in Processes : UNCHANGED <<status[j], out[j]>> /\ SameKey(j) /\ SameStop(j) /\ UNCHANGED since[j]
      /\ \A j \in Processes : j \in cut' <=> j \in cut
      /\ \A k \in seen[i] : ttl[k] > 0
  BY DEF ReadKeys, SameKey, SameStop
<1>4. \A j \in Processes : SameCut(j) /\ SameMarks(j)
  BY <1>3, ReadsLog DEF SameCut, SameMarks
<1>5. Looks(i)
  BY DEF ReadKeys
<1>6. /\ \/ /\ pc[i] = "checking" /\ timer[i] = 0
            /\ \/ /\ known[NameOf[i]] = None /\ pc[i]' = "building" /\ timer[i]' = 0 /\ UNCHANGED elapsed[i]
                  /\ \A k \in Rivals(i) : pc[k] = "checking" => k \in log.met'
               \/ /\ known[NameOf[i]] # None /\ elapsed[i] > Timeout
                  /\ pc[i]' = "refused" /\ UNCHANGED <<timer[i], elapsed[i]>>
                  /\ seen[i] = {} => i \in log.lone'
               \/ /\ known[NameOf[i]] # None /\ elapsed[i] <= Timeout
                  /\ elapsed[i]' = elapsed[i] + 1 /\ timer[i]' = 1 /\ UNCHANGED pc[i]
         \/ Updates(i) /\ pc[i]' \in {pc[i], "up"} /\ UNCHANGED <<timer[i], elapsed[i]>>
      /\ \A j \in Processes \ {i} : UNCHANGED <<pc[j], timer[j], elapsed[j]>>
  <2>1. CASE pc[i] = "checking"
    <3>1. CheckedWith(i, known) /\ timer[i] = 0
      BY <1>1, <1>5, <2>1 DEF Looks, Updates
    <3>2. CASE known[NameOf[i]] = None
      <4>1. /\ pc' = [pc EXCEPT ![i] = "building"] /\ timer' = [timer EXCEPT ![i] = 0] /\ elapsed' = elapsed
            /\ log.met' = log.met \cup {k \in Rivals(i) : pc[k] = "checking"}
        BY <3>1, <3>2 DEF CheckedWith, Passed, LogType
      <4> QED
        BY <2>1, <3>1, <3>2, <4>1
    <3>3. CASE known[NameOf[i]] # None /\ elapsed[i] > Timeout
      <4>1. pc' = [pc EXCEPT ![i] = "refused"] /\ timer' = timer /\ elapsed' = elapsed
        BY <3>1, <3>3 DEF CheckedWith
      <4>2. seen[i] = {} => i \in log.lone'
        BY <3>1, <3>3 DEF CheckedWith, LogType
      <4> QED
        BY <2>1, <3>1, <3>3, <4>1, <4>2
    <3>4. CASE known[NameOf[i]] # None /\ elapsed[i] <= Timeout
      <4>1. pc' = pc /\ timer' = [timer EXCEPT ![i] = 1] /\ elapsed' = [elapsed EXCEPT ![i] = @ + 1]
        BY <3>1, <3>4, TimesAssumption DEF CheckedWith
      <4> QED
        BY <2>1, <3>1, <3>4, <4>1
    <3> QED
      BY <3>2, <3>3, <3>4, TimesAssumption
  <2>2. CASE pc[i] # "checking"
    <3>1. Updates(i)
      BY <1>5, <2>2 DEF Looks
    <3>2. /\ pc' = pc \/ pc' = [pc EXCEPT ![i] = IF Tail(wants[i]) = <<>> THEN "up" ELSE @]
          /\ timer' = timer /\ elapsed' = elapsed
      BY <1>1, <2>2 DEF WaitedWith, WaitIsOver
    <3> QED
      BY <3>1, <3>2
  <2> QED
    BY <2>1, <2>2
<1>7. Reads(i)
  BY <1>1, <1>2, <1>3, <1>4, <1>5, <1>6 DEF Reads
<1>8. \A j \in Processes \ {i} : Same(j)
  BY <1>2, <1>3, <1>4, <1>6 DEF Same, SameLife, SameWrites, SameLook
<1> QED
  BY <1>7, <1>8

LEMMA WriteIsWrites ==
  ASSUME TypeOK, LogType, NEW i \in Processes, NEW t \in Threads, Write(i, t)
  PROVE  Writes(i) /\ \A j \in Processes \ {i} : Same(j)
<1> USE DEF TypeOK, LogType, SameLife, SameWrites, SameLook, SameKey, SameCut, SameMarks, SameStop
<1>1. Sets(i, t, None) /\ \A j \in Processes \ {i} : UNCHANGED out[j]
  BY SetsEntry DEF Write
<1>2. out[i][t] # None
  BY DEF Write
<1>3. CASE i \in cut
  <2>1. Writes(i)
    BY <1>1, <1>2, <1>3 DEF Write, Writes
  <2>2. \A j \in Processes \ {i} : Same(j)
    BY <1>1, <1>3 DEF Write, Same
  <2> QED
    BY <2>1, <2>2
<1>4. CASE i \notin cut
  <2>1. /\ ttl' = [ttl EXCEPT ![i] = Expire] /\ val' = [val EXCEPT ![i] = out[i][t]]
        /\ log' = [log EXCEPT !.known = @ \cup {i}, !.cutOff = IF at[i] = "idle" THEN @ \ {i} ELSE @]
    BY <1>4 DEF Write
  <2>2. /\ log.known' = log.known \cup {i}
        /\ log.cutOff' = IF at[i] = "idle" THEN log.cutOff \ {i} ELSE log.cutOff
        /\ log.there' = log.there /\ log.early' = log.early
    BY <2>1
  <2>3. Writes(i)
    BY <1>1, <1>2, <1>4, <2>1, <2>2 DEF Write, Writes
  <2>4. \A j \in Processes \ {i} : Same(j)
    BY <1>1, <1>4, <2>1, <2>2 DEF Write, Same
  <2> QED
    BY <2>3, <2>4
<1> QED
  BY <1>3, <1>4

LEMMA NextIsStep == ASSUME TypeOK, LogType, [Next]_vars PROVE Step
<1> USE TimesAssumption DEF TypeOK, LogType, Registered, SameLife, SameWrites, SameLook, SameKey, SameCut, SameMarks, SameStop
<1>1. ASSUME NEW i \in Processes, UpdateServiceInfo(i) PROVE Moves
  <2>0. Sets(i, "update", status[i]) /\ \A j \in Processes \ {i} : UNCHANGED out[j]
    <3>1. PICK s : s = status[i]
      OBVIOUS
    <3>2. "update" \in Threads /\ out' = [out EXCEPT ![i]["update"] = s]
      BY <1>1, <3>1 DEF UpdateServiceInfo, Threads
    <3>3. Sets(i, "update", s) /\ \A j \in Processes \ {i} : UNCHANGED out[j]
      BY <3>2, SetsEntry
    <3> QED
      BY <3>1, <3>3 DEF Sets
  <2>1. Renews(i)
    BY <1>1, <2>0 DEF Renews, UpdateServiceInfo
  <2>2. \A j \in Processes \ {i} : Same(j)
    BY <1>1, <2>0 DEF Same, UpdateServiceInfo
  <2> QED
    BY <2>1, <2>2 DEF Moves, Acts
<1>2. ASSUME NEW i \in Processes, ListKeys(i) PROVE Moves
  <2>1. Lists(i)
    BY <1>2 DEF Lists, ListKeys
  <2>2. \A j \in Processes \ {i} : Same(j)
    BY <1>2 DEF Same, ListKeys
  <2> QED
    BY <2>1, <2>2 DEF Moves, Acts
<1>3. ASSUME NEW i \in Processes, KeyIsGone(i) PROVE Moves
  <2>0. /\ pc[i] = "up" => out' = out
        /\ pc[i] # "up" => Mute(i)' /\ \A j \in Processes \ {i} : UNCHANGED out[j]
    BY <1>3, ClearsEntry DEF KeyIsGone
  <2>1. Misses(i)
    BY <1>3, <2>0 DEF Misses, KeyIsGone
  <2>2. \A j \in Processes \ {i} : Same(j)
    BY <1>3, <2>0 DEF Same, KeyIsGone
  <2> QED
    BY <2>1, <2>2 DEF Moves, Acts
<1>4. ASSUME NEW i \in Processes, Start(i) PROVE Moves
  <2>0. /\ \/ /\ IsUnique(i) /\ pc' = [pc EXCEPT ![i] = "checking"]
              /\ (\E k \in Rivals(i) : Alive(k)) => i \in log.met'
           \/ ~IsUnique(i) /\ pc' = [pc EXCEPT ![i] = "waiting"]
        /\ UNCHANGED <<log.known, log.cutOff, log.there, log.early>>
    <3>1. CASE IsUnique(i)
      BY <1>4, <3>1 DEF Start
    <3>2. CASE ~IsUnique(i)
      BY <1>4, <3>2 DEF Start
    <3> QED
      BY <3>1, <3>2
  <2>1. Starts(i)
    BY <1>4, <2>0 DEF Starts, Start
  <2>2. \A j \in Processes \ {i} : Same(j)
    BY <1>4 DEF Same, Start
  <2> QED
    BY <2>1, <2>2 DEF Moves, Acts
<1>5. ASSUME NEW i \in Processes, MakeDeviceManager(i) PROVE Moves
  <2>1. Comes(i)
    BY <1>5 DEF Comes, MakeDeviceManager
  <2>2. \A j \in Processes \ {i} : Same(j)
    BY <1>5 DEF Same, MakeDeviceManager
  <2> QED
    BY <2>1, <2>2 DEF Moves, Acts
<1>6. ASSUME NEW i \in Processes, GoUp(i) PROVE Moves
  <2>0. Sets(i, "main", "RUNNING") /\ \A j \in Processes \ {i} : UNCHANGED out[j]
    BY <1>6, SetsEntry DEF GoUp, SetStatus, Threads
  <2>1. Comes(i)
    BY <1>6, <2>0 DEF Comes, GoUp, SetStatus
  <2>2. \A j \in Processes \ {i} : Same(j)
    BY <1>6, <2>0 DEF Same, GoUp, SetStatus
  <2> QED
    BY <2>1, <2>2 DEF Moves, Acts
<1>7. ASSUME NEW i \in Processes, Abort(i) PROVE Moves
  <2>0. /\ pc[i] = "building" => Mute(i)'
        /\ pc[i] # "building" => Sets(i, "side", "BUSY")
        /\ \A j \in Processes \ {i} : UNCHANGED out[j]
    BY <1>7, ClearsEntry, SetsEntry DEF Abort, SetStatus, Threads
  <2>1. Stops(i)
    BY <1>7, <2>0 DEF Stops, Abort, SetStatus
  <2>2. \A j \in Processes \ {i} : Same(j)
    BY <1>7, <2>0 DEF Same, Abort, SetStatus
  <2> QED
    BY <2>1, <2>2 DEF Moves, Acts
<1>8. ASSUME NEW i \in Processes, DevicesStopped(i) PROVE Moves
  <2>0. Sets(i, "side", "RUNNING") /\ \A j \in Processes \ {i} : UNCHANGED out[j]
    BY <1>8, SetsEntry DEF DevicesStopped, SetStatus, Threads
  <2>1. Stopped(i)
    BY <1>8, <2>0 DEF Stopped, DevicesStopped, SetStatus
  <2>2. \A j \in Processes \ {i} : Same(j)
    BY <1>8, <2>0 DEF Same, DevicesStopped, SetStatus
  <2> QED
    BY <2>1, <2>2 DEF Moves, Acts
<1>9. ASSUME NEW i \in Processes, Shutdown(i) PROVE Moves
  <2>1. Closes(i)
    BY <1>9 DEF Closes, Shutdown
  <2>2. \A j \in Processes \ {i} : Same(j)
    BY <1>9 DEF Same, Shutdown
  <2> QED
    BY <2>1, <2>2 DEF Moves, Acts
<1>10. ASSUME NEW i \in Processes, SayIdle(i) PROVE Moves
  <2>0. Sets(i, "main", "IDLE") /\ \A j \in Processes \ {i} : UNCHANGED out[j]
    BY <1>10, SetsEntry DEF SayIdle, SetStatus, Threads
  <2>1. Goes(i)
    BY <1>10, <2>0 DEF Goes, SayIdle, SetStatus
  <2>2. \A j \in Processes \ {i} : Same(j)
    BY <1>10, <2>0 DEF Same, SayIdle, SetStatus
  <2> QED
    BY <2>1, <2>2 DEF Moves, Acts
<1>11. ASSUME NEW i \in Processes, End(i) PROVE Moves
  <2>0. Mute(i)
    BY <1>11, MuteIsNothing DEF End
  <2>1. Goes(i)
    BY <1>11, <2>0 DEF Goes, End
  <2>2. \A j \in Processes \ {i} : Same(j)
    BY <1>11, <2>0 DEF Same, End
  <2> QED
    BY <2>1, <2>2 DEF Moves, Acts
<1>12. ASSUME NEW i \in Processes, LoseConnection(i) PROVE Moves
  <2>1. Cuts(i)
    BY <1>12 DEF Cuts, LoseConnection
  <2>2. \A j \in Processes \ {i} : Same(j)
    BY <1>12 DEF Same, LoseConnection
  <2> QED
    BY <2>1, <2>2 DEF Moves, Acts
<1>13. ASSUME NEW i \in Processes, Reconnect(i) PROVE Moves
  <2>1. Cuts(i)
    BY <1>13 DEF Cuts, Reconnect
  <2>2. \A j \in Processes \ {i} : Same(j)
    BY <1>13 DEF Same, Reconnect
  <2> QED
    BY <2>1, <2>2 DEF Moves, Acts
<1>14. ASSUME NEW i \in Processes, ReadKeys(i) PROVE Moves
  BY <1>14, ReadsIsReads DEF Moves, Acts
<1>15. ASSUME NEW i \in Processes, NEW t \in Threads, Write(i, t) PROVE Moves
  BY <1>15, WriteIsWrites DEF Moves, Acts
<1>16. ASSUME NEW i \in Processes, BeginItem(i) PROVE Killing
  BY <1>16 DEF BeginItem, Killing, Same
<1>17. ASSUME NEW ps \in SUBSET Processes, Killed(ps) PROVE Killing
  <2> SUFFICES ASSUME NEW j \in Processes PROVE Same(j) \/ Dies(j)
    BY DEF Killing
  <2>1. CASE j \in ps
    <3>1. out[j]' = Nothing
      BY <1>17, <2>1 DEF Killed
    <3>2. Mute(j)'
      BY <3>1 DEF Mute, Nothing
    <3> QED
      BY <1>17, <2>1, <3>2 DEF Killed, Dies
  <2>2. CASE j \notin ps
    BY <1>17, <2>2 DEF Killed, Same
  <2> QED
    BY <2>1, <2>2
<1>18. ASSUME NEW i \in Processes, Kill(i) PROVE Killing
  BY <1>17, <1>18 DEF Kill
<1>19. ASSUME KillSession PROVE Killing
  BY <1>17, <1>19 DEF KillSession
<1>20. ASSUME Tick PROVE Ticks
  BY <1>20 DEF Tick, Ticks, Ages
<1>21. CASE UNCHANGED vars
  BY <1>21 DEF vars, Killing, Same, Step
<1> QED
  BY <1>1, <1>2, <1>3, <1>4, <1>5, <1>6, <1>7, <1>8, <1>9, <1>10, <1>11, <1>12, <1>13, <1>14, <1>15, <1>16, <1>18, <1>19,
     <1>20, <1>21 DEF Step, Next, Updating, Looking, Main, Side, Outside, Threads

-----------------------------------------------------------------------------
(* The invariant behind KeysAreTrue and WaitedMeansListening.              *)

\* A process that has not announced itself yet has no key and writes none, and whoever has
\* lost its connection is not one that the others must see.
Life(i) ==
  /\ pc[i] \in {"off", "checking"} => Mute(i) /\ ttl[i] = 0 /\ i \notin log.known
  /\ pc[i] = "off" => at[i] = "idle" /\ elapsed[i] = 0 /\ info[i] = [n \in Names |-> None]
  /\ pc[i] = "checking" => IsUnique(i)
  /\ ~Mute(i) \/ i \in stopping => Alive(i)
  /\ i \in cut => i \in log.cutOff /\ i \notin log.known
LifeInv == \A i \in Processes : Life(i)

\* Whoever has announced itself keeps its key alive, with something to spare until the
\* next write is due.
Kept(i) == i \in log.known /\ Updates(i) =>
             ttl[i] + Refresh >= Expire + (IF out[i]["update"] = None THEN timer[i] ELSE 0)
KeptInv == \A i \in Processes : Kept(i)

\* So a list of the keys has all that were announced and are still up.
Seen(i) == at[i] # "idle" /\ IsUnique(i) /\ i \notin log.cutOff =>
             \A j \in log.there[i] : /\ NameOf[j] = NameOf[i] /\ pc[j] \notin {"off", "checking"}
                                     /\ Updates(j) => j \in seen[i]
SeenInv == \A i \in Processes : Seen(i)

\* While a service is checking that met nobody of its class, the keys of its class are
\* left over from before, and grow old.
Old(i, k) == ~Alive(k) /\ (ttl[k] = 0 \/ ttl[k] + elapsed[i] <= Expire + timer[i])
Met(i) == pc[i] = "checking" /\ i \notin log.met => \A k \in Rivals(i) : Old(i, k)
MetInv == \A i \in Processes : Met(i)

\* A device server that does not listen says RUNNING no longer than a key lives after it
\* stopped to listen, unless it did so too early.
Quiet(i) == IsDeviceServer(i) /\ ~Listens(i) /\ i \notin log.early
Says(i) == Quiet(i) =>
  /\ pc[i] \in {"off", "checking"} \/ Updates(i) => status[i] # "RUNNING"
  /\ \A t \in Threads : out[i][t] = "RUNNING" => since[i] = 1
  /\ ttl[i] > 0 /\ val[i] = "RUNNING" => since[i] >= 1 /\ ttl[i] + since[i] <= Expire + 1
SaysInv == \A i \in Processes : Says(i)

\* An empty list is believed only by who has not even announced itself, and what it
\* believes was read in the same tick, while the keys were there.
Unannounced(i) == Updates(i) /\ i \notin log.known /\ i \notin log.cutOff
Hurries(i) == Unannounced(i) => timer[i] = 0 \/ out[i]["update"] # None
Believes(i) ==
  /\ pc[i] = "checking" => info[i] = [n \in Names |-> None] \/ info[i][NameOf[i]] # None
  /\ Unannounced(i) /\ info[i]["DeviceServer"] = "RUNNING" => Keys # {}
  /\ Updates(i) /\ at[i] # "idle" /\ i \notin log.cutOff /\ seen[i] = {} => info[i]["DeviceServer"] # "RUNNING"
BelievesInv == \A i \in Processes : Hurries(i) /\ Believes(i)

LEMMA InitLife == Init => LifeInv /\ KeptInv
<1> SUFFICES ASSUME Init, NEW i \in Processes PROVE Life(i) /\ Kept(i)
  BY DEF LifeInv, KeptInv
<1> USE TimesAssumption DEF Init
<1>1. Mute(i)
  BY DEF Mute, Nothing
<1>2. Life(i)
  BY <1>1 DEF Life, Alive, Registered
<1>3. Kept(i)
  BY DEF Kept, Updates, Nothing, Threads
<1> QED
  BY <1>2, <1>3

LEMMA LifeNext == ASSUME TypeOK, LogType, LifeInv, [Next]_vars PROVE LifeInv'
<1> SUFFICES ASSUME NEW i \in Processes PROVE Life(i)'
  BY DEF LifeInv
<1> USE TimesAssumption DEF TypeOK, LogType, Registered, Threads, Status, None, SameLife, SameWrites, SameLook, SameKey, SameCut, SameMarks, SameStop, Sets, Mute, Life, Alive, Looks, Updates
<1>0. Life(i)
  BY DEF LifeInv
<1>1. ASSUME Writes(i) PROVE Life(i)'
  BY <1>0, <1>1 DEF Writes
<1>2. ASSUME Renews(i) PROVE Life(i)'
  BY <1>0, <1>2 DEF Renews
<1>3. ASSUME Lists(i) PROVE Life(i)'
  BY <1>0, <1>3 DEF Lists
<1>4. ASSUME Reads(i) PROVE Life(i)'
  BY <1>0, <1>4 DEF Reads
<1>5. ASSUME Misses(i) PROVE Life(i)'
  BY <1>0, <1>5 DEF Misses
<1>6. ASSUME Starts(i) PROVE Life(i)'
  BY <1>0, <1>6 DEF Starts
<1>7. ASSUME Comes(i) PROVE Life(i)'
  BY <1>0, <1>7 DEF Comes
<1>8. ASSUME Stops(i) PROVE Life(i)'
  BY <1>0, <1>8 DEF Stops
<1>9. ASSUME Stopped(i) PROVE Life(i)'
  BY <1>0, <1>9 DEF Stopped
<1>10. ASSUME Closes(i) PROVE Life(i)'
  BY <1>0, <1>10 DEF Closes
<1>11. ASSUME Goes(i) PROVE Life(i)'
  BY <1>0, <1>11 DEF Goes
<1>12. ASSUME Cuts(i) PROVE Life(i)'
  BY <1>0, <1>12 DEF Cuts
<1>13. ASSUME Same(i) PROVE Life(i)'
  BY <1>0, <1>13 DEF Same
<1>14. ASSUME Dies(i) PROVE Life(i)'
  BY <1>0, <1>14 DEF Dies
<1>15. ASSUME Ages(i) PROVE Life(i)'
  BY <1>0, <1>15 DEF Ages, Due, Down
<1> QED
  BY NextIsStep, <1>1, <1>2, <1>3, <1>4, <1>5, <1>6, <1>7, <1>8, <1>9, <1>10, <1>11, <1>12, <1>13, <1>14, <1>15 DEF Step, Moves, Killing, Ticks, Acts

LEMMA KeptNext == ASSUME TypeOK, LogType, LifeInv, KeptInv, [Next]_vars PROVE KeptInv'
<1> SUFFICES ASSUME NEW i \in Processes PROVE Kept(i)'
  BY DEF KeptInv
<1> USE TimesAssumption DEF TypeOK, LogType, Registered, Threads, Status, None, SameLife, SameWrites, SameLook, SameKey, SameCut, SameMarks, SameStop, Sets, Kept, Updates, Life, LifeInv, Looks
<1>0. Kept(i)
  BY DEF KeptInv
<1>1. ASSUME Writes(i) PROVE Kept(i)'
  BY <1>0, <1>1 DEF Writes
<1>2. ASSUME Renews(i) PROVE Kept(i)'
  BY <1>0, <1>2 DEF Renews
<1>3. ASSUME Lists(i) PROVE Kept(i)'
  BY <1>0, <1>3 DEF Lists
<1>4. ASSUME Reads(i) PROVE Kept(i)'
  BY <1>0, <1>4 DEF Reads
<1>5. ASSUME Misses(i) PROVE Kept(i)'
  BY <1>0, <1>5 DEF Misses
<1>6. ASSUME Starts(i) PROVE Kept(i)'
  BY <1>0, <1>6 DEF Starts
<1>7. ASSUME Comes(i) PROVE Kept(i)'
  BY <1>0, <1>7 DEF Comes
<1>8. ASSUME Stops(i) PROVE Kept(i)'
  BY <1>0, <1>8 DEF Stops
<1>9. ASSUME Stopped(i) PROVE Kept(i)'
  BY <1>0, <1>9 DEF Stopped
<1>10. ASSUME Closes(i) PROVE Kept(i)'
  BY <1>0, <1>10 DEF Closes
<1>11. ASSUME Goes(i) PROVE Kept(i)'
  BY <1>0, <1>11 DEF Goes
<1>12. ASSUME Cuts(i) PROVE Kept(i)'
  BY <1>0, <1>12 DEF Cuts
<1>13. ASSUME Same(i) PROVE Kept(i)'
  BY <1>0, <1>13 DEF Same
<1>14. ASSUME Dies(i) PROVE Kept(i)'
  BY <1>0, <1>14 DEF Dies
<1>15. ASSUME Ages(i) PROVE Kept(i)'
  BY <1>0, <1>15 DEF Ages, Due, Down, Nothing
<1> QED
  BY NextIsStep, <1>1, <1>2, <1>3, <1>4, <1>5, <1>6, <1>7, <1>8, <1>9, <1>10, <1>11, <1>12, <1>13, <1>14, <1>15, SMTT(30) DEF Step, Moves, Killing, Ticks, Acts

LEMMA MetGrows == ASSUME LogType, [Next]_vars PROVE log.met \subseteq log.met' /\ log.lone \subseteq log.lone'
<1> USE DEF LogType
<1>1. ASSUME NEW i \in Processes, ReadKeys(i) PROVE log.met \subseteq log.met' /\ log.lone \subseteq log.lone'
  <2>1. PICK known \in KnownNow(i) :
          IF pc[i] = "checking" THEN CheckedWith(i, known) /\ UNCHANGED wants ELSE WaitedWith(i, known)
    BY <1>1 DEF ReadKeys
  <2>2. CASE pc[i] = "checking"
    <3>1. CASE known[NameOf[i]] = None
      <4>1. PICK m, u : log' = [log EXCEPT !.met = log.met \cup m, !.unseen = u]
        BY <2>1, <2>2, <3>1 DEF CheckedWith, Passed
      <4> QED
        BY <4>1
    <3>2. CASE known[NameOf[i]] # None /\ elapsed[i] > Timeout
      BY <2>1, <2>2, <3>2, SMTT(30) DEF CheckedWith
    <3>3. CASE known[NameOf[i]] # None /\ ~(elapsed[i] > Timeout)
      BY <2>1, <2>2, <3>3, SMTT(30) DEF CheckedWith
    <3> QED
      BY <3>1, <3>2, <3>3
  <2>3. CASE pc[i] # "checking"
    BY <2>1, <2>3 DEF WaitedWith, WaitIsOver
  <2> QED
    BY <2>2, <2>3
<1>2. ASSUME NEW i \in Processes, NEW t \in Threads, Write(i, t)
      PROVE log.met \subseteq log.met' /\ log.lone \subseteq log.lone'
  BY <1>2 DEF Write
<1>3. ASSUME NEW i \in Processes, ListKeys(i) \/ KeyIsGone(i) \/ LoseConnection(i) \/ DevicesStopped(i)
      PROVE log.met \subseteq log.met' /\ log.lone \subseteq log.lone'
  BY <1>3 DEF ListKeys, KeyIsGone, LoseConnection, DevicesStopped
<1>5. ASSUME NEW i \in Processes, Start(i) PROVE log.met \subseteq log.met' /\ log.lone \subseteq log.lone'
  <2>1. log' = log \/ log' = [log EXCEPT !.met = @ \cup {i}]
    BY <1>5 DEF Start
  <2> QED
    BY <2>1
<1>4. ASSUME SameLog PROVE log.met \subseteq log.met' /\ log.lone \subseteq log.lone'
  BY <1>4 DEF SameLog
<1> QED
  BY <1>1, <1>2, <1>3, <1>4, <1>5, QuietSteps DEF Next, Updating, Looking, Main, Side, Outside, Steps, Threads

\* Only who reads the keys, or misses one, can break a property.
LEMMA VerdictSteps ==
  ASSUME LogType, [Next]_vars
  PROVE  \/ \E i \in Processes : ReadKeys(i) \/ KeyIsGone(i)
         \/ UNCHANGED <<log.unseen, log.vanished, log.deceived>>
<1> USE DEF LogType
<1>1. ASSUME NEW i \in Processes, NEW t \in Threads, Write(i, t)
      PROVE UNCHANGED <<log.unseen, log.vanished, log.deceived>>
  BY <1>1 DEF Write
<1>2. ASSUME NEW i \in Processes, ListKeys(i) \/ Start(i) \/ LoseConnection(i) \/ DevicesStopped(i)
      PROVE UNCHANGED <<log.unseen, log.vanished, log.deceived>>
  BY <1>2 DEF ListKeys, Start, LoseConnection, DevicesStopped
<1>3. ASSUME SameLog PROVE UNCHANGED <<log.unseen, log.vanished, log.deceived>>
  BY <1>3 DEF SameLog
<1> QED
  BY <1>1, <1>2, <1>3, QuietSteps DEF Next, Updating, Looking, Main, Side, Outside, Steps, Threads

\* Nobody goes back to before it announced itself.
LEMMA PcNext ==
  ASSUME TypeOK, LogType, LifeInv, [Next]_vars, NEW j \in Processes, pc[j] \notin {"off", "checking"}
  PROVE  pc[j]' \notin {"off", "checking"} /\ (Updates(j)' => Updates(j))
<1> USE DEF Updates, SameLife, LifeInv, Life
<1>1. CASE Same(j)
  BY <1>1 DEF Same
<1>2. CASE Dies(j)
  BY <1>2 DEF Dies
<1>3. CASE Ages(j)
  BY <1>3 DEF Ages
<1>4. CASE Acts(j)
  BY <1>4 DEF Acts, Writes, Renews, Lists, Reads, Misses, Starts, Comes, Stops, Stopped, Closes, Goes, Cuts, Looks
<1> QED
  BY NextIsStep, <1>1, <1>2, <1>3, <1>4 DEF Step, Moves, Killing, Ticks

\* Keys go away with time only.
LEMMA KeysStay == ASSUME TypeOK, LogType, Step, ~Ticks PROVE Keys \subseteq Keys'
<1> SUFFICES ASSUME NEW k \in Keys PROVE ttl[k]' > 0
  BY DEF Keys
<1> USE TimesAssumption DEF Keys, SameKey
<1>1. CASE Same(k)
  BY <1>1 DEF Same
<1>2. CASE Dies(k)
  BY <1>2 DEF Dies
<1>3. CASE Acts(k)
  BY <1>3 DEF Acts, Writes, Renews, Lists, Reads, Misses, Starts, Comes, Stops, Stopped, Closes, Goes, Cuts
<1> QED
  BY <1>1, <1>2, <1>3 DEF Step, Moves, Killing

\* Whoever is known and up has a key.
LEMMA KnownHasKey ==
  ASSUME TypeOK, KeptInv, NEW j \in Processes, j \in log.known, Updates(j)
  PROVE  j \in Keys
<1>1. ttl[j] + Refresh >= Expire + (IF out[j]["update"] = None THEN timer[j] ELSE 0)
  BY DEF KeptInv, Kept
<1>2. ttl[j] \in Int /\ timer[j] \in Nat
  BY TimesAssumption DEF TypeOK
<1>3. ttl[j] > 0
  <2>1. CASE out[j]["update"] = None
    BY TimesAssumption, <1>1, <1>2, <2>1
  <2>2. CASE out[j]["update"] # None
    BY TimesAssumption, <1>1, <1>2, <2>2
  <2> QED
    BY <2>1, <2>2
<1> QED
  BY <1>3 DEF Keys

LEMMA SeenNext == ASSUME TypeOK, LogType, LifeInv, KeptInv, SeenInv, [Next]_vars PROVE SeenInv'
<1> SUFFICES ASSUME NEW i \in Processes, at[i]' # "idle", IsUnique(i), i \notin log.cutOff', NEW j \in log.there[i]'
             PROVE  NameOf[j] = NameOf[i] /\ pc[j]' \notin {"off", "checking"} /\ (Updates(j)' => j \in seen[i]')
  BY DEF SeenInv, Seen, IsUnique
<1>1. j \in Processes
  BY NextLogType DEF LogType
<1>2. CASE ~Lists(i)
  <2>1. at[i] # "idle" /\ i \notin log.cutOff /\ UNCHANGED <<log.there[i], seen[i]>>
    <3> USE DEF SameLook, SameMarks, SameCut
    <3>1. CASE Same(i)
      BY <3>1 DEF Same
    <3>2. CASE Dies(i)
      BY <3>2 DEF Dies
    <3>3. CASE Ages(i)
      BY <3>3 DEF Ages
    <3>4. CASE Writes(i)
      BY <3>4 DEF Writes
    <3>5. CASE Acts(i) /\ ~Writes(i)
      BY <1>2, <3>5 DEF Acts, Renews, Reads, Misses, Starts, Comes, Stops, Stopped, Closes, Goes, Cuts
    <3> QED
      BY NextIsStep, <3>1, <3>2, <3>3, <3>4, <3>5 DEF Step, Moves, Killing, Ticks
  <2>2. NameOf[j] = NameOf[i] /\ pc[j] \notin {"off", "checking"} /\ (Updates(j) => j \in seen[i])
    BY <2>1 DEF SeenInv, Seen
  <2> QED
    BY <1>1, <2>1, <2>2, PcNext
<1>3. CASE Lists(i)
  <2>1. j \in Rivals(i) /\ j \in log.known
    BY <1>3 DEF Lists
  <2>2. i \notin cut
    BY <1>3 DEF Lists, SameCut, LifeInv, Life
  <2>3. seen[i]' = Keys
    BY <1>3, <2>2 DEF Lists
  <2>4. pc[j] \notin {"off", "checking"}
    BY <1>1, <2>1 DEF LifeInv, Life
  <2>5. Updates(j) => j \in Keys
    BY <1>1, <2>1, KnownHasKey
  <2> QED
    BY <1>1, <2>1, <2>3, <2>4, <2>5, PcNext DEF Rivals
<1> QED
  BY <1>2, <1>3

LEMMA MetNext == ASSUME TypeOK, LogType, LifeInv, MetInv, [Next]_vars PROVE MetInv'
<1> SUFFICES ASSUME NEW i \in Processes, pc[i]' = "checking", i \notin log.met', NEW k \in Rivals(i)
             PROVE  Old(i, k)'
  BY DEF MetInv, Met, Rivals
<1> USE TimesAssumption DEF TypeOK, SameLife, SameWrites, SameLook, SameKey
<1>1. i \notin log.met /\ k \in Processes /\ k # i /\ NameOf[k] = NameOf[i] /\ i \in Rivals(k)
  BY MetGrows DEF Rivals
<1>2. pc[i] = "checking" => Old(i, k) /\ Mute(k)
  BY <1>1 DEF MetInv, Met, Old, LifeInv, Life
<1>3. CASE Starts(i) /\ Same(k)
  <2>1. elapsed[i]' = 0 /\ timer[i]' = 0 /\ ~Alive(k)
    BY <1>1, <1>3 DEF Starts, LifeInv, Life
  <2> QED
    BY <1>1, <1>3, <2>1 DEF Same, Old, Alive, Registered
<1>4. CASE Acts(i) /\ ~Starts(i) /\ Same(k)
  <2>1. /\ pc[i] = "checking"
        /\ \/ UNCHANGED <<elapsed[i], timer[i]>>
           \/ timer[i] = 0 /\ elapsed[i]' = elapsed[i] + 1 /\ timer[i]' = 1
    BY <1>4 DEF Acts, Writes, Renews, Lists, Reads, Misses, Comes, Stops, Stopped, Closes, Goes, Cuts, Updates,
                Alive, Registered, LifeInv, Life
  <2> QED
    BY <1>1, <1>2, <1>4, <2>1, SMTT(30) DEF Same, Old, Alive, Registered
<1>5. CASE Same(i) /\ Same(k)
  BY <1>1, <1>2, <1>5 DEF Same, Old, Alive, Registered
<1>6. CASE Same(i) /\ Acts(k)
  <2>1. pc[i] = "checking" /\ Old(i, k) /\ Mute(k) /\ IsUnique(k)
    BY <1>1, <1>2, <1>6 DEF Same, LifeInv, Life, IsUnique
  <2>2. SameKey(k)
    BY <1>6, <2>1 DEF Acts, Writes, Renews, Lists, Reads, Misses, Starts, Comes, Stops, Stopped, Closes, Goes, Cuts, Mute
  <2>3. ~Alive(k)'
    BY <1>1, <1>6, <2>1 DEF Acts, Writes, Renews, Lists, Reads, Misses, Starts, Comes, Stops, Stopped, Closes, Goes, Cuts,
                            Old, Alive, Registered, Mute, Looks, Updates
  <2> QED
    BY <1>6, <2>1, <2>2, <2>3 DEF Same, Old
<1>7. CASE Same(i) /\ Dies(k)
  BY <1>1, <1>2, <1>7 DEF Same, Dies, Old, Alive, Registered
<1>8. CASE Ages(i) /\ Ages(k)
  <2>1. pc[i] = "checking" /\ Old(i, k)
    BY <1>2, <1>8 DEF Ages
  <2> QED
    BY <1>1, <1>8, <2>1, SMTT(30) DEF Ages, Down, Old, Alive, Registered
<1>9. ~Dies(i)
  BY DEF Dies
<1> QED
  BY NextIsStep, <1>1, <1>3, <1>4, <1>5, <1>6, <1>7, <1>8, <1>9 DEF Step, Moves, Killing, Ticks

LEMMA SaysNext == ASSUME TypeOK, LogType, LifeInv, SaysInv, [Next]_vars PROVE SaysInv'
<1> SUFFICES ASSUME NEW i \in Processes PROVE Says(i)'
  BY DEF SaysInv
<1> USE TimesAssumption DEF TypeOK, LogType, Registered, Threads, Status, None, SameLife, SameWrites, SameKey, SameCut, SameMarks,
                            Sets, Says, Quiet, Listens, IsDeviceServer, Updates
<1>0. Says(i) /\ Life(i)
  BY DEF SaysInv, LifeInv
<1>1. ASSUME Writes(i) PROVE Says(i)'
  BY <1>0, <1>1 DEF Writes
<1>2. ASSUME Renews(i) PROVE Says(i)'
  BY <1>0, <1>2 DEF Renews
<1>3. ASSUME Lists(i) PROVE Says(i)'
  BY <1>0, <1>3 DEF Lists
<1>4. ASSUME Reads(i) PROVE Says(i)'
  BY <1>0, <1>4 DEF Reads, Looks, Life, Mute
<1>5. ASSUME Misses(i) PROVE Says(i)'
  BY <1>0, <1>5 DEF Misses, Mute, Looks
<1>6. ASSUME Starts(i) PROVE Says(i)'
  BY <1>0, <1>6 DEF Starts, Life, Mute
<1>7. ASSUME Comes(i) PROVE Says(i)'
  BY <1>0, <1>7 DEF Comes
<1>8. ASSUME Stops(i) PROVE Says(i)'
  BY <1>0, <1>8 DEF Stops, Mute, Alive
<1>9. ASSUME Stopped(i) PROVE Says(i)'
  BY <1>0, <1>9 DEF Stopped
<1>10. ASSUME Closes(i) PROVE Says(i)'
  BY <1>0, <1>10 DEF Closes
<1>11. ASSUME Goes(i) PROVE Says(i)'
  BY <1>0, <1>11 DEF Goes, Mute
<1>12. ASSUME Cuts(i) PROVE Says(i)'
  BY <1>0, <1>12 DEF Cuts
<1>13. ASSUME Same(i) PROVE Says(i)'
  BY <1>0, <1>13 DEF Same
<1>14. ASSUME Dies(i) PROVE Says(i)'
  BY <1>0, <1>14 DEF Dies, Mute
<1>15. ASSUME Ages(i) PROVE Says(i)'
  BY <1>0, <1>15, SMTT(30) DEF Ages, Due, Nothing, Down
<1> QED
  BY NextIsStep, <1>1, <1>2, <1>3, <1>4, <1>5, <1>6, <1>7, <1>8, <1>9, <1>10, <1>11, <1>12, <1>13, <1>14, <1>15 DEF Step, Moves, Killing, Ticks, Acts

LEMMA HurriesNext ==
  ASSUME TypeOK, LogType, LifeInv, NEW i \in Processes, Hurries(i), [Next]_vars
  PROVE  Hurries(i)' /\ (Unannounced(i) => ~Ticks)
<1> USE TimesAssumption DEF TypeOK, Threads, Status, None, SameLife, SameWrites, SameKey, SameCut, SameMarks, Sets,
                            Unannounced, Hurries, Updates, Registered
<1>0. Life(i)
  BY DEF LifeInv
<1>1. ASSUME Writes(i) PROVE Hurries(i)'
  BY <1>0, <1>1 DEF Writes, Life
<1>2. ASSUME Renews(i) PROVE Hurries(i)'
  BY <1>0, <1>2 DEF Renews
<1>3. ASSUME Lists(i) PROVE Hurries(i)'
  BY <1>0, <1>3 DEF Lists
<1>4. ASSUME Reads(i) PROVE Hurries(i)'
  BY <1>0, <1>4 DEF Reads, Looks, Life
<1>5. ASSUME Misses(i) PROVE Hurries(i)'
  BY <1>0, <1>5 DEF Misses, Looks
<1>6. ASSUME Starts(i) PROVE Hurries(i)'
  BY <1>0, <1>6 DEF Starts, Life
<1>7. ASSUME Comes(i) PROVE Hurries(i)'
  BY <1>0, <1>7 DEF Comes
<1>8. ASSUME Stops(i) PROVE Hurries(i)'
  BY <1>0, <1>8 DEF Stops, Alive
<1>9. ASSUME Stopped(i) PROVE Hurries(i)'
  BY <1>0, <1>9 DEF Stopped
<1>10. ASSUME Closes(i) PROVE Hurries(i)'
  BY <1>0, <1>10 DEF Closes
<1>11. ASSUME Goes(i) PROVE Hurries(i)'
  BY <1>0, <1>11 DEF Goes
<1>12. ASSUME Cuts(i) PROVE Hurries(i)'
  BY <1>0, <1>12 DEF Cuts
<1>13. ASSUME Same(i) PROVE Hurries(i)'
  BY <1>0, <1>13 DEF Same
<1>14. ASSUME Dies(i) PROVE Hurries(i)'
  BY <1>0, <1>14 DEF Dies
<1>15. ASSUME Ages(i) PROVE Hurries(i)'
  BY <1>0, <1>15 DEF Ages, Due, Nothing, Down
<1>16. Unannounced(i) => ~Ticks
  BY DEF Ticks, Ages, Due, Nothing
<1> QED
  BY NextIsStep, <1>1, <1>2, <1>3, <1>4, <1>5, <1>6, <1>7, <1>8, <1>9, <1>10, <1>11, <1>12, <1>13, <1>14, <1>15, <1>16
     DEF Step, Moves, Killing, Ticks, Acts

LEMMA BelievesNext == ASSUME TypeOK, LogType, LifeInv, KeptInv, BelievesInv, [Next]_vars PROVE BelievesInv'
<1> SUFFICES ASSUME NEW i \in Processes PROVE Hurries(i)' /\ Believes(i)'
  BY DEF BelievesInv
<1>h. Hurries(i)' /\ (Unannounced(i) => ~Ticks)
  BY HurriesNext DEF BelievesInv
<1>0. Life(i) /\ Believes(i)
  BY DEF LifeInv, BelievesInv
<1>k. Keys = {} \/ Keys' # {} \/ Ticks
  BY KeysStay, NextIsStep
<1>n. Ticks => Ages(i)
  BY DEF Ticks
<1> USE DEF TypeOK, Registered, SameLife, SameLook, SameCut, Unannounced, Updates, Believes
<1>1. ASSUME Writes(i) PROVE Believes(i)'
  BY <1>0, <1>k, <1>h, <1>1 DEF Writes
<1>2. ASSUME Renews(i) PROVE Believes(i)'
  BY <1>0, <1>k, <1>h, <1>2 DEF Renews
<1>3. ASSUME Lists(i) PROVE Believes(i)'
  <2>1. ASSUME Updates(i), i \notin log.cutOff, seen[i]' = {} PROVE info[i]["DeviceServer"] # "RUNNING"
    <3>1. Keys = {}
      BY <1>0, <1>3, <2>1 DEF Lists, Life
    <3>2. i \notin log.known
      BY <2>1, <3>1, KnownHasKey
    <3> QED
      BY <1>0, <2>1, <3>1, <3>2
  <2> QED
    BY <1>0, <1>k, <1>h, <1>3, <2>1 DEF Lists
<1>4. ASSUME Reads(i) PROVE Believes(i)'
  <2>1. CASE seen[i] = {}
    <3>1. UNCHANGED info[i]
      BY <1>4, <2>1 DEF Reads, KnownNow
    <3>2. CASE pc[i] = "checking"
      <4>1. info[i]["DeviceServer"] # "RUNNING" \/ info[i][NameOf[i]] # None
        BY <1>0, <3>2, NamesAssumption DEF None
      <4> QED
        BY <1>0, <1>4, <3>1, <3>2, <4>1 DEF Reads
    <3>3. CASE pc[i] # "checking"
      BY <1>0, <1>k, <1>h, <1>4, <3>1, <3>3 DEF Reads, Looks
    <3> QED
      BY <3>2, <3>3
  <2>2. CASE seen[i] # {}
    <3>1. Keys # {}
      BY <1>4, <2>2 DEF Reads, Keys
    <3>2. Keys' # {}
      BY <1>k, <1>n, <1>4, <3>1 DEF Reads, Ages
    <3> QED
      BY <1>0, <1>4, <3>2 DEF Reads
  <2> QED
    BY <2>1, <2>2
<1>5. ASSUME Misses(i) PROVE Believes(i)'
  BY <1>0, <1>k, <1>h, <1>5 DEF Misses, Looks
<1>6. ASSUME Starts(i) PROVE Believes(i)'
  <2>1. info[i]["DeviceServer"] = None
    BY <1>0, <1>6, NamesAssumption DEF Starts, Life
  <2> QED
    BY <1>0, <1>6, <2>1 DEF Starts, Life, None
<1>7. ASSUME Comes(i) PROVE Believes(i)'
  BY <1>0, <1>k, <1>h, <1>7 DEF Comes
<1>8. ASSUME Stops(i) PROVE Believes(i)'
  BY <1>0, <1>k, <1>h, <1>8 DEF Stops, Alive
<1>9. ASSUME Stopped(i) PROVE Believes(i)'
  BY <1>0, <1>k, <1>h, <1>9 DEF Stopped
<1>10. ASSUME Closes(i) PROVE Believes(i)'
  BY <1>0, <1>k, <1>h, <1>10 DEF Closes
<1>11. ASSUME Goes(i) PROVE Believes(i)'
  BY <1>0, <1>k, <1>h, <1>11 DEF Goes
<1>12. ASSUME Cuts(i) PROVE Believes(i)'
  BY <1>0, <1>k, <1>h, <1>12 DEF Cuts
<1>13. ASSUME Same(i) PROVE Believes(i)'
  BY <1>0, <1>k, <1>h, <1>13 DEF Same
<1>14. ASSUME Dies(i) PROVE Believes(i)'
  BY <1>0, <1>k, <1>h, <1>14 DEF Dies
<1>15. ASSUME Ages(i) PROVE Believes(i)'
  BY <1>0, <1>k, <1>h, <1>15 DEF Ages
<1> QED
  BY NextIsStep, <1>h, <1>1, <1>2, <1>3, <1>4, <1>5, <1>6, <1>7, <1>8, <1>9, <1>10, <1>11, <1>12, <1>13, <1>14, <1>15
     DEF Step, Moves, Killing, Ticks, Acts

\* The whole invariant, and what it gives.
SInv == TypeOK /\ LogType /\ LifeInv /\ KeptInv /\ SeenInv /\ MetInv /\ SaysInv /\ BelievesInv

LEMMA InitSInv == Init => SInv
<1> SUFFICES ASSUME Init PROVE SInv
  OBVIOUS
<1> USE TimesAssumption DEF Init
<1>1. SeenInv
  BY DEF SeenInv, Seen
<1>2. MetInv
  BY DEF MetInv, Met
<1>3. SaysInv
  BY DEF SaysInv, Says, Quiet, Listens, Updates, Nothing, None
<1>4. BelievesInv
  BY NamesAssumption DEF BelievesInv, Hurries, Unannounced, Believes, Updates, None
<1> QED
  BY InitType, InitLife, <1>1, <1>2, <1>3, <1>4 DEF SInv

LEMMA NextSInv == SInv /\ [Next]_vars => SInv'
  BY NextType, NextLogType, LifeNext, KeptNext, SeenNext, MetNext, SaysNext, BelievesNext DEF SInv

\* A list that is not empty says of each class what one of its keys says.
LEMMA InfosTell ==
  ASSUME TypeOK, NEW i \in Processes, NEW known \in Infos(i), NEW n \in Names, known[n] # None
  PROVE  \E j \in seen[i] : NameOf[j] = n /\ known[n] = val[j]
  BY DEF Infos

LEMMA InfosKnow ==
  ASSUME TypeOK, NEW i \in Processes, NEW known \in Infos(i), NEW j \in seen[i], NEW n \in Names, n = NameOf[j]
  PROVE  known[n] # None
<1>1. {k \in seen[i] : NameOf[k] = n} # {}
  OBVIOUS
<1>2. PICK k \in seen[i] : known[n] = val[k]
  BY <1>1 DEF Infos
<1> QED
  BY <1>2 DEF TypeOK, Status, None

LEMMA NextUnique == SInv /\ UniqueService /\ [Next]_vars => UniqueService'
<1> SUFFICES ASSUME SInv, UniqueService, [Next]_vars PROVE UniqueService'
  OBVIOUS
<1> USE DEF UniqueService, SInv
<1>1. ASSUME NEW i \in Processes, KeyIsGone(i) PROVE UniqueService'
  BY <1>1 DEF KeyIsGone, LogType
<1>2. ASSUME NEW i \in Processes, ReadKeys(i) PROVE UniqueService'
  <2>1. PICK known \in KnownNow(i) :
          IF pc[i] = "checking" THEN CheckedWith(i, known) /\ UNCHANGED wants ELSE WaitedWith(i, known)
    BY <1>2 DEF ReadKeys
  <2>2. CASE pc[i] = "checking" /\ known[NameOf[i]] = None
    <3>1. log.unseen' = log.unseen \cup {j \in log.there[i] : Updates(j) /\ i \notin log.cutOff}
      BY <2>1, <2>2 DEF CheckedWith, Passed, LogType
    <3>2. ASSUME NEW j \in log.there[i], Updates(j), i \notin log.cutOff PROVE FALSE
      <4>1. NameOf[j] = NameOf[i] /\ j \in seen[i]
        BY <1>2, <2>2, <3>2 DEF ReadKeys, SeenInv, Seen, LifeInv, Life
      <4>2. known \in Infos(i) /\ NameOf[i] \in Names
        BY <4>1 DEF KnownNow, Names
      <4> QED
        BY <2>2, <4>1, <4>2, InfosKnow
    <3> QED
      BY <3>1, <3>2
  <2>3. CASE pc[i] = "checking" /\ known[NameOf[i]] # None
    BY <2>1, <2>3 DEF CheckedWith, LogType
  <2>4. CASE pc[i] # "checking"
    BY <2>1, <2>4 DEF WaitedWith, WaitIsOver, LogType
  <2> QED
    BY <2>2, <2>3, <2>4
<1> QED
  BY VerdictSteps, <1>1, <1>2

LEMMA NextRefused == SInv /\ RefusedForReason /\ [Next]_vars => RefusedForReason'
<1> SUFFICES ASSUME SInv, RefusedForReason, [Next]_vars, NEW i \in Processes, pc[i]' = "refused"
             PROVE  i \in log.met' \/ i \in log.lone'
  BY DEF RefusedForReason
<1> USE DEF SInv, SameLife
<1>1. log.met \subseteq log.met' /\ log.lone \subseteq log.lone'
  BY MetGrows
<1>2. CASE pc[i] = "refused"
  BY <1>1, <1>2 DEF RefusedForReason
<1>3. CASE pc[i] # "refused"
  <2>1. ~Same(i) /\ ~Dies(i) /\ ~Ages(i)
    BY <1>3 DEF Same, Dies, Ages
  <2>2. Acts(i)
    BY NextIsStep, <2>1 DEF Step, Moves, Killing, Ticks
  <2>3. Reads(i)
    BY <1>3, <2>2 DEF Acts, Writes, Renews, Lists, Misses, Starts, Comes, Stops, Stopped, Closes, Goes, Cuts
  <2>4. pc[i] = "checking" /\ timer[i] = 0 /\ elapsed[i] > Timeout /\ info[i][NameOf[i]]' # None
    BY <1>3, <2>3 DEF Reads
  <2>5. CASE seen[i] = {}
    BY <1>3, <2>3, <2>5 DEF Reads
  <2>6. CASE seen[i] # {}
    <3>1. PICK known : known = info[i]' /\ known \in Infos(i)
      BY <2>3, <2>6 DEF Reads, KnownNow
    <3>2. known[NameOf[i]] # None /\ NameOf[i] \in Names
      BY <2>4, <3>1 DEF Names
    <3>3. PICK j \in seen[i] : NameOf[j] = NameOf[i]
      BY <3>1, <3>2, InfosTell
    <3>4. j \in Processes /\ ttl[j] > 0 /\ ttl[i] = 0
      BY <2>3, <2>4 DEF Reads, TypeOK, LifeInv, Life
    <3>5. j \in Rivals(i)
      BY <3>3, <3>4 DEF Rivals
    <3>6. i \notin log.met => ttl[j] + elapsed[i] <= Expire
      <4>1. i \notin log.met => Old(i, j)
        BY <2>4, <3>5 DEF MetInv, Met
      <4>2. elapsed[i] \in Nat /\ ttl[j] \in Nat
        BY <3>4, TimesAssumption DEF TypeOK
      <4> QED
        BY <2>4, <3>4, <4>1, <4>2, TimesAssumption DEF Old
    <3>7. i \in log.met
      BY <2>4, <3>4, <3>6, TimesAssumption DEF TypeOK
    <3> QED
      BY <1>1, <3>7
  <2> QED
    BY <2>5, <2>6
<1> QED
  BY <1>2, <1>3

LEMMA NextSeen == SInv /\ LivingAreSeen /\ [Next]_vars => LivingAreSeen'
<1> SUFFICES ASSUME SInv, LivingAreSeen, [Next]_vars PROVE LivingAreSeen'
  OBVIOUS
<1> USE DEF LivingAreSeen, SInv
<1>1. ASSUME NEW i \in Processes, KeyIsGone(i) PROVE LivingAreSeen'
  <2>1. log.vanished' = (log.vanished \/ \E j \in seen[i] : ttl[j] = 0 /\ Updates(j) /\ j \in log.known)
    BY <1>1 DEF KeyIsGone, LogType
  <2>2. ASSUME NEW j \in seen[i], ttl[j] = 0, Updates(j), j \in log.known PROVE FALSE
    <3>1. j \in Processes
      BY DEF TypeOK
    <3>2. j \in Keys
      BY <2>2, <3>1, KnownHasKey
    <3> QED
      BY <2>2, <3>2 DEF Keys
  <2> QED
    BY <2>1, <2>2
<1>2. ASSUME NEW i \in Processes, ReadKeys(i) PROVE LivingAreSeen'
  <2>1. PICK known \in KnownNow(i) :
          IF pc[i] = "checking" THEN CheckedWith(i, known) /\ UNCHANGED wants ELSE WaitedWith(i, known)
    BY <1>2 DEF ReadKeys
  <2>2. CASE pc[i] = "checking"
    BY <2>1, <2>2 DEF CheckedWith, Passed, LogType
  <2>3. CASE pc[i] # "checking"
    BY <2>1, <2>3 DEF WaitedWith, WaitIsOver, LogType
  <2> QED
    BY <2>2, <2>3
<1> QED
  BY VerdictSteps, <1>1, <1>2

LEMMA NextDeceived == SInv /\ WaitedMeansListening /\ [Next]_vars => WaitedMeansListening'
<1> SUFFICES ASSUME SInv, WaitedMeansListening, [Next]_vars PROVE WaitedMeansListening'
  OBVIOUS
<1> USE DEF WaitedMeansListening, SInv
<1>1. ASSUME NEW i \in Processes, KeyIsGone(i) PROVE WaitedMeansListening'
  BY <1>1 DEF KeyIsGone, LogType
<1>2. ASSUME NEW i \in Processes, ReadKeys(i) PROVE WaitedMeansListening'
  <2>1. PICK known \in KnownNow(i) :
          IF pc[i] = "checking" THEN CheckedWith(i, known) /\ UNCHANGED wants ELSE WaitedWith(i, known)
    BY <1>2 DEF ReadKeys
  <2>2. CASE pc[i] = "checking"
    BY <2>1, <2>2 DEF CheckedWith, Passed, LogType
  <2>3. CASE pc[i] # "checking" /\ known[Head(wants[i])] = "RUNNING"
    <3>1. log' = [log EXCEPT !.deceived = @ \/ Deceived(i, Head(wants[i]))]
      BY <2>1, <2>3 DEF WaitedWith, WaitIsOver
    <3>2. ASSUME Deceived(i, Head(wants[i])) PROVE FALSE
      <4>1. known["DeviceServer"] = "RUNNING" /\ i \notin log.cutOff
        BY <2>3, <3>2 DEF Deceived
      <4>2. Updates(i) /\ at[i] # "idle"
        BY <1>2, <2>3 DEF ReadKeys, Looks
      <4>3. seen[i] # {}
        BY <2>1, <4>1, <4>2 DEF KnownNow, BelievesInv, Believes
      <4>4. known \in Infos(i)
        BY <2>1, <4>3 DEF KnownNow
      <4>5. PICK j \in seen[i] : NameOf[j] = "DeviceServer" /\ val[j] = "RUNNING"
        BY <4>1, <4>4, NamesAssumption, InfosTell DEF None
      <4>6. j \in Processes /\ ttl[j] > 0
        BY <1>2 DEF ReadKeys, TypeOK
      <4>7. Quiet(j) /\ since[j] \notin 1..Expire
        BY <3>2, <4>5, <4>6 DEF Deceived, Quiet, IsDeviceServer
      <4>8. since[j] >= 1 /\ ttl[j] + since[j] <= Expire + 1
        BY <4>5, <4>6, <4>7 DEF SaysInv, Says
      <4> QED
        BY <4>6, <4>7, <4>8, TimesAssumption DEF TypeOK
    <3> QED
      BY <3>1, <3>2 DEF LogType
  <2>4. CASE pc[i] # "checking" /\ known[Head(wants[i])] # "RUNNING"
    BY <2>1, <2>4 DEF WaitedWith
  <2> QED
    BY <2>2, <2>3, <2>4
<1> QED
  BY VerdictSteps, <1>1, <1>2

-----------------------------------------------------------------------------
\* Every state has the type of Services, whatever happens to the processes and in whatever
\* order their threads go on.
THEOREM TypeCorrect == Spec => []TypeOK
<1>1. SInv => TypeOK
  BY DEF SInv
<1> QED
  BY <1>1, InitSInv, NextSInv, PTL DEF Spec

\* No service starts beside another one of its class that has announced itself, is up and
\* connected; one is refused only because of another one that was alive while it was
\* checking, or because no process at all had a key; and the key of a process that is up
\* and connected never expires between its listing and its reading (bec_service.py:66, :98).
THEOREM KeysTell == Spec => []KeysAreTrue
<1>1. Init => KeysAreTrue
  BY DEF Init, KeysAreTrue, UniqueService, RefusedForReason, LivingAreSeen
<1>2. SInv /\ KeysAreTrue /\ [Next]_vars => KeysAreTrue'
  BY NextUnique, NextRefused, NextSeen DEF KeysAreTrue
<1> QED
  BY <1>1, <1>2, InitSInv, NextSInv, PTL DEF Spec

\* Who has waited for the device server finds one that listens, or that stopped to listen
\* no longer ago than a key lives, unless it said RUNNING too early (scan_worker.py:282).
THEOREM WaitersAreServed == Spec => []WaitedMeansListening
<1>1. Init => WaitedMeansListening
  BY DEF Init, WaitedMeansListening
<1> QED
  BY <1>1, InitSInv, NextSInv, NextDeceived, PTL DEF Spec
=============================================================================
