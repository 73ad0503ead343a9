------------------------------ MODULE Services ------------------------------
(***************************************************************************)
(* What the processes of BEC know of each other (bec_lib/core/             *)
(* bec_service.py): each one keeps a status key in redis alive for as long *)
(* as it runs. A service of which there may be one only looks for the key  *)
(* of another one before it starts; a client, and the worker of the scan   *)
(* server before each item of the queue, wait until the key of a service   *)
(* says RUNNING.                                                           *)
(*                                                                         *)
(* Time is counted in ticks. What is due is done before the next tick; a   *)
(* constructor, a wait and the stopping of devices may take any time.      *)
(***************************************************************************)
EXTENDS Integers, FiniteSets, Sequences

CONSTANTS
  Processes,     (* Each one is started once at most.                         *)
  NameOf,        (* The class of a process.                                   *)
  Unique,        (* The classes with unique_service.                          *)
  Awaited,       (* The services that a client waits for, in this order.      *)
  Expire,        (* Ticks that a status key lives without being written.      *)
  Refresh,       (* Ticks between two writes of it.                           *)
  Timeout,       (* Ticks that _check_services keeps trying.                  *)
  Scenarios      (* The processes that are up at the start, and what may      *)
                 (* happen to which process after that, once each.            *)

Names == {NameOf[i] : i \in Processes}
Status == {"BUSY", "RUNNING", "IDLE"}
None == "none"

(* A key outlives the pause between two writes of it (6 s and 3 s), and a   *)
(* check tries for longer than a key lives (8 s).                          *)
ASSUME TimesAssumption == /\ Expire \in Nat /\ Refresh \in Nat /\ Timeout \in Nat
                          /\ 0 < Refresh /\ Refresh < Expire /\ Expire <= Timeout + 1
ASSUME NamesAssumption == /\ "DeviceServer" \in Names
                          /\ Awaited \in Seq(Names)

Threads == {"main", "update", "side"}

VARIABLES
  pc,        (* where a process is in its life                                  *)
  status,    (* _status                                                         *)
  out,       (* the status that a thread has read and is about to write         *)
  timer,     (* ticks until the update thread, or the check, goes on            *)
  elapsed,   (* elapsed_time of _check_services                                 *)
  at, seen,  (* _update_existing_services: the keys that were listed            *)
  info,      (* _services_info                                                  *)
  wants,     (* the services to wait for                                        *)
  stopping,  (* DeviceServer.stop_devices is under way                          *)
  ttl, val,  (* the status keys in redis                                        *)
  cut,       (* the processes that cannot reach redis                           *)
  lost,      (* the scan servers whose worker thread has ended                  *)
  since,     (* ticks since a device server has stopped listening               *)
  may,       (* what may still happen to the processes from outside             *)
  log        (* what happened, for the properties                               *)

local == <<pc, status, out, timer, elapsed, at, seen, info, wants, stopping>>
redis == <<ttl, val>>
around == <<cut, lost, since, may>>
vars == <<local, redis, around, log>>

-----------------------------------------------------------------------------
IsUnique(i) == NameOf[i] \in Unique
IsDeviceServer(i) == NameOf[i] = "DeviceServer"
Registered == {"building", "built", "waiting", "up", "closing", "silent"}
Alive(i) == pc[i] \in Registered
Updates(i) == pc[i] \in {"building", "built", "waiting", "up"}
Listens(i) == IsDeviceServer(i) /\ pc[i] = "up"
Rivals(i) == {j \in Processes \ {i} : NameOf[j] = NameOf[i]}
Nothing == [t \in Threads |-> None]
Keys == {i \in Processes : ttl[i] > 0}
Happens(what, i) == <<what, i>> \in may /\ may' = may \ {<<what, i>>}

(* The update thread, once in a while, and every assignment to `status`    *)
(* write the status key: the status is read before it is written.          *)

Write(i, t) ==
  /\ out[i][t] # None
  /\ out' = [out EXCEPT ![i][t] = None]
  /\ IF i \in cut THEN UNCHANGED <<redis, log>>
                  ELSE /\ ttl' = [ttl EXCEPT ![i] = Expire] /\ val' = [val EXCEPT ![i] = out[i][t]]
                       /\ log' = [log EXCEPT !.known = @ \cup {i}, !.cutOff = IF at[i] = "idle" THEN @ \ {i} ELSE @]
  /\ UNCHANGED <<pc, status, timer, elapsed, at, seen, info, wants, stopping, around>>

UpdateServiceInfo(i) ==
  /\ Updates(i) /\ timer[i] = 0 /\ out[i]["update"] = None
  /\ out' = [out EXCEPT ![i]["update"] = status[i]]
  /\ timer' = [timer EXCEPT ![i] = Refresh]
  /\ UNCHANGED <<pc, status, elapsed, at, seen, info, wants, stopping, redis, around, log>>

SetStatus(i, t, s) ==
  /\ out[i][t] = None
  /\ status' = [status EXCEPT ![i] = s]
  /\ out' = [out EXCEPT ![i][t] = s]

(* _check_services, and the waits for other services.                      *)

Passed(i) ==
  /\ pc' = [pc EXCEPT ![i] = "building"] /\ timer' = [timer EXCEPT ![i] = 0]
  /\ log' = [log EXCEPT
       !.met = @ \cup {j \in Rivals(i) : pc[j] = "checking"},
       !.unseen = @ \cup {j \in log.there[i] : Updates(j) /\ i \notin log.cutOff}]
  /\ UNCHANGED elapsed

CheckedWith(i, known) ==
  IF known[NameOf[i]] = None THEN Passed(i)
  ELSE IF elapsed[i] > Timeout
       THEN /\ pc' = [pc EXCEPT ![i] = "refused"]
            /\ log' = [log EXCEPT !.lone = IF seen[i] = {} THEN @ \cup {i} ELSE @]
            /\ UNCHANGED <<timer, elapsed>>
       ELSE /\ elapsed' = [elapsed EXCEPT ![i] = @ + 1] /\ timer' = [timer EXCEPT ![i] = 1]
            /\ UNCHANGED <<pc, log>>

Deceived(i, n) ==
  /\ n = "DeviceServer" /\ i \notin log.cutOff
  /\ \A j \in Processes : IsDeviceServer(j) =>
       ~Listens(j) /\ since[j] \notin 1..Expire /\ j \notin log.early
WaitIsOver(i) ==
  /\ wants' = [wants EXCEPT ![i] = Tail(@)]
  /\ pc' = [pc EXCEPT ![i] = IF Tail(wants[i]) = <<>> THEN "up" ELSE @]
  /\ log' = [log EXCEPT !.deceived = @ \/ Deceived(i, Head(wants[i]))]

\* Mutant of WaitedWith: any status will do.
WaitedForAny(i, known) ==
  /\ IF known[Head(wants[i])] # None THEN WaitIsOver(i) ELSE UNCHANGED <<wants, pc, log>>
  /\ UNCHANGED <<timer, elapsed>>
WaitedWith(i, known) ==
  /\ IF known[Head(wants[i])] = "RUNNING" THEN WaitIsOver(i) ELSE UNCHANGED <<wants, pc, log>>
  /\ UNCHANGED <<timer, elapsed>>

(* _update_existing_services, each time that one of them looks: first the  *)
(* keys are listed, then each one is read; a key that is gone by then      *)
(* raises an AttributeError. An empty list leaves _services_info as it is, *)
(* and so does a lost connection.                                          *)
Looks(i) == \/ pc[i] = "checking" /\ timer[i] = 0
            \/ wants[i] # <<>> /\ Updates(i)
ListKeys(i) ==
  /\ Looks(i) /\ at[i] = "idle"
  /\ at' = [at EXCEPT ![i] = "listed"]
  /\ seen' = [seen EXCEPT ![i] = IF i \in cut THEN {} ELSE Keys]
  /\ log' = [log EXCEPT !.there[i] = IF IsUnique(i) THEN Rivals(i) \cap log.known ELSE {}]
  /\ UNCHANGED <<pc, status, out, timer, elapsed, info, wants, stopping, redis, around>>

\* Of two processes of one class the one that is read last counts.
Infos(i) == {f \in [Names -> Status \cup {None}] : \A n \in Names :
               LET of == {j \in seen[i] : NameOf[j] = n} IN
               IF of = {} THEN f[n] = None ELSE \E j \in of : f[n] = val[j]}
\* Mutant of KnownNow: what was known before is kept.
KnownAlways(i) == {[n \in Names |-> IF f[n] = None THEN info[i][n] ELSE f[n]] : f \in Infos(i)}
KnownNow(i) == IF seen[i] = {} THEN {info[i]} ELSE Infos(i)

ReadKeys(i) ==
  /\ Looks(i) /\ at[i] \in {"listed", "late"}
  /\ \A j \in seen[i] : ttl[j] > 0
  /\ seen[i] = {} \/ i \notin cut
  /\ \E known \in KnownNow(i) :
       /\ info' = [info EXCEPT ![i] = known]
       /\ IF pc[i] = "checking" THEN CheckedWith(i, known) /\ UNCHANGED wants ELSE WaitedWith(i, known)
  /\ at' = [at EXCEPT ![i] = "idle"] /\ seen' = [seen EXCEPT ![i] = {}]
  /\ UNCHANGED <<status, out, stopping, redis, around>>

(* A process that is starting does not survive the error; of a scan server *)
(* that is up it ends the worker thread.                                   *)
KeyIsGone(i) ==
  /\ Looks(i) /\ at[i] \in {"listed", "late"}
  /\ \/ \E j \in seen[i] : ttl[j] = 0
     \/ seen[i] # {} /\ i \in cut
  /\ IF pc[i] = "up"
     THEN lost' = lost \cup {i} /\ UNCHANGED <<pc, out, stopping>>
     ELSE /\ pc' = [pc EXCEPT ![i] = "failed"] /\ out' = [out EXCEPT ![i] = Nothing]
          /\ stopping' = stopping \ {i} /\ UNCHANGED lost
  /\ log' = [log EXCEPT !.vanished = @ \/ \E j \in seen[i] : ttl[j] = 0 /\ Updates(j) /\ j \in log.known]
  /\ at' = [at EXCEPT ![i] = "idle"] /\ seen' = [seen EXCEPT ![i] = {}]
  /\ wants' = [wants EXCEPT ![i] = <<>>]
  /\ UNCHANGED <<status, timer, elapsed, info, redis, cut, since, may>>

-----------------------------------------------------------------------------
(* The life of a process. Services are started by hand or in a tmux        *)
(* session, which kills those of an earlier session.                       *)

Start(i) ==
  /\ pc[i] = "off" /\ Happens("start", i)
  /\ IF IsUnique(i)
     THEN /\ pc' = [pc EXCEPT ![i] = "checking"] /\ UNCHANGED wants
          /\ log' = [log EXCEPT !.met = IF \E j \in Rivals(i) : Alive(j) THEN @ \cup {i} ELSE @]
     ELSE pc' = [pc EXCEPT ![i] = "waiting"] /\ wants' = [wants EXCEPT ![i] = Awaited] /\ UNCHANGED log
  /\ timer' = [timer EXCEPT ![i] = 0]
  /\ UNCHANGED <<status, out, elapsed, at, seen, info, stopping, redis, cut, lost, since>>

(* The rest of the constructor: a device server makes its device manager,  *)
(* after it has subscribed to the modifications of the queue.              *)
MakeDeviceManager(i) ==
  /\ pc[i] = "building" /\ IsDeviceServer(i)
  /\ pc' = [pc EXCEPT ![i] = "built"]
  /\ UNCHANGED <<status, out, timer, elapsed, at, seen, info, wants, stopping, redis, around, log>>

\* Mutant of GoUp: the status stays BUSY.
GoUpBusy(i) ==
  /\ pc[i] = IF IsDeviceServer(i) THEN "built" ELSE "building"
  /\ pc' = [pc EXCEPT ![i] = "up"]
  /\ SetStatus(i, "main", "BUSY")
  /\ UNCHANGED <<timer, elapsed, at, seen, info, wants, stopping, redis, around, log>>
GoUp(i) ==
  /\ pc[i] = IF IsDeviceServer(i) THEN "built" ELSE "building"
  /\ pc' = [pc EXCEPT ![i] = "up"]
  /\ SetStatus(i, "main", "RUNNING")
  /\ UNCHANGED <<timer, elapsed, at, seen, info, wants, stopping, redis, around, log>>

(* DeviceServer.stop_devices, in the thread that receives modifications.   *)
\* Before there is a device manager it raises an error, which ends the process.
Abort(i) ==
  /\ Happens("abort", i)
  /\ IsDeviceServer(i) /\ Alive(i) /\ i \notin stopping /\ i \notin cut
  /\ IF pc[i] = "building"
     THEN pc' = [pc EXCEPT ![i] = "failed"] /\ out' = [out EXCEPT ![i] = Nothing] /\ UNCHANGED <<status, stopping>>
     ELSE SetStatus(i, "side", "BUSY") /\ stopping' = stopping \cup {i} /\ UNCHANGED pc
  /\ UNCHANGED <<timer, elapsed, at, seen, info, wants, redis, cut, lost, since, log>>
DevicesStopped(i) ==
  /\ i \in stopping /\ stopping' = stopping \ {i}
  /\ SetStatus(i, "side", "RUNNING")
  /\ log' = [log EXCEPT !.early = IF Listens(i) THEN @ ELSE @ \cup {i}]
  /\ UNCHANGED <<pc, timer, elapsed, at, seen, info, wants, redis, around>>

(* shutdown: the update thread ends, a device server then stops to listen, *)
(* says IDLE and waits for the thread that receives modifications.         *)
Shutdown(i) ==
  /\ pc[i] = "up" /\ IsUnique(i) /\ out[i]["update"] = None
  /\ Happens("shutdown", i)
  /\ pc' = [pc EXCEPT ![i] = "closing"]
  /\ since' = [since EXCEPT ![i] = 1]
  /\ wants' = [wants EXCEPT ![i] = <<>>] /\ at' = [at EXCEPT ![i] = "idle"] /\ seen' = [seen EXCEPT ![i] = {}]
  /\ UNCHANGED <<status, out, timer, elapsed, info, stopping, redis, cut, lost, log>>
SayIdle(i) ==
  /\ pc[i] = "closing" /\ IsDeviceServer(i)
  /\ SetStatus(i, "main", "IDLE")
  /\ pc' = [pc EXCEPT ![i] = "silent"]
  /\ UNCHANGED <<timer, elapsed, at, seen, info, wants, stopping, redis, around, log>>
End(i) ==
  /\ pc[i] = IF IsDeviceServer(i) THEN "silent" ELSE "closing"
  /\ out[i] = Nothing /\ i \notin stopping
  /\ pc' = [pc EXCEPT ![i] = "down"]
  /\ UNCHANGED <<status, out, timer, elapsed, at, seen, info, wants, stopping, redis, around, log>>

(* A process is killed, or all services with their session.                *)
Killed(ps) ==
  /\ pc' = [i \in Processes |-> IF i \in ps THEN "down" ELSE pc[i]]
  /\ out' = [i \in Processes |-> IF i \in ps THEN Nothing ELSE out[i]]
  /\ since' = [i \in Processes |-> IF i \in ps /\ Listens(i) THEN 1 ELSE since[i]]
  /\ wants' = [i \in Processes |-> IF i \in ps THEN <<>> ELSE wants[i]]
  /\ at' = [i \in Processes |-> IF i \in ps THEN "idle" ELSE at[i]]
  /\ seen' = [i \in Processes |-> IF i \in ps THEN {} ELSE seen[i]]
  /\ stopping' = stopping \ ps
  /\ UNCHANGED <<status, timer, elapsed, info, redis, cut, lost, log>>
Kill(i) == Alive(i) /\ Happens("kill", i) /\ Killed({i})
KillSession ==
  /\ Happens("kill", "session")
  /\ Killed({i \in Processes : IsUnique(i) /\ (Alive(i) \/ pc[i] = "checking")})

(* A process cannot reach redis for a while.                               *)
LoseConnection(i) ==
  /\ Happens("cut", i) /\ (Alive(i) \/ pc[i] = "checking")
  /\ cut' = cut \cup {i} /\ log' = [log EXCEPT !.cutOff = @ \cup {i}, !.known = @ \ {i}]
  /\ UNCHANGED <<local, redis, lost, since>>
Reconnect(i) == i \in cut /\ cut' = cut \ {i} /\ UNCHANGED <<local, redis, lost, since, may, log>>

(* The worker of the scan server takes the next item of the queue.         *)
BeginItem(i) ==
  /\ Happens("item", i)
  /\ NameOf[i] = "ScanServer" /\ pc[i] = "up" /\ i \notin lost /\ wants[i] = <<>>
  /\ wants' = [wants EXCEPT ![i] = <<"DeviceServer">>]
  /\ UNCHANGED <<pc, status, out, timer, elapsed, at, seen, info, stopping, redis, cut, lost, since, log>>

(* A tick: what is due has been done.                                      *)
Due(i) == \/ timer[i] = 0 /\ Updates(i)
          \/ timer[i] = 0 /\ pc[i] = "checking" /\ at[i] = "idle"
          \/ at[i] = "late"
          \/ out[i] # Nothing
Down(n) == IF n > 0 THEN n - 1 ELSE 0
Tick ==
  /\ \A i \in Processes : ~Due(i)
  /\ timer' = [i \in Processes |-> Down(timer[i])]
  /\ ttl' = [i \in Processes |-> Down(ttl[i])]
  /\ at' = [i \in Processes |-> IF at[i] = "listed" THEN "late" ELSE at[i]]
  /\ since' = [i \in Processes |-> IF since[i] \in 1..Expire THEN since[i] + 1 ELSE since[i]]
  /\ UNCHANGED <<pc, status, out, elapsed, seen, info, wants, stopping, val, cut, lost, may, log>>

-----------------------------------------------------------------------------
Init ==
  /\ \E sc \in Scenarios :
       /\ pc = [i \in Processes |-> IF i \in sc.running THEN "up" ELSE "off"]
       /\ may = sc.may
  /\ status = [i \in Processes |-> IF pc[i] = "up" THEN "RUNNING" ELSE "BUSY"]
  /\ out = [i \in Processes |-> Nothing]
  /\ timer \in {f \in [Processes -> 1..Refresh] : \A i \in Processes : pc[i] = "off" => f[i] = 1}
  /\ ttl = [i \in Processes |-> IF pc[i] = "up" THEN Expire - Refresh + timer[i] ELSE 0]
  /\ val = status
  /\ elapsed = [i \in Processes |-> 0]
  /\ at = [i \in Processes |-> "idle"]
  /\ seen = [i \in Processes |-> {}]
  /\ info = [i \in Processes |-> [n \in Names |-> None]]
  /\ wants = [i \in Processes |-> <<>>]
  /\ stopping = {} /\ cut = {} /\ lost = {}
  /\ since = [i \in Processes |-> 0]
  /\ log = [known |-> {i \in Processes : pc[i] = "up"}, cutOff |-> {}, met |-> {}, lone |-> {}, unseen |-> {}, there |-> [i \in Processes |-> {}],
            early |-> {}, vanished |-> FALSE, deceived |-> FALSE]

Updating(i) == UpdateServiceInfo(i) \/ Write(i, "update")
Looking(i) == ListKeys(i) \/ ReadKeys(i) \/ KeyIsGone(i)
Main(i) == MakeDeviceManager(i) \/ GoUp(i) \/ SayIdle(i) \/ End(i) \/ Write(i, "main")
Side(i) == DevicesStopped(i) \/ Write(i, "side")
Outside(i) == \/ Start(i) \/ Abort(i) \/ Shutdown(i) \/ Kill(i)
              \/ LoseConnection(i) \/ Reconnect(i) \/ BeginItem(i)
Next == \/ \E i \in Processes : Updating(i) \/ Looking(i) \/ Main(i) \/ Side(i) \/ Outside(i)
        \/ KillSession \/ Tick

(* Threads and time go on; what happens from outside need not happen.      *)
Fairness ==
  /\ WF_vars(Tick)
  /\ \A i \in Processes : WF_vars(Updating(i)) /\ WF_vars(Looking(i))
  /\ \A i \in Processes : IsUnique(i) => WF_vars(Main(i))
  /\ \A i \in Processes : IsDeviceServer(i) => WF_vars(Side(i))
Spec == Init /\ [][Next]_vars /\ Fairness

-----------------------------------------------------------------------------
TypeOK ==
  /\ pc \in [Processes -> Registered \cup {"off", "checking", "down", "refused", "failed"}]
  /\ status \in [Processes -> Status] /\ val \in [Processes -> Status]
  /\ out \in [Processes -> [Threads -> Status \cup {None}]]
  /\ timer \in [Processes -> 0..Refresh] /\ ttl \in [Processes -> 0..Expire]
  /\ elapsed \in [Processes -> 0..(Timeout + 1)] /\ since \in [Processes -> 0..(Expire + 1)]
  /\ at \in [Processes -> {"idle", "listed", "late"}] /\ seen \in [Processes -> SUBSET Processes]
  /\ info \in [Processes -> [Names -> Status \cup {None}]]
  /\ wants \in [Processes -> Seq(Names)]
  /\ stopping \subseteq Processes /\ cut \subseteq Processes /\ lost \subseteq Processes

UniqueService == log.unseen = {}
RefusedForReason == \A i \in Processes : pc[i] = "refused" => i \in log.met \cup log.lone
LivingAreSeen == ~log.vanished
(* No service starts while another one of its class is up that has         *)
(* announced itself and has not lost its connection: two run at a time     *)
(* only when neither could see the other (bec_service.py:66). It is        *)
(* refused only when another one of its class was alive while it was       *)
(* checking, not because of one that had crashed before; or when no        *)
(* process at all had a key, in which case what was read before is         *)
(* believed (:95). And the key of a process that is up and connected never *)
(* expires between its listing and its reading: neither a start, nor a     *)
(* wait, nor the worker of the scan server fails for that reason (:98).    *)
KeysAreTrue == UniqueService /\ RefusedForReason /\ LivingAreSeen

(* Who has waited for the device server may send it instructions: one      *)
(* listens, or has stopped to listen no longer ago than a key lives. The   *)
(* exception is a server whose stop_devices said RUNNING although it did   *)
(* not listen (device_server.py:121, scan_worker.py:282).                  *)
WaitedMeansListening == ~log.deceived

(* Every check comes to an end (bec_service.py:66), and nobody waits for   *)
(* ever while the services that a client waits for are up and everyone is  *)
(* connected (:253).                                                       *)
ServersUp == cut = {} /\ \A k \in 1..Len(Awaited) : \E j \in Processes : NameOf[j] = Awaited[k] /\ pc[j] = "up"
WaitsEnd ==
  /\ []<>(\A i \in Processes : pc[i] # "checking")
  /\ []<>((\A i \in Processes : wants[i] = <<>>) \/ ~ServersUp)
=============================================================================
