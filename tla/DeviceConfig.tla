---------------------------- MODULE DeviceConfig ----------------------------
(***************************************************************************)
(* How the device configuration is changed. A client asks SciHub's config  *)
(* handler, which lets the device server apply the change, writes the      *)
(* configuration to redis and broadcasts it; every service has a device    *)
(* manager with a copy of its own (bec_lib/core/devicemanager.py). SciBec  *)
(* is not connected.                                                       *)
(*                                                                         *)
(* A device's entry is [enabled, conf, param]: conf stands for its         *)
(* deviceConfig, param for the keys that concern no device object; an      *)
(* update is a function from some of these keys to values.                 *)
(***************************************************************************)
EXTENDS Integers, FiniteSets, Sequences, SequencesExt, Functions

CONSTANTS
  Programs,      (* A configuration at the start, with the sequence of        *)
                 (* requests that the client then makes.                      *)
  Controllers,   (* Devices with a socket controller.                         *)
  Unreachable,   (* Devices to which no new connection can be established.    *)
  Devices,       (* All devices.                                              *)
  Bad            (* A deviceConfig that the device object refuses.            *)

Services == {"hub", "ds", "server", "client"}

IsEntry(e) == e = [enabled |-> e.enabled, conf |-> e.conf, param |-> e.param] /\ e.enabled \in BOOLEAN
IsConfig(config) == DOMAIN config \subseteq Devices /\ \A d \in DOMAIN config: IsEntry(config[d])
IsUpdate(u) ==
  /\ DOMAIN u \subseteq {"enabled", "conf", "param", "unknown"}
  /\ "enabled" \in DOMAIN u => u.enabled \in BOOLEAN
\* The setters of a device, which change the client's own copy, ask for an update of it.
IsRequest(r) ==
  /\ r.action \in {"update", "reload", "set"} /\ r.locally \in BOOLEAN
  /\ r.action = "update" => DOMAIN r.us \subseteq Devices /\ \A d \in DOMAIN r.us: IsUpdate(r.us[d])
  /\ r.action = "set" => IsConfig(r.us)
  /\ r.locally => r.action = "update" /\ \E d \in Devices: DOMAIN r.us = {d}
ASSUME DevicesAssumption == IsFiniteSet(Devices)
ASSUME ProgramsAssumption ==
  \A p \in DOMAIN Programs:
    /\ IsConfig(Programs[p].config) /\ Programs[p].requests \in Seq(ToSet(Programs[p].requests))
    /\ \A r \in ToSet(Programs[p].requests): IsRequest(r)

VARIABLES
  todo, waits,   (* the client: its requests, and the one that is sent      *)
  requests,      (* device_config_request                                   *)
  replies,       (* device_config_request_response                          *)
  asks,          (* device_server_config_request                            *)
  hub,           (* ConfigHandler.parse_config_request                      *)
  dsh,           (* ConfigUpdateHandler.parse_config_request                *)
  inbox,         (* device_config_update, as each service receives it       *)
  mgr,           (* device managers                                         *)
  obj,           (* device objects of the device server                     *)
  redis,         (* device_config and device_info                           *)
  fresh,         (* the next request ID                                     *)
  log            (* what happened, for the properties                       *)

client == <<todo, waits>>
vars == <<client, requests, replies, asks, hub, dsh, inbox, mgr, obj, redis, fresh, log>>

-----------------------------------------------------------------------------
Keys(u) == DOMAIN u
Apply(entry, u) == [k \in DOMAIN entry |-> IF k \in Keys(u) THEN u[k] ELSE entry[k]]
Without(u, k) == Restrict(u, Keys(u) \ {k})
Idle == [pc |-> "idle"]
Answer(id) == {r.accepted: r \in {r \in replies: r.id = id}}
Reply(id, accepted) == replies' = replies \cup {[id |-> id, accepted |-> accepted]}
ApplyTo(devs, us) == [d \in DOMAIN devs |-> IF d \in DOMAIN us THEN Apply(devs[d], us[d]) ELSE devs[d]]

(* The client: ConfigHelper.send_config_request.                           *)

\* Setters of bec_lib's Device change the client's own copy first.
SendRequest ==
  /\ waits = 0 /\ todo # <<>>
  /\ LET r == Head(todo) IN
       /\ DOMAIN r.us \subseteq DOMAIN mgr["client"].devs \/ r.action # "update"
       /\ requests' = Append(requests, [id |-> fresh, action |-> r.action, us |-> r.us])
       /\ mgr' = IF r.locally THEN [mgr EXCEPT !["client"].devs = ApplyTo(@, r.us)] ELSE mgr
  /\ todo' = Tail(todo) /\ waits' = fresh /\ fresh' = fresh + 1
  /\ UNCHANGED <<replies, asks, hub, dsh, inbox, obj, redis, log>>
\* A device that is not there raises an error in the client.
NoSuchDevice ==
  /\ waits = 0 /\ todo # <<>>
  /\ Head(todo).action = "update" /\ ~(DOMAIN Head(todo).us \subseteq DOMAIN mgr["client"].devs)
  /\ todo' = Tail(todo)
  /\ UNCHANGED <<waits, requests, replies, asks, hub, dsh, inbox, mgr, obj, redis, fresh, log>>
GetReply ==
  /\ waits # 0 /\ Answer(waits) # {} /\ waits' = 0
  /\ UNCHANGED <<todo, requests, replies, asks, hub, dsh, inbox, mgr, obj, redis, fresh, log>>
\* Mutant of ReplyTimesOut: the client waits until it has the answer.
WaitsOn ==
  /\ waits # 0 /\ Answer(waits) = {}
  /\ UNCHANGED vars
ReplyTimesOut ==
  /\ waits # 0 /\ Answer(waits) = {} /\ waits' = 0
  /\ UNCHANGED <<todo, requests, replies, asks, hub, dsh, inbox, mgr, obj, redis, fresh, log>>

-----------------------------------------------------------------------------
(* SciHub: parse_config_request, in the thread of its consumer.            *)

HubKeeps == UNCHANGED <<client, dsh, obj>>
Devs(s) == mgr[s].devs
Broadcast(m) == inbox' = [s \in Services |-> IF mgr[s].alive THEN Append(inbox[s], m) ELSE inbox[s]]

\* check_request_validity
Valid(s, r) ==
  /\ r.action \in {"update", "set"} => DOMAIN r.us # {}
  /\ r.action = "update" => DOMAIN r.us \subseteq DOMAIN Devs(s)

\* The entry of the device that the handler holds: no longer that of the manager when the
\* manager has reloaded meanwhile.
Attached == hub.gen = mgr["hub"].gen
Entry == IF Attached THEN Devs("hub")[hub.dev] ELSE hub.entry
SetEntry(e, h) ==
  /\ mgr' = IF Attached THEN [mgr EXCEPT !["hub"].devs[hub.dev] = e] ELSE mgr
  /\ hub' = IF h = Idle THEN h ELSE [h EXCEPT !.entry = e]

Reject(id) ==
  /\ Reply(id, FALSE) /\ hub' = Idle
  /\ UNCHANGED <<asks, inbox, mgr, redis, fresh>>
\* Devices of updates that not every service has handled.
Broadcasted == UNION {UNION {DOMAIN m.us: m \in {m \in Range(inbox[s]): m.action = "update"}}: s \in Services}
HubReceive ==
  /\ hub.pc = "idle" /\ requests # <<>> /\ mgr["hub"].alive
  /\ requests' = Tail(requests) /\ HubKeeps
  /\ LET r == Head(requests) IN
     /\ log' = CASE ~Valid("hub", r) -> [log EXCEPT !.refused = @ \cup DOMAIN r.us]
                 [] Valid("hub", r) /\ r.action = "set" -> [log EXCEPT !.gone = @ \cup (Broadcasted \ DOMAIN r.us)]
                 [] OTHER -> log
     /\ IF ~Valid("hub", r) THEN Reject(r.id) ELSE
       CASE r.action = "update" ->
            /\ hub' = [pc |-> "next", req |-> r, left |-> SetToSeq(DOMAIN r.us), updated |-> FALSE, stored |-> {},
                       dev |-> "", u |-> <<>>, gen |-> 0, entry |-> <<>>, ask |-> 0]
            /\ UNCHANGED <<replies, asks, inbox, mgr, redis, fresh>>
       [] r.action = "reload" ->
            /\ Reply(r.id, TRUE) /\ Broadcast([action |-> "reload"])
            /\ UNCHANGED <<hub, asks, mgr, redis, fresh>>
       [] r.action = "set" ->
            /\ Reply(r.id, TRUE) /\ Broadcast([action |-> "reload"]) /\ redis' = [redis EXCEPT !.config = r.us]
            /\ UNCHANGED <<hub, asks, mgr, fresh>>

\* _update_config: the next device of the request; "updated" is that of the last one.
HubDevice ==
  /\ hub.pc = "next" /\ hub.left # <<>>
  /\ LET d == Head(hub.left) IN
       IF d \in DOMAIN Devs("hub")
         THEN /\ hub' = [hub EXCEPT !.pc = "ask", !.left = Tail(@), !.dev = d, !.u = hub.req.us[d],
                                    !.gen = mgr["hub"].gen, !.entry = Devs("hub")[d], !.updated = FALSE]
              /\ UNCHANGED <<replies, log, asks, inbox, mgr, redis, fresh>>
         ELSE Reject(hub.req.id) /\ log' = [log EXCEPT !.torn = @ \cup hub.stored, !.refused = @ \cup DOMAIN hub.req.us]
  /\ HubKeeps /\ UNCHANGED requests

\* _update_device_config: the device server is asked for deviceConfig, then for enabled.
Ask(h) ==
  /\ asks' = Append(asks, [id |-> fresh, dev |-> hub.dev, u |-> hub.u])
  /\ fresh' = fresh + 1
HubAsk ==
  /\ hub.pc = "ask" /\ Keys(hub.u) \cap {"conf", "enabled"} # {}
  /\ Ask(hub)
  /\ IF "conf" \in Keys(hub.u)
       THEN hub' = [hub EXCEPT !.pc = "wait", !.ask = fresh] /\ UNCHANGED mgr
       ELSE SetEntry(Apply(Entry, Restrict(hub.u, {"enabled"})), [hub EXCEPT !.pc = "wait", !.ask = fresh])
  /\ HubKeeps /\ UNCHANGED <<requests, replies, inbox, redis, log>>

\* Its own copy gets the new deviceConfig even if the device server refused it.
HubGetsAnswer ==
  /\ hub.pc = "wait" /\ Answer(hub.ask) # {}
  /\ LET accepted == Answer(hub.ask) = {TRUE}
         asked == IF "conf" \in Keys(hub.u) THEN "conf" ELSE "enabled"
         h == [hub EXCEPT !.pc = "ask", !.updated = accepted, !.u = Without(@, asked)]
     IN  /\ SetEntry(Apply(Entry, Restrict(hub.u, {asked})), h)
         /\ log' = IF accepted THEN log ELSE [log EXCEPT !.refused = @ \cup {hub.dev}]
  /\ HubKeeps /\ UNCHANGED <<requests, replies, asks, inbox, redis, fresh>>
\* Mutant of HubTimesOut: the request is dropped.
HubDrops ==
  /\ hub.pc = "wait" /\ Answer(hub.ask) = {} /\ hub' = Idle
  /\ HubKeeps /\ UNCHANGED <<requests, replies, asks, inbox, mgr, redis, fresh, log>>
HubTimesOut ==
  /\ hub.pc = "wait" /\ Answer(hub.ask) = {}
  /\ Reject(hub.req.id) /\ log' = [log EXCEPT !.refused = @ \cup {hub.dev}, !.late = @ \cup {hub.dev}, !.torn = @ \cup hub.stored]
  /\ HubKeeps /\ UNCHANGED requests

\* The other keys; then the whole entry goes to redis. It may be of a time before the last
\* reload, or hold a deviceConfig that was refused.
Overwritten(e) ==
  \/ ~Attached \/ Devs("hub")[hub.dev] # hub.entry
  \/ \E k \in DOMAIN e \ Keys(hub.req.us[hub.dev]): e[k] # redis.config[hub.dev][k]
HubStore ==
  /\ hub.pc = "ask" /\ Keys(hub.u) \cap {"conf", "enabled"} = {}
  /\ LET e == Apply(Entry, hub.u)
         updated == hub.updated \/ Keys(hub.u) # {}
     IN CASE "unknown" \in Keys(hub.u) \/ (updated /\ hub.dev \notin DOMAIN redis.config) ->
               /\ Reply(hub.req.id, FALSE) /\ SetEntry(e, Idle) /\ UNCHANGED <<asks, inbox, redis, fresh>>
               /\ log' = [log EXCEPT !.torn = @ \cup hub.stored \cup {hub.dev}, !.refused = @ \cup {hub.dev}]
          [] ~updated -> hub' = [hub EXCEPT !.pc = "next"] /\ UNCHANGED <<replies, asks, inbox, mgr, redis, fresh, log>>
          [] OTHER ->
               /\ SetEntry(e, [hub EXCEPT !.pc = "next", !.updated = TRUE, !.stored = @ \cup {hub.dev}])
               /\ redis' = [redis EXCEPT !.config[hub.dev] = e]
               /\ log' = IF Overwritten(e) THEN [log EXCEPT !.stale = @ \cup {hub.dev}] ELSE log
               /\ UNCHANGED <<replies, asks, inbox, fresh>>
  /\ HubKeeps /\ UNCHANGED requests
\* Mutant of HubDone: only the last device is broadcast.
HubTellsLast ==
  /\ hub.pc = "next" /\ hub.left = <<>> /\ hub' = Idle
  /\ IF hub.updated
       THEN Broadcast([action |-> "update", us |-> Restrict(hub.req.us, {hub.dev})]) /\ Reply(hub.req.id, TRUE)
       ELSE UNCHANGED <<inbox, replies>>
  /\ HubKeeps /\ UNCHANGED <<requests, asks, mgr, redis, fresh, log>>
HubDone ==
  /\ hub.pc = "next" /\ hub.left = <<>> /\ hub' = Idle
  /\ IF hub.updated
       THEN /\ Broadcast([action |-> "update", us |-> hub.req.us]) /\ Reply(hub.req.id, TRUE)
            /\ log' = [log EXCEPT !.gone = @ \cup (DOMAIN hub.req.us \ DOMAIN redis.config)]
       ELSE /\ log' = [log EXCEPT !.torn = @ \cup hub.stored, !.silent = @ \cup {hub.req.id}]
            /\ UNCHANGED <<inbox, replies>>
  /\ HubKeeps /\ UNCHANGED <<requests, asks, mgr, redis, fresh>>

-----------------------------------------------------------------------------
(* A device manager gets a broadcast. An exception in the callback of a    *)
(* consumer ends its thread and interrupts the program.                    *)

MgrKeeps == UNCHANGED <<client, asks, redis>>
Dies(s) == mgr' = [mgr EXCEPT ![s].alive = FALSE]

\* An update of a device that the service does not have.
ParseUpdate(s) ==
  /\ mgr[s].alive /\ mgr[s].load = "idle" /\ inbox[s] # <<>> /\ Head(inbox[s]).action = "update"
  /\ LET us == Head(inbox[s]).us IN
       /\ IF DOMAIN us \subseteq DOMAIN Devs(s)
            THEN mgr' = [mgr EXCEPT ![s].devs = ApplyTo(@, us)]
            ELSE Dies(s)
       /\ log' = IF s = "hub" /\ hub.pc \in {"ask", "wait"} /\ Attached /\ ApplyTo(Devs(s), us)[hub.dev] # Entry
                 THEN [log EXCEPT !.stale = @ \cup {hub.dev}] ELSE log
  /\ inbox' = [inbox EXCEPT ![s] = Tail(@)]
  /\ MgrKeeps /\ UNCHANGED <<requests, replies, hub, dsh, obj, fresh>>

\* _reload_action: the devices are gone until the configuration has been read. SciHub's
\* handler may hold one of them; the device server destroys its objects before.
ParseReload(s) ==
  /\ mgr[s].alive /\ mgr[s].load = "idle" /\ inbox[s] # <<>> /\ Head(inbox[s]).action = "reload"
  /\ inbox' = [inbox EXCEPT ![s] = Tail(@)]
  /\ mgr' = [mgr EXCEPT ![s].devs = <<>>, ![s].gen = @ + 1, ![s].load = "flushed"]
  /\ hub' = IF s = "hub" /\ hub.pc \in {"ask", "wait"} THEN [hub EXCEPT !.entry = Entry] ELSE hub
  /\ obj' = IF s = "ds" THEN [d \in DOMAIN obj |-> [obj[d] EXCEPT !.up = "destroyed"]] ELSE obj
  /\ MgrKeeps /\ UNCHANGED <<requests, replies, dsh, fresh, log>>

\* _get_config; the client sleeps before it loads the devices, the device server starts with
\* the first.
GetConfig(s) ==
  /\ mgr[s].alive /\ mgr[s].load = "flushed"
  /\ mgr' = [mgr EXCEPT ![s] =
       IF s \in {"client", "ds"} THEN [@ EXCEPT !.load = "loading", !.session = redis.config]
       ELSE [@ EXCEPT !.load = "idle", !.devs = redis.config]]
  /\ MgrKeeps /\ UNCHANGED <<inbox, requests, replies, hub, dsh, obj, fresh, log>>

\* DMClient._load_session: a device without device_info is left out.
ClientLoads ==
  /\ mgr["client"].alive /\ mgr["client"].load = "loading"
  /\ mgr' = [mgr EXCEPT !["client"] = [@ EXCEPT !.load = "idle", !.session = <<>>,
                                                !.devs = Restrict(mgr["client"].session, DOMAIN mgr["client"].session \cap redis.info)]]
  /\ log' = [log EXCEPT !.unloaded = @ \cup (DOMAIN mgr["client"].session \ redis.info)]
  /\ MgrKeeps /\ UNCHANGED <<inbox, requests, replies, hub, dsh, obj, fresh>>

-----------------------------------------------------------------------------
(* The device server.                                                      *)

Off(d) == IF d \in Controllers THEN "off" ELSE "destroyed"

\* initialize_device, for the thread that loads the session and for the request handler.
Created(d, e) == [obj EXCEPT ![d] =
  [conf |-> e.conf, up |-> IF e.enabled /\ d \notin Unreachable THEN "connected" ELSE "off"]]
Failing(d, e) == e.enabled /\ d \in Unreachable
AddDevice(d, e) == [x \in DOMAIN Devs("ds") \cup {d} |-> IF x = d THEN e ELSE Devs("ds")[x]]

\* A device that cannot be connected is disabled, by a request to SciHub.
DisableRequest(d) ==
  requests' = Append(requests, [id |-> fresh, action |-> "update", us |-> [x \in {d} |-> [enabled |-> FALSE]]])

\* A request for d is under way, or has been carried out since the configuration was read.
Overtaken(d, e) ==
  \/ d \in DOMAIN redis.config /\ redis.config[d] # e
  \/ hub.pc # "idle" /\ d \in DOMAIN hub.req.us
\* An object that is made anew before its new configuration is there.
Remade(d, early, l) == IF early THEN [l EXCEPT !.remade = @ \cup {d}] ELSE l
DsLoad ==
  /\ mgr["ds"].alive /\ mgr["ds"].load = "loading" /\ UNCHANGED <<client, asks, replies, hub, dsh, inbox>>
  /\ IF DOMAIN mgr["ds"].session = {}
       THEN mgr' = [mgr EXCEPT !["ds"].load = "idle"] /\ UNCHANGED <<requests, obj, redis, fresh, log>>
       ELSE LET d == CHOOSE d \in DOMAIN mgr["ds"].session: TRUE
                e == mgr["ds"].session[d]
                next == [mgr["ds"] EXCEPT !.session = Without(@, d)]
            IN CASE e.conf = Bad ->
                      /\ mgr' = [mgr EXCEPT !["ds"] = next] /\ log' = [log EXCEPT !.refused = @ \cup {d}]
                      /\ UNCHANGED <<requests, obj, redis, fresh>>
                 [] e.conf # Bad /\ Failing(d, e) ->
                      /\ obj' = Created(d, e) /\ redis' = [redis EXCEPT !.info = @ \cup {d}]
                      /\ mgr' = [mgr EXCEPT !["ds"] = [next EXCEPT !.devs = AddDevice(d, [e EXCEPT !.enabled = FALSE]),
                                                                 !.load = "disabling", !.ask = fresh]]
                      /\ DisableRequest(d) /\ fresh' = fresh + 1
                      /\ log' = Remade(d, Overtaken(d, e), [log EXCEPT !.refused = @ \cup {d}])
                 [] OTHER ->
                      /\ obj' = Created(d, e) /\ redis' = [redis EXCEPT !.info = @ \cup {d}]
                      /\ mgr' = [mgr EXCEPT !["ds"] = [next EXCEPT !.devs = AddDevice(d, e)]]
                      /\ log' = Remade(d, Overtaken(d, e), log)
                      /\ UNCHANGED <<requests, fresh>>
\* The answer, the refusal and the timeout: with all of them the next device follows.
DsDisabled ==
  /\ mgr["ds"].alive /\ mgr["ds"].load = "disabling" /\ mgr' = [mgr EXCEPT !["ds"].load = "loading"]
  /\ UNCHANGED <<client, asks, requests, replies, hub, dsh, inbox, obj, redis, fresh, log>>

\* The request handler: one device for each of SciHub's requests.
DsReceive ==
  /\ mgr["ds"].alive /\ dsh.pc = "idle" /\ asks # <<>> /\ asks' = Tail(asks)
  /\ IF Head(asks).dev \in DOMAIN Devs("ds")
       THEN dsh' = [pc |-> "update", ask |-> Head(asks), nested |-> 0] /\ UNCHANGED <<replies, log>>
       ELSE Reply(Head(asks).id, FALSE) /\ UNCHANGED dsh /\ log' = [log EXCEPT !.late = @ \cup {Head(asks).dev}]
  /\ UNCHANGED <<client, requests, hub, inbox, mgr, obj, redis, fresh>>

Finish(accepted) == Reply(dsh.ask.id, accepted) /\ dsh' = Idle
DsKeeps == UNCHANGED <<client, asks, hub, inbox>>
\* An object that was disconnected for good is made anew from the entry of its device,
\* which does not have the new deviceConfig yet.
Enable(d, e, o) == IF o[d].up = "destroyed" THEN Created(d, e) ELSE [o EXCEPT ![d].up = "connected"]
ConfiguredAnyhow(d, u) == IF "conf" \in Keys(u) THEN [obj EXCEPT ![d].conf = u.conf] ELSE obj
Configured(d, u) ==
  IF "conf" \in Keys(u) /\ u.conf # Bad THEN [obj EXCEPT ![d].conf = u.conf]
  ELSE IF "conf" \in Keys(u) THEN [obj EXCEPT ![d].conf = Devs("ds")[d].conf] ELSE obj

\* deviceConfig, then enabled. Another exception than a DeviceConfigError is answered like a
\* success and ends the device server.
DsUpdate ==
  /\ mgr["ds"].alive /\ dsh.pc = "update" /\ DsKeeps
  /\ LET d == dsh.ask.dev
         u == dsh.ask.u
         known == d \in DOMAIN Devs("ds")
         made == Configured(d, u)
         e == [Devs("ds")[d] EXCEPT !.enabled = u.enabled]
         set == [mgr EXCEPT !["ds"].devs[d] = e]
         gone == obj[d].up = "destroyed"
     IN CASE ~known -> Dies("ds") /\ Finish(TRUE) /\ UNCHANGED <<requests, obj, fresh, redis, log>>
          [] known /\ "conf" \in Keys(u) /\ u.conf = Bad ->
               /\ Finish(FALSE) /\ obj' = made /\ UNCHANGED <<requests, mgr, redis, fresh>>
               /\ log' = IF Devs("ds")[d].conf = obj[d].conf THEN log ELSE [log EXCEPT !.late = @ \cup {d}]
          [] known /\ Apply([conf |-> 0], u).conf # Bad /\ "enabled" \notin Keys(u) ->
               Finish(TRUE) /\ obj' = made /\ UNCHANGED <<requests, mgr, redis, fresh, log>>
          [] OTHER -> IF ~u.enabled
               THEN /\ mgr' = set /\ obj' = [made EXCEPT ![d].up = IF @ = "connected" THEN Off(d) ELSE @]
                    /\ Finish(TRUE) /\ UNCHANGED <<requests, redis, fresh, log>>
               ELSE IF d \notin Unreachable \/ obj[d].up = "connected"
               THEN /\ mgr' = set /\ obj' = Enable(d, e, made) /\ Finish(TRUE)
                    /\ log' = Remade(d, gone /\ e.conf # made[d].conf, log)
                    /\ UNCHANGED <<requests, redis, fresh>>
               ELSE IF gone
               THEN /\ mgr' = [mgr EXCEPT !["ds"].devs[d].enabled = FALSE] /\ obj' = Created(d, e)
                    /\ DisableRequest(d) /\ fresh' = fresh + 1 /\ UNCHANGED <<replies, redis>>
                    /\ dsh' = [dsh EXCEPT !.pc = "disabling", !.nested = fresh]
                    /\ log' = Remade(d, e.conf # made[d].conf, [log EXCEPT !.refused = @ \cup {d}])
               ELSE Dies("ds") /\ Finish(TRUE) /\ obj' = made /\ UNCHANGED <<requests, redis, fresh, log>>

\* SciHub waits for this handler, and this handler for SciHub: one of them has to give up.
DsGivesUp ==
  /\ mgr["ds"].alive /\ dsh.pc = "disabling"
  /\ Finish(Answer(dsh.nested) = {TRUE})
  /\ DsKeeps /\ UNCHANGED <<requests, mgr, obj, redis, fresh, log>>

-----------------------------------------------------------------------------
InitiallyWith(config) ==
  /\ mgr = [s \in Services |-> [alive |-> TRUE, gen |-> 1, devs |-> config, load |-> "idle", session |-> <<>>, ask |-> 0]]
  /\ obj = [d \in Devices |-> IF d \in DOMAIN config THEN [conf |-> config[d].conf, up |-> IF config[d].enabled THEN "connected" ELSE "off"]
                             ELSE [conf |-> 0, up |-> "destroyed"]]
  /\ redis = [config |-> config, info |-> DOMAIN config]
Init ==
  /\ \E p \in DOMAIN Programs: InitiallyWith(Programs[p].config) /\ todo = Programs[p].requests
  /\ waits = 0 /\ requests = <<>> /\ replies = {} /\ asks = <<>> /\ hub = Idle /\ dsh = Idle
  /\ inbox = [s \in Services |-> <<>>] /\ fresh = 1
  /\ log = [unloaded |-> {}, gone |-> {}, late |-> {}, torn |-> {}, refused |-> {}, silent |-> {}, stale |-> {}, remade |-> {}]

Client == SendRequest \/ NoSuchDevice \/ GetReply \/ ReplyTimesOut
Hub == HubReceive \/ HubDevice \/ HubAsk \/ HubGetsAnswer \/ HubTimesOut \/ HubStore \/ HubDone
Manager(s) == ParseUpdate(s) \/ ParseReload(s) \/ GetConfig(s)
DsHandler == DsReceive \/ DsUpdate \/ DsGivesUp
Quiet ==
  /\ todo = <<>> /\ waits = 0 /\ hub.pc = "idle" /\ dsh.pc = "idle"
  /\ requests = <<>> \/ ~mgr["hub"].alive
  /\ asks = <<>> \/ ~mgr["ds"].alive
  /\ \A s \in Services: mgr[s].alive => inbox[s] = <<>> /\ mgr[s].load = "idle"
Done == Quiet /\ UNCHANGED vars
Next ==
  Client \/ Hub \/ DsHandler \/ DsLoad \/ DsDisabled \/ ClientLoads \/ (\E s \in Services: Manager(s)) \/ Done
Spec ==
  /\ Init /\ [][Next]_vars /\ WF_vars(Client) /\ WF_vars(Hub) /\ WF_vars(DsHandler)
  /\ WF_vars(DsLoad \/ DsDisabled) /\ WF_vars(ClientLoads) /\ \A s \in Services: WF_vars(Manager(s))

-----------------------------------------------------------------------------
TypeOK ==
  /\ waits \in 0..(fresh - 1)
  /\ \A q \in {requests, asks}: \A i \in DOMAIN q: q[i].id \in 1..(fresh - 1)
  /\ \A i, j \in DOMAIN requests: i # j => requests[i].id # requests[j].id
  /\ \A a, b \in replies: a.id = b.id => a = b
  /\ hub.pc \in {"idle", "next", "ask", "wait"} /\ dsh.pc \in {"idle", "update", "disabling"}
  /\ \A s \in Services: DOMAIN Devs(s) \subseteq Devices
                        /\ mgr[s].load \in {"idle", "flushed", "loading", "disabling"}
  /\ DOMAIN obj = Devices /\ \A d \in Devices: obj[d].up \in {"connected", "off", "destroyed"}
  /\ redis.info \subseteq Devices /\ DOMAIN redis.config \subseteq Devices

Same(s, d) ==
  /\ d \in DOMAIN Devs(s) <=> d \in DOMAIN redis.config
  /\ d \in DOMAIN Devs(s) => Devs(s)[d] = redis.config[d]
\* When nothing is on its way, every device manager has the configuration that is stored,
\* but for a device for which a change was refused or was stored over another entry than the
\* one that was read, devices whose device_info the client read too early, and those that a
\* request had changed before it failed; and but for the client's own copy of a device of
\* which SciHub, when it was dead, has left the change unread.
InAgreement ==
  Quiet => \A s \in Services, d \in Devices:
    mgr[s].alive => \/ Same(s, d) \/ d \in log.refused \cup log.stale \cup log.unloaded \cup log.torn
                    \/ s = "client" /\ \E i \in DOMAIN requests: d \in DOMAIN requests[i].us

HasConfig ==
  Quiet /\ mgr["ds"].alive => \A d \in DOMAIN Devs("ds"):
    obj[d].conf = Devs("ds")[d].conf \/ Devs("ds")[d].conf = Bad
    \/ d \in log.remade \cup log.late \cup log.torn \cup log.stale

EnabledIsConnected ==
  Quiet /\ mgr["ds"].alive => \A d \in DOMAIN redis.config:
    (redis.config[d].enabled <=> obj[d].up = "connected") \/ d \in log.refused \cup log.stale \cup log.remade

\* When nothing is on its way, a device object has the deviceConfig that the device server
\* reports, unless SciHub has broadcast what the object refused or has given up on, broadcasts
\* nothing because the request failed later, has stored another entry than the one that was
\* read, or the object was made anew, or given its former configuration back, before a
\* request was completed; and it is connected if and only if the stored configuration enables
\* it, but for devices that were made anew too early or whose change was refused or stored
\* over another entry.
DeviceFollows == HasConfig /\ EnabledIsConnected

ServicesSurvive ==
  /\ (mgr["hub"].alive /\ mgr["server"].alive) \/ log.gone # {}
  /\ mgr["ds"].alive \/ mgr["ds"].gen > 1 \/ \E d \in Unreachable: obj[d].up = "off"
  /\ mgr["client"].alive \/ log.unloaded \cup log.gone # {}

Answered ==
  Quiet /\ mgr["ds"].alive /\ mgr["hub"].alive =>
    \A id \in 1..(fresh - 1): Answer(id) # {} \/ id \in log.silent

AcceptedIsStored ==
  hub.pc = "next" /\ hub.left = <<>> /\ hub.updated =>
    \A d \in DOMAIN hub.req.us \ (log.refused \cup log.stale): Keys(hub.req.us[d]) # {} =>
      d \in DOMAIN redis.config /\ Apply(redis.config[d], hub.req.us[d]) = redis.config[d]

\* Each request is answered, by SciHub and by the device server while they live, but for an
\* update of which the last device was not updated. When an update is accepted, all its
\* devices have been stored as requested, but for those that were refused and those whose
\* entry a broadcast has changed meanwhile.
EachIsAnswered == Answered /\ AcceptedIsStored

\* No service waits for another one for ever, although SciHub may ask the device server
\* while the device server asks SciHub; and no request ends SciHub or the scan server, unless
\* it is an update of a device that a set takes out of the configuration before all services
\* have handled it. It ends the device server only when the devices were reloaded or one could
\* not be connected, and the client only when it had left out a device, too.
Settles == []ServicesSurvive /\ <>[]Quiet
=============================================================================
